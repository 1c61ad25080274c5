------------------------------ MODULE SolVault ------------------------------
(***************************************************************************)
(* The Store of vaultdrop/gpt-5-6-sol/src/vaultdrop.py: request threads    *)
(* that share a SQLite database (one writer at a time), blob and chunk     *)
(* files, one lock per content hash and a GC trash directory, with the     *)
(* process killed at any point and recovered at start-up.                  *)
(*                                                                         *)
(* A transaction that touches no file is one step.  put_chunk and gc       *)
(* rename files inside their transaction, so theirs are split and hold     *)
(* `dbWriter' in between.  Temporary files have unique names, are read by  *)
(* nobody else and are swept at start-up: they live in `job' only.         *)
(* An artifact row is named by its upload (UNIQUE(upload_id)), and only    *)
(* requests of the owning tenant are modelled: the rows another tenant     *)
(* would select do not exist for it.                                       *)
(***************************************************************************)
EXTENDS Integers, FiniteSets

CONSTANTS
  Uploads,     \* upload ids
  Chunks,      \* chunk indices of an upload
  Data,        \* the possible contents of a chunk
  Digest,      \* SHA-256 of an assembled upload, as a number: gc sorts hashes
  Threads,     \* request threads of the ThreadingHTTPServer
  None,        \* no value: NULL, no row, no file, lock free
  BatchSize,   \* gc's 64
  Stamps,      \* bound: enough values for inode numbers and for created_at
  MaxCrashes,  \* bound: SIGKILLs in a behaviour
  MaxRots      \* bound: files that bit rot damages in a behaviour

States   == {"uploading", "finalizing", "finalized"}
Contents == [Chunks -> Data]
Hashes   == {Digest[c] : c \in Contents}

ASSUME UploadsAssumption == IsFiniteSet(Uploads) /\ None \notin Uploads \cup States
ASSUME DataAssumption    == None \notin Data
ASSUME ThreadsAssumption == None \notin Threads
ASSUME DigestAssumption  ==
  /\ Digest \in [Contents -> Nat]
  /\ \A c1, c2 \in Contents : Digest[c1] = Digest[c2] => c1 = c2
  /\ None \notin Nat
  /\ Stamps \subseteq Nat
  /\ None \notin [good : BOOLEAN, ino : Nat]
  /\ None \notin [refs : Nat, validated : BOOLEAN, created : Nat]
ASSUME BoundsAssumption  ==
  Stamps # {} /\ BatchSize \in Nat \ {0} /\ MaxCrashes \in Nat /\ MaxRots \in Nat

VARIABLES
  \* SQLite, committed state
  ustate,     \* uploads.state, or None: no row
  chunkRow,   \* chunks.sha256 of (upload, index), or None
  artifact,   \* artifacts.sha256 of the upload's artifact, or None
  blob,       \* blobs row: [refs, validated, created], or None
  dbWriter,   \* the thread inside a split write transaction, or None
  \* files
  chunkFile,  \* uploads/<id>/chunks/<i>.chunk, or None
  blobFile,   \* blobs/<h>.blob: [good, ino], or None
  trash,      \* hashes with an entry under gc-trash
  \* process memory
  lock,       \* blob_locks: owner of each hash's lock, or None
  pc,         \* where each request thread is
  job,        \* local variables of each request thread
  val,        \* the validation pass: owner, snapshot, rows to do, verdicts
  phase,      \* "up", or the step of start-up recovery that comes next
  \* bookkeeping of the model
  crashes,    \* SIGKILLs so far
  rotted      \* hashes whose file bit rot has ever damaged

dbVars   == <<ustate, chunkRow, artifact, blob>>
fileVars == <<chunkFile, blobFile, trash>>
memVars  == <<dbWriter, lock, pc, job, val, phase>>
envVars  == <<crashes, rotted>>
vars     == <<dbVars, fileVars, memVars, envVars>>

File == [good : BOOLEAN, ino : Nat]
Row  == [refs : Nat, validated : BOOLEAN, created : Nat]

NoJob == [u |-> None, i |-> None, d |-> None, h |-> None, file |-> None,
          todo |-> {}, batch |-> {}, dead |-> {}, moved |-> {}]
NoVal == [owner |-> None, snap |-> [h \in Hashes |-> None], todo |-> {}, bad |-> {}]

(* A value nothing in use equals (the least, to keep one representative):  *)
(* inode numbers of linked and of open files differ, time_ns() advances.   *)
Fresh(n, used) == n \notin used /\ \A m \in Stamps \ used : n <= m

Inodes == {blobFile[h].ino : h \in {g \in Hashes : blobFile[g] # None}}
          \cup {job[t].file.ino : t \in {s \in Threads : job[s].file # None}}
Times  == {blob[h].created : h \in {g \in Hashes : blob[g] # None}}
          \cup {val.snap[h] : h \in Hashes}

Least(x, S)  == x \in S /\ \A y \in S : x <= y
FirstN(S, n) == {x \in S : Cardinality({y \in S : y < x}) < n}

(* The artifact rows that refer to hash h, and what its row says of them.  *)
Refs(h)       == {u \in Uploads : artifact[u] = h}
Referenced(h) == blob[h] # None /\ blob[h].refs > 0

Received(u) == \A i \in Chunks : chunkRow[u][i] # None

Idle(t)      == phase = "up" /\ pc[t] = "idle"
Goto(t, l)   == pc' = [pc EXCEPT ![t] = l]
Finish(t)    == pc' = [pc EXCEPT ![t] = "idle"] /\ job' = [job EXCEPT ![t] = NoJob]
ReleaseBy(t) == lock' = [h \in Hashes |-> IF lock[h] = t THEN None ELSE lock[h]]

Init ==
  /\ ustate = [u \in Uploads |-> None]
  /\ chunkRow = [u \in Uploads |-> [i \in Chunks |-> None]]
  /\ artifact = [u \in Uploads |-> None]
  /\ blob = [h \in Hashes |-> None]
  /\ dbWriter = None
  /\ chunkFile = [u \in Uploads |-> [i \in Chunks |-> None]]
  /\ blobFile = [h \in Hashes |-> None]
  /\ trash = {}
  /\ lock = [h \in Hashes |-> None]
  /\ pc = [t \in Threads |-> "idle"]
  /\ job = [t \in Threads |-> NoJob]
  /\ val = NoVal
  /\ phase = "up"
  /\ crashes = 0
  /\ rotted = {}

-----------------------------------------------------------------------------
(* Uploads and chunks                                                      *)

CreateUpload(t, u) ==
  /\ Idle(t) /\ ustate[u] = None /\ dbWriter = None
  /\ ustate' = [ustate EXCEPT ![u] = "uploading"]
  /\ UNCHANGED <<chunkRow, artifact, blob, fileVars, memVars, envVars>>

(* The state check before the body is read; the body then goes to a        *)
(* temporary file and its checksum matches.                                *)
PutCheck(t, u, i, d) ==
  /\ Idle(t) /\ ustate[u] = "uploading"
  /\ job' = [job EXCEPT ![t] = [NoJob EXCEPT !.u = u, !.i = i, !.d = d]]
  /\ Goto(t, "putTx")
  /\ UNCHANGED <<dbVars, fileVars, dbWriter, lock, val, phase, envVars>>

(* The transaction finds the chunk already recorded (a replay, identical   *)
(* or conflicting) or the upload no longer open: nothing is written.       *)
PutRefused(t) ==
  /\ pc[t] = "putTx" /\ dbWriter = None
  /\ \/ chunkRow[job[t].u][job[t].i] # None
     \/ ustate[job[t].u] # "uploading"
  /\ Finish(t)
  /\ UNCHANGED <<dbVars, fileVars, dbWriter, lock, val, phase, envVars>>

(* Mutant: the transaction does not look for a recorded chunk.             *)
PutRenameOverRow(t) ==
  LET u == job[t].u  i == job[t].i IN
  /\ pc[t] = "putTx" /\ dbWriter = None
  /\ ustate[u] = "uploading"
  /\ chunkFile' = [chunkFile EXCEPT ![u][i] = job[t].d]
  /\ dbWriter' = t
  /\ Goto(t, "putCommit")
  /\ UNCHANGED <<dbVars, blobFile, trash, lock, job, val, phase, envVars>>

(* Mutant: the upload's state is not read again inside the transaction.    *)
PutRenameLate(t) ==
  LET u == job[t].u  i == job[t].i IN
  /\ pc[t] = "putTx" /\ dbWriter = None
  /\ chunkFile' = [chunkFile EXCEPT ![u][i] = job[t].d]
  /\ dbWriter' = t
  /\ Goto(t, "putCommit")
  /\ UNCHANGED <<dbVars, blobFile, trash, lock, job, val, phase, envVars>>

PutRename(t) ==
  LET u == job[t].u  i == job[t].i IN
  /\ pc[t] = "putTx" /\ dbWriter = None
  /\ chunkRow[u][i] = None
  /\ ustate[u] = "uploading"
  /\ chunkFile' = [chunkFile EXCEPT ![u][i] = job[t].d]
  /\ dbWriter' = t
  /\ Goto(t, "putCommit")
  /\ UNCHANGED <<dbVars, blobFile, trash, lock, job, val, phase, envVars>>

PutCommit(t) ==
  /\ pc[t] = "putCommit"
  /\ chunkRow' = [chunkRow EXCEPT ![job[t].u][job[t].i] = job[t].d]
  /\ dbWriter' = None
  /\ Finish(t)
  /\ UNCHANGED <<ustate, artifact, blob, fileVars, lock, val, phase, envVars>>

(* fsync, INSERT or commit raises: rolled back, the renamed file stays.    *)
PutError(t) ==
  /\ pc[t] = "putCommit"
  /\ dbWriter' = None
  /\ Finish(t)
  /\ UNCHANGED <<dbVars, fileVars, lock, val, phase, envVars>>

-----------------------------------------------------------------------------
(* Finalize                                                                *)

(* Mutant: an upload another request is finalizing is not refused.         *)
FreezeAgain(t, u, h) ==
  /\ Idle(t) /\ dbWriter = None
  /\ ustate[u] \in {"uploading", "finalizing"}
  /\ Received(u)
  /\ ustate' = [ustate EXCEPT ![u] = "finalizing"]
  /\ job' = [job EXCEPT ![t] = [NoJob EXCEPT !.u = u, !.h = h]]
  /\ Goto(t, "assemble")
  /\ UNCHANGED <<chunkRow, artifact, blob, fileVars, dbWriter, lock, val, phase, envVars>>

(* _freeze_upload: a complete upload that is still open is closed to        *)
(* chunks; replays and refusals write nothing.                             *)
Freeze(t, u, h) ==
  /\ Idle(t) /\ dbWriter = None
  /\ ustate[u] = "uploading"
  /\ Received(u)
  /\ ustate' = [ustate EXCEPT ![u] = "finalizing"]
  /\ job' = [job EXCEPT ![t] = [NoJob EXCEPT !.u = u, !.h = h]]
  /\ Goto(t, "assemble")
  /\ UNCHANGED <<chunkRow, artifact, blob, fileVars, dbWriter, lock, val, phase, envVars>>

(* Mutant: the digest of the assembled file is not compared.               *)
AssembleUnverified(t) ==
  /\ pc[t] = "assemble"
  /\ Goto(t, "lockBlob")
  /\ UNCHANGED <<dbVars, fileVars, dbWriter, lock, job, val, phase, envVars>>

(* The chunk files are streamed into a temporary blob and hashed; a wrong  *)
(* digest or an unreadable chunk file unfreezes the upload.                *)
Assemble(t) ==
  LET u == job[t].u
      Matches == /\ \A i \in Chunks : chunkFile[u][i] # None
                 /\ Digest[chunkFile[u]] = job[t].h
  IN
  /\ pc[t] = "assemble"
  /\ Goto(t, IF Matches THEN "lockBlob" ELSE "unfreeze")
  /\ UNCHANGED <<dbVars, fileVars, dbWriter, lock, job, val, phase, envVars>>

(* Mutant: the blob is placed and committed without the hash's lock.       *)
LockBlobSkipped(t) ==
  /\ pc[t] = "lockBlob"
  /\ Goto(t, "place")
  /\ UNCHANGED <<dbVars, fileVars, dbWriter, lock, job, val, phase, envVars>>

LockBlob(t) ==
  /\ pc[t] = "lockBlob" /\ lock[job[t].h] = None
  /\ lock' = [lock EXCEPT ![job[t].h] = t]
  /\ Goto(t, "place")
  /\ UNCHANGED <<dbVars, fileVars, dbWriter, job, val, phase, envVars>>

(* os.replace(temp, target): every finalize installs the file it verified, *)
(* a deduplicated one too.                                                 *)
Place(t) ==
  /\ pc[t] = "place"
  /\ \E n \in Stamps :
       /\ Fresh(n, Inodes)
       /\ blobFile' = [blobFile EXCEPT ![job[t].h] = [good |-> TRUE, ino |-> n]]
  /\ Goto(t, "commit")
  /\ UNCHANGED <<dbVars, chunkFile, trash, dbWriter, lock, job, val, phase, envVars>>

Commit(t) ==
  LET u == job[t].u  h == job[t].h
      old == IF blob[h] = None THEN 0 ELSE blob[h].refs
  IN
  /\ pc[t] = "commit" /\ dbWriter = None
  /\ ustate[u] = "finalizing"
  /\ \E n \in Stamps :
       /\ Fresh(n, Times)
       /\ blob' = [blob EXCEPT ![h] = [refs |-> old + 1, validated |-> TRUE, created |-> n]]
  /\ artifact' = [artifact EXCEPT ![u] = h]
  /\ ustate' = [ustate EXCEPT ![u] = "finalized"]
  /\ ReleaseBy(t)
  /\ Goto(t, "cleanup")
  /\ UNCHANGED <<chunkRow, fileVars, dbWriter, job, val, phase, envVars>>

(* cleanup_chunk_files stops at the first file it cannot remove; the       *)
(* request has succeeded all the same.                                     *)
CleanupChunks(t) ==
  /\ pc[t] = "cleanup"
  /\ \E S \in SUBSET Chunks :
       chunkFile' = [chunkFile EXCEPT ![job[t].u] =
                       [i \in Chunks |-> IF i \in S THEN None ELSE @[i]]]
  /\ Finish(t)
  /\ UNCHANGED <<dbVars, blobFile, trash, dbWriter, lock, val, phase, envVars>>

(* Mutant: the error path leaves the blob lock held.                       *)
FinalizeErrorKeepsLock(t) ==
  /\ pc[t] \in {"assemble", "place", "commit"}
  /\ Goto(t, "unfreeze")
  /\ UNCHANGED <<dbVars, fileVars, dbWriter, lock, job, val, phase, envVars>>

(* An I/O or database error while assembling, placing or committing.       *)
FinalizeError(t) ==
  /\ pc[t] \in {"assemble", "place", "commit"}
  /\ ReleaseBy(t)
  /\ Goto(t, "unfreeze")
  /\ UNCHANGED <<dbVars, fileVars, dbWriter, job, val, phase, envVars>>

Unfreeze(t) ==
  LET u == job[t].u IN
  /\ pc[t] = "unfreeze" /\ dbWriter = None
  /\ ustate' = [ustate EXCEPT ![u] = IF @ = "finalizing" THEN "uploading" ELSE @]
  /\ Finish(t)
  /\ UNCHANGED <<chunkRow, artifact, blob, fileVars, dbWriter, lock, val, phase, envVars>>

(* The hash's directory cannot be made, before the try block begins, or    *)
(* the unfreezing transaction fails: the upload is left in `finalizing'.   *)
Abandon(t) ==
  /\ pc[t] \in {"assemble", "unfreeze"}
  /\ Finish(t)
  /\ UNCHANGED <<dbVars, fileVars, dbWriter, lock, val, phase, envVars>>

-----------------------------------------------------------------------------
(* Download and delete                                                     *)

(* What a descriptor opened as f on h's file reads now: the file itself    *)
(* while it has not been replaced or unlinked, else its last content.      *)
Reads(h, f) == IF blobFile[h] # None /\ blobFile[h].ino = f.ino
               THEN blobFile[h].good ELSE f.good

GetRow(t, u) ==
  /\ Idle(t) /\ artifact[u] # None
  /\ job' = [job EXCEPT ![t] = [NoJob EXCEPT !.u = u, !.h = artifact[u]]]
  /\ Goto(t, "getOpen")
  /\ UNCHANGED <<dbVars, fileVars, dbWriter, lock, val, phase, envVars>>

(* Under the blob lock the row is looked up again and the file opened.     *)
GetOpen(t) ==
  LET u == job[t].u  h == job[t].h IN
  /\ pc[t] = "getOpen" /\ lock[h] = None
  /\ IF artifact[u] = None \/ blobFile[h] = None
     THEN Finish(t)
     ELSE /\ job' = [job EXCEPT ![t].file = blobFile[h]]
          /\ Goto(t, "getVerify")
  /\ UNCHANGED <<dbVars, fileVars, dbWriter, lock, val, phase, envVars>>

(* The bytes are hashed before any is served; a mismatch flags the row.    *)
GetVerify(t) ==
  LET h == job[t].h IN
  /\ pc[t] = "getVerify"
  /\ \/ /\ Reads(h, job[t].file)
        /\ UNCHANGED blob
     \/ /\ ~Reads(h, job[t].file) /\ dbWriter = None
        /\ blob' = [blob EXCEPT ![h] = IF @ = None THEN None
                                       ELSE [@ EXCEPT !.validated = FALSE]]
  /\ Finish(t)
  /\ UNCHANGED <<ustate, chunkRow, artifact, fileVars, dbWriter, lock, val, phase, envVars>>

DeleteRow(t, u) ==
  /\ Idle(t) /\ artifact[u] # None
  /\ job' = [job EXCEPT ![t] = [NoJob EXCEPT !.u = u, !.h = artifact[u]]]
  /\ Goto(t, "deleteLock")
  /\ UNCHANGED <<dbVars, fileVars, dbWriter, lock, val, phase, envVars>>

DeleteLock(t) ==
  /\ pc[t] = "deleteLock" /\ lock[job[t].h] = None
  /\ lock' = [lock EXCEPT ![job[t].h] = t]
  /\ Goto(t, "deleteTx")
  /\ UNCHANGED <<dbVars, fileVars, dbWriter, job, val, phase, envVars>>

(* Mutant: the transaction trusts the lookup made before the lock and does *)
(* not look at the count.                                                  *)
DeleteTxTrusting(t) ==
  LET u == job[t].u  h == job[t].h IN
  /\ pc[t] = "deleteTx" /\ dbWriter = None
  /\ artifact' = [artifact EXCEPT ![u] = None]
  /\ blob' = [blob EXCEPT ![h].refs = @ - 1]
  /\ ReleaseBy(t)
  /\ Finish(t)
  /\ UNCHANGED <<ustate, chunkRow, fileVars, dbWriter, val, phase, envVars>>

(* The row is looked up again inside the transaction: a second delete of   *)
(* the same artifact answers 404 and leaves the count alone, and a count   *)
(* that is zero already rolls the transaction back.                        *)
DeleteTx(t) ==
  LET u == job[t].u  h == job[t].h IN
  /\ pc[t] = "deleteTx" /\ dbWriter = None
  /\ IF artifact[u] # None /\ Referenced(h)
     THEN /\ artifact' = [artifact EXCEPT ![u] = None]
          /\ blob' = [blob EXCEPT ![h].refs = @ - 1]
     ELSE UNCHANGED <<artifact, blob>>
  /\ ReleaseBy(t)
  /\ Finish(t)
  /\ UNCHANGED <<ustate, chunkRow, fileVars, dbWriter, val, phase, envVars>>

-----------------------------------------------------------------------------
(* Garbage collection                                                      *)

NextBatch(t, S) ==
  /\ job' = [job EXCEPT ![t] = [NoJob EXCEPT !.batch = FirstN(S, BatchSize),
                                             !.todo = S \ FirstN(S, BatchSize)]]
  /\ Goto(t, "gcLock")

(* The candidates are read once, outside any lock.                         *)
GcScan(t) ==
  LET candidates == {h \in Hashes : blob[h] # None /\ blob[h].refs = 0} IN
  /\ Idle(t) /\ candidates # {}
  /\ NextBatch(t, candidates)
  /\ UNCHANGED <<dbVars, fileVars, dbWriter, lock, val, phase, envVars>>

(* All locks of the batch, in the order of the hashes.                     *)
GcLock(t) ==
  LET missing == {h \in job[t].batch : lock[h] # t} IN
  /\ pc[t] = "gcLock"
  /\ \E h \in Hashes :
       /\ Least(h, missing) /\ lock[h] = None
       /\ lock' = [lock EXCEPT ![h] = t]
  /\ UNCHANGED <<dbVars, fileVars, dbWriter, pc, job, val, phase, envVars>>

GcBegin(t) ==
  /\ pc[t] = "gcLock" /\ \A h \in job[t].batch : lock[h] = t
  /\ dbWriter = None
  /\ dbWriter' = t
  /\ Goto(t, "gcMove")
  /\ UNCHANGED <<dbVars, fileVars, lock, job, val, phase, envVars>>

(* Mutant: the candidate's count is not read again under its lock.         *)
GcMoveStale(t, h) ==
  /\ pc[t] = "gcMove" /\ Least(h, job[t].batch)
  /\ blobFile' = [blobFile EXCEPT ![h] = None]
  /\ trash' = IF blobFile[h] = None THEN trash ELSE trash \cup {h}
  /\ job' = [job EXCEPT ![t].batch = @ \ {h}, ![t].dead = @ \cup {h},
               ![t].moved = IF blobFile[h] = None THEN @ ELSE @ \cup {h}]
  /\ UNCHANGED <<dbVars, chunkFile, dbWriter, lock, pc, val, phase, envVars>>

(* One hash of the batch: the count is read again, the file moves to the   *)
(* trash and the row is deleted, so far only inside the transaction.       *)
GcMove(t, h) ==
  /\ pc[t] = "gcMove" /\ Least(h, job[t].batch)
  /\ IF blob[h] # None /\ blob[h].refs = 0
     THEN /\ blobFile' = [blobFile EXCEPT ![h] = None]
          /\ trash' = IF blobFile[h] = None THEN trash ELSE trash \cup {h}
          /\ job' = [job EXCEPT ![t].batch = @ \ {h}, ![t].dead = @ \cup {h},
                       ![t].moved = IF blobFile[h] = None THEN @ ELSE @ \cup {h}]
     ELSE /\ job' = [job EXCEPT ![t].batch = @ \ {h}]
          /\ UNCHANGED <<blobFile, trash>>
  /\ UNCHANGED <<dbVars, chunkFile, dbWriter, lock, pc, val, phase, envVars>>

GcCommit(t) ==
  /\ pc[t] = "gcMove" /\ job[t].batch = {}
  /\ blob' = [h \in Hashes |-> IF h \in job[t].dead THEN None ELSE blob[h]]
  /\ dbWriter' = None
  /\ Goto(t, "gcUnlink")
  /\ UNCHANGED <<ustate, chunkRow, artifact, fileVars, lock, job, val, phase, envVars>>

(* An error in the transaction: the rows stay, the moved files do not      *)
(* come back before the next start-up.                                     *)
GcError(t) ==
  /\ pc[t] = "gcMove"
  /\ dbWriter' = None
  /\ ReleaseBy(t)
  /\ Finish(t)
  /\ UNCHANGED <<dbVars, fileVars, val, phase, envVars>>

(* The trash entries go, the locks are released, and the next batch of the *)
(* same candidates starts.                                                 *)
GcUnlink(t) ==
  /\ pc[t] = "gcUnlink"
  /\ trash' = trash \ job[t].moved
  /\ ReleaseBy(t)
  /\ IF job[t].todo = {} THEN Finish(t) ELSE NextBatch(t, job[t].todo)
  /\ UNCHANGED <<dbVars, chunkFile, blobFile, dbWriter, val, phase, envVars>>

-----------------------------------------------------------------------------
(* Validation                                                              *)

(* One pass at a time; the rows are read once, outside any blob lock.      *)
ValidateStart(t) ==
  /\ Idle(t) /\ val.owner = None
  /\ val' = [owner |-> t, bad |-> {}, todo |-> {h \in Hashes : blob[h] # None},
             snap |-> [h \in Hashes |-> IF blob[h] = None THEN None ELSE blob[h].created]]
  /\ Goto(t, "valNext")
  /\ UNCHANGED <<dbVars, fileVars, dbWriter, lock, job, phase, envVars>>

ValidateOpen(t, h) ==
  /\ pc[t] = "valNext" /\ h \in val.todo /\ lock[h] = None
  /\ IF blobFile[h] = None
     THEN /\ val' = [val EXCEPT !.todo = @ \ {h}, !.bad = @ \cup {h}]
          /\ UNCHANGED <<pc, job>>
     ELSE /\ job' = [job EXCEPT ![t] = [NoJob EXCEPT !.h = h, !.file = blobFile[h]]]
          /\ Goto(t, "valRead")
          /\ UNCHANGED val
  /\ UNCHANGED <<dbVars, fileVars, dbWriter, lock, phase, envVars>>

(* Hash the open descriptor; a file replaced meanwhile counts as good.     *)
ValidateRead(t) ==
  LET h == job[t].h  f == job[t].file
      replaced == blobFile[h] # None /\ blobFile[h].ino # f.ino
      ok == replaced \/ Reads(h, f)
  IN
  /\ pc[t] = "valRead" /\ lock[h] = None
  /\ val' = [val EXCEPT !.todo = @ \ {h}, !.bad = IF ok THEN @ ELSE @ \cup {h}]
  /\ job' = [job EXCEPT ![t] = NoJob]
  /\ Goto(t, "valNext")
  /\ UNCHANGED <<dbVars, fileVars, dbWriter, lock, phase, envVars>>

(* Mutant: the verdict goes to whatever row the hash has now.              *)
VerdictAnyRow(h) ==
  IF blob[h] # None /\ val.snap[h] # None
  THEN [blob[h] EXCEPT !.validated = (h \notin val.bad)]
  ELSE blob[h]

(* A verdict is recorded only on the row it was formed about: created_at   *)
(* still the one of the snapshot.                                          *)
Verdict(h) ==
  IF blob[h] # None /\ blob[h].created = val.snap[h]
  THEN [blob[h] EXCEPT !.validated = (h \notin val.bad)]
  ELSE blob[h]

ValidateCommit(t) ==
  /\ pc[t] = "valNext" /\ val.todo = {} /\ dbWriter = None
  /\ blob' = [h \in Hashes |-> Verdict(h)]
  /\ val' = NoVal
  /\ Finish(t)
  /\ UNCHANGED <<ustate, chunkRow, artifact, fileVars, dbWriter, lock, phase, envVars>>

-----------------------------------------------------------------------------
(* SIGKILL and start-up recovery                                           *)

Crash ==
  /\ crashes < MaxCrashes
  /\ phase # "recoverDb"
  /\ crashes' = crashes + 1
  /\ phase' = "recoverDb"
  /\ pc' = [t \in Threads |-> "idle"]
  /\ job' = [t \in Threads |-> NoJob]
  /\ lock' = [h \in Hashes |-> None]
  /\ dbWriter' = None
  /\ val' = NoVal
  /\ UNCHANGED <<dbVars, fileVars, rotted>>

(* Mutant: recovery leaves interrupted finalizations as they are.          *)
RecoverDbCountsOnly ==
  /\ phase = "recoverDb"
  /\ blob' = [h \in Hashes |-> IF blob[h] = None THEN None
                               ELSE [blob[h] EXCEPT !.refs = Cardinality(Refs(h))]]
  /\ phase' = "recoverTrash"
  /\ UNCHANGED <<ustate, chunkRow, artifact, fileVars, dbWriter, lock, pc, job, val, envVars>>

RecoverDb ==
  /\ phase = "recoverDb"
  /\ ustate' = [u \in Uploads |-> IF artifact[u] # None THEN "finalized"
                                  ELSE IF ustate[u] = "finalizing" THEN "uploading"
                                  ELSE ustate[u]]
  /\ blob' = [h \in Hashes |-> IF blob[h] = None THEN None
                               ELSE [blob[h] EXCEPT !.refs = Cardinality(Refs(h))]]
  /\ phase' = "recoverTrash"
  /\ UNCHANGED <<chunkRow, artifact, fileVars, dbWriter, lock, pc, job, val, envVars>>

(* Each trash entry goes back if a reference needs it and no file took its *)
(* place; every other entry is removed.                                    *)
RecoverTrash ==
  LET wanted == {h \in trash : blob[h] # None /\ blob[h].refs > 0} IN
  /\ phase = "recoverTrash"
  /\ blobFile' = [h \in Hashes |-> IF h \in wanted /\ blobFile[h] = None
                                   THEN [good |-> h \notin rotted, ino |-> CHOOSE n \in Stamps : TRUE] ELSE blobFile[h]]
  /\ trash' = {}
  /\ phase' = "recoverChunks"
  /\ UNCHANGED <<dbVars, chunkFile, dbWriter, lock, pc, job, val, envVars>>

RecoverChunks ==
  /\ phase = "recoverChunks"
  /\ chunkFile' = [u \in Uploads |-> [i \in Chunks |->
                     IF chunkRow[u][i] = None \/ ustate[u] = "finalized"
                     THEN None ELSE chunkFile[u][i]]]
  /\ phase' = "recoverBlobs"
  /\ UNCHANGED <<dbVars, blobFile, trash, dbWriter, lock, pc, job, val, envVars>>

RecoverBlobs ==
  /\ phase = "recoverBlobs"
  /\ blobFile' = [h \in Hashes |-> IF blob[h] = None THEN None ELSE blobFile[h]]
  /\ phase' = "up"
  /\ UNCHANGED <<dbVars, chunkFile, trash, dbWriter, lock, pc, job, val, envVars>>

Recover == RecoverDb \/ RecoverTrash \/ RecoverChunks \/ RecoverBlobs

(* External: a blob's bytes go bad on disk.                                *)
BitRot(h) ==
  /\ Cardinality(rotted) < MaxRots
  /\ h \notin rotted /\ blobFile[h] # None
  /\ blobFile' = [blobFile EXCEPT ![h].good = FALSE]
  /\ rotted' = rotted \cup {h}
  /\ UNCHANGED <<dbVars, chunkFile, trash, memVars, crashes>>

-----------------------------------------------------------------------------
(* What a client or the admin may ask of an idle thread.                   *)
Request(t) ==
  \/ \E u \in Uploads : CreateUpload(t, u) \/ GetRow(t, u) \/ DeleteRow(t, u)
  \/ \E u \in Uploads, i \in Chunks, d \in Data : PutCheck(t, u, i, d)
  \/ \E u \in Uploads, h \in Hashes : Freeze(t, u, h)
  \/ GcScan(t)
  \/ ValidateStart(t)

(* The next step of a request under way.                                   *)
Step(t) ==
  \/ PutRefused(t) \/ PutRename(t) \/ PutCommit(t)
  \/ Assemble(t) \/ LockBlob(t) \/ Place(t) \/ Commit(t) \/ CleanupChunks(t)
  \/ Unfreeze(t)
  \/ GetOpen(t) \/ GetVerify(t)
  \/ DeleteLock(t) \/ DeleteTx(t)
  \/ GcLock(t) \/ GcBegin(t) \/ GcCommit(t) \/ GcUnlink(t)
  \/ \E h \in Hashes : GcMove(t, h)
  \/ \E h \in Hashes : ValidateOpen(t, h)
  \/ ValidateRead(t) \/ ValidateCommit(t)

Error(t) == PutError(t) \/ FinalizeError(t) \/ Abandon(t) \/ GcError(t)

Next ==
  \/ \E t \in Threads : Request(t) \/ Step(t) \/ Error(t)
  \/ Crash
  \/ Recover
  \/ \E h \in Hashes : BitRot(h)

Spec == Init /\ [][Next]_vars

(* A request under way is scheduled, and one that finds a lock or the      *)
(* database writer free again and again gets it in the end (threading      *)
(* locks; SQLite's 30 s busy handler).  Recovery runs before the server.   *)
FairSpec ==
  /\ Spec
  /\ WF_vars(Recover)
  /\ \A t \in Threads : SF_vars(Step(t))

-----------------------------------------------------------------------------
(* Correctness                                                             *)

Labels == {"idle", "putTx", "putCommit", "assemble", "lockBlob", "place", "commit",
           "cleanup", "unfreeze", "getOpen", "getVerify", "deleteLock", "deleteTx",
           "gcLock", "gcMove", "gcUnlink", "valNext", "valRead"}

Jobs == [u : Uploads \cup {None}, i : Chunks \cup {None}, d : Data \cup {None},
         h : Hashes \cup {None}, file : File \cup {None},
         todo : SUBSET Hashes, batch : SUBSET Hashes,
         dead : SUBSET Hashes, moved : SUBSET Hashes]

Phases == {"up", "recoverDb", "recoverTrash", "recoverChunks", "recoverBlobs"}

(* Every variable has its type; in particular no refcount, whose column    *)
(* is CHECK(refcount >= 0), ever goes below zero.                          *)
TypeOK ==
  /\ ustate \in [Uploads -> States \cup {None}]
  /\ chunkRow \in [Uploads -> [Chunks -> Data \cup {None}]]
  /\ artifact \in [Uploads -> Hashes \cup {None}]
  /\ blob \in [Hashes -> Row \cup {None}]
  /\ dbWriter \in Threads \cup {None}
  /\ chunkFile \in [Uploads -> [Chunks -> Data \cup {None}]]
  /\ blobFile \in [Hashes -> File \cup {None}]
  /\ trash \subseteq Hashes
  /\ lock \in [Hashes -> Threads \cup {None}]
  /\ pc \in [Threads -> Labels]
  /\ job \in [Threads -> Jobs]
  /\ val \in [owner : Threads \cup {None}, snap : [Hashes -> Nat \cup {None}],
              todo : SUBSET Hashes, bad : SUBSET Hashes]
  /\ phase \in Phases
  /\ crashes \in Nat
  /\ rotted \subseteq Hashes

(* A live artifact has its blob row and its bytes on disk, whatever gc,    *)
(* deletes, failed finalizes and crashes did: open_verified_artifact never *)
(* answers "artifact bytes unavailable".                                   *)
ArtifactReadable ==
  \A u \in Uploads : artifact[u] # None =>
    /\ blob[artifact[u]] # None
    /\ blobFile[artifact[u]] # None
    /\ blobFile[artifact[u]].good \/ artifact[u] \in rotted

(* A blob's refcount is the number of artifact rows that name its hash.    *)
RefcountExact ==
  \A h \in Hashes :
    IF blob[h] = None THEN Refs(h) = {} ELSE blob[h].refs = Cardinality(Refs(h))

(* Until the upload is finalized the file of a recorded chunk holds the    *)
(* bytes whose checksum was recorded, across conflicting replays, failed   *)
(* finalizes and recovery sweeps.                                          *)
ChunkBytesKept ==
  \A u \in Uploads, i \in Chunks :
    chunkRow[u][i] # None /\ ustate[u] # "finalized" => chunkFile[u][i] = chunkRow[u][i]

(* An artifact is the digest of exactly the chunks recorded for its        *)
(* upload: nothing was finalized from a file some other request wrote.     *)
ArtifactIsItsChunks ==
  \A u \in Uploads : artifact[u] # None =>
    chunkRow[u] \in Contents /\ artifact[u] = Digest[chunkRow[u]]

(* A referenced blob whose file never rotted is never flagged invalid: a   *)
(* verdict validate formed about a file gc removed or finalize replaced    *)
(* meanwhile is not recorded on the new row.                               *)
NoFalseAlarm ==
  \A h \in Hashes :
    blob[h] # None /\ blob[h].refs > 0 /\ ~blob[h].validated => h \in rotted

(* Each chunk file has a row of an upload that may still need it.          *)
ChunksTidy ==
  \A u \in Uploads, i \in Chunks :
    chunkFile[u][i] # None => chunkRow[u][i] # None /\ ustate[u] # "finalized"

(* The inductive invariant: what each thread may rely on where it is.      *)

Finalizing == {"assemble", "lockBlob", "place", "commit", "unfreeze"}
Verified   == {"lockBlob", "place", "commit"}

(* The local variables a step reads have been set.                         *)
JobSet(t) ==
  /\ pc[t] \in {"putTx", "putCommit"} =>
       job[t].u \in Uploads /\ job[t].i \in Chunks /\ job[t].d \in Data
  /\ pc[t] \in Finalizing \cup {"cleanup", "getOpen", "deleteLock", "deleteTx"} =>
       job[t].u \in Uploads /\ job[t].h \in Hashes
  /\ pc[t] \in {"getVerify", "valRead"} => job[t].h \in Hashes /\ job[t].file \in File

(* A split transaction has the database to itself, and what it read when   *)
(* it began still holds.                                                   *)
InTransaction(t) ==
  /\ pc[t] \in {"putCommit", "gcMove"} => dbWriter = t
  /\ pc[t] = "putCommit" =>
       /\ chunkRow[job[t].u][job[t].i] = None
       /\ ustate[job[t].u] = "uploading"
       /\ chunkFile[job[t].u][job[t].i] = job[t].d
  /\ pc[t] = "gcLock" => job[t].dead = {}
  /\ pc[t] = "gcMove" => \A h \in job[t].dead : blob[h] # None /\ blob[h].refs = 0

(* A finalizing thread owns its upload, whose chunks are complete and, once *)
(* verified, hash to the declared digest.                                  *)
OwnsUpload(t) ==
  /\ pc[t] \in Finalizing =>
       /\ ustate[job[t].u] = "finalizing"
       /\ Received(job[t].u)
       /\ \A s \in Threads \ {t} : pc[s] \in Finalizing => job[s].u # job[t].u
  /\ pc[t] \in Verified => Digest[chunkRow[job[t].u]] = job[t].h
  /\ pc[t] = "cleanup" => ustate[job[t].u] = "finalized"

(* The blob lock of a hash stands between placing its file and committing  *)
(* its row on one side, and moving it to the trash on the other.           *)
HoldsLocks(t) ==
  /\ pc[t] \in {"place", "commit"} => lock[job[t].h] = t
  /\ pc[t] = "commit" => blobFile[job[t].h] # None
  /\ pc[t] = "gcMove" => \A h \in job[t].batch : lock[h] = t

(* The row a delete looked up is gone or still names the same hash.        *)
DeletesItsHash(t) ==
  pc[t] \in {"deleteLock", "deleteTx"} =>
    ustate[job[t].u] = "finalized" /\ artifact[job[t].u] \in {None, job[t].h}

ThreadInv(t) ==
  JobSet(t) /\ InTransaction(t) /\ OwnsUpload(t) /\ HoldsLocks(t) /\ DeletesItsHash(t)

(* Recovery runs alone, and what a step of it established stays.           *)
QuietRecovery ==
  /\ phase # "up" => \A t \in Threads : pc[t] = "idle"
  /\ phase \notin {"up", "recoverDb"} => \A u \in Uploads : ustate[u] # "finalizing"
  /\ phase \in {"recoverChunks", "recoverBlobs"} => trash = {}
  /\ phase = "recoverBlobs" => ChunksTidy

ArtifactFinalized == \A u \in Uploads : artifact[u] # None => ustate[u] = "finalized"

(* A referenced blob has its file, and a file is damaged only by rot.      *)
FileKept ==
  \A h \in Hashes :
    /\ blob[h] # None /\ blob[h].refs > 0 => blobFile[h] # None
    /\ blobFile[h] # None => blobFile[h].good \/ h \in rotted

(* A reader whose bytes do not verify has seen bytes that rotted: its       *)
(* descriptor was whole when it opened it, or rot had been there before.   *)
ReadsReal ==
  \A t \in Threads :
    pc[t] \in {"getVerify", "valRead"} => job[t].file.good \/ job[t].h \in rotted

(* What a validation pass holds against bytes that never rotted counts     *)
(* only for a row nothing refers to: a row committed since the snapshot    *)
(* has another created_at.                                                 *)
VerdictsReal ==
  \A h \in val.bad \ rotted :
    blob[h] # None /\ blob[h].created = val.snap[h] => blob[h].refs = 0

Inv ==
  /\ TypeOK
  /\ \A t \in Threads : ThreadInv(t)
  /\ QuietRecovery
  /\ ArtifactFinalized
  /\ ArtifactIsItsChunks
  /\ ChunkBytesKept
  /\ RefcountExact
  /\ FileKept
  /\ ReadsReal
  /\ VerdictsReal
  /\ NoFalseAlarm

(* Recovery ends with nothing left behind: each blob file has a row, each  *)
(* chunk file a row of an upload that may still need it, no trash, and no  *)
(* upload that only a request of the dead process could release.           *)
Tidy ==
  /\ trash = {}
  /\ ChunksTidy
  /\ \A h \in Hashes : blobFile[h] # None => blob[h] # None
  /\ \A u \in Uploads : ustate[u] # "finalizing"

StartsTidy == [][phase # "up" /\ phase' = "up" => Tidy']_vars

(* While an upload is being finalized its chunk files do not change under  *)
(* the thread that assembles them.                                         *)
FrozenChunks ==
  [][\A u \in Uploads :
       ustate[u] = "finalizing" /\ ustate'[u] = "finalizing" =>
         chunkFile'[u] = chunkFile[u]]_vars

(* Every request ends: no thread waits for ever for a blob lock or for the *)
(* database behind a failed finalize, a delete, a gc or a validation.      *)
RequestsEnd == \A t \in Threads : pc[t] # "idle" ~> pc[t] = "idle"

(* The contract: uploads, chunks and artifacts as a client sees them.      *)
Contract == INSTANCE VaultContract WITH
  status <- [u \in Uploads |->
               IF ustate[u] = None THEN "absent"
               ELSE IF artifact[u] # None THEN "live"
               ELSE IF ustate[u] = "finalized" THEN "gone" ELSE "open"],
  received <- chunkRow,
  stored <- {h \in Hashes : blobFile[h] # None}

(* Every step is a step of the contract or invisible to it: at most one    *)
(* artifact per upload, made of the first bytes recorded for each chunk,   *)
(* and no bytes dropped while an artifact needs them.                      *)
ImplementsContract == Contract!Spec
=============================================================================

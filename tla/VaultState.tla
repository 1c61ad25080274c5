------------------------------ MODULE VaultState ------------------------------
(***************************************************************************)
(* What the four other Python VaultDrop stores have in common: request     *)
(* threads that share SQLite tables, chunk files and content-addressed     *)
(* blob files, and are killed together.  The modules OpusVault,            *)
(* QwenVaultA, QwenVaultB and QwenVaultC extend this one with the actions  *)
(* of one implementation each; what makes a store correct is stated here,  *)
(* once for all of them.                                                   *)
(*                                                                         *)
(* A committed transaction is one step; so is a rename, link or unlink.    *)
(* Temporary files have unique names and belong to one request.  Locks     *)
(* are released by `finally' or `with', so a lock is held exactly while    *)
(* its owner is at certain labels and needs no variable.  Bit rot is not   *)
(* part of these models: a blob file holds the bytes of its name.          *)
(***************************************************************************)
EXTENDS Integers, FiniteSets

CONSTANTS
  Uploads,     \* upload ids
  Chunks,      \* chunk indices of an upload
  Data,        \* the possible contents of a chunk
  Digest,      \* SHA-256 of an assembled upload
  Threads,     \* request threads
  None,        \* no value: NULL, no row, no file
  MaxCrashes   \* bound: SIGKILLs in a behaviour

Contents == [Chunks -> Data]
Hashes   == {Digest[c] : c \in Contents}

ASSUME UploadsAssumption == IsFiniteSet(Uploads)
ASSUME NoneAssumption ==
  None \notin Uploads \cup Chunks \cup Data \cup Hashes \cup Threads
ASSUME DigestAssumption ==
  /\ DOMAIN Digest = Contents
  /\ \A c1, c2 \in Contents : Digest[c1] = Digest[c2] => c1 = c2
ASSUME CrashesAssumption == MaxCrashes \in Nat

VARIABLES
  ustate,     \* uploads.state, or None: no row
  chunkRow,   \* the recorded checksum of (upload, index), or None
  chunkFile,  \* the bytes in the chunk's file, or None
  artifact,   \* the hash of the upload's artifact row, or None
  blob,       \* the blobs row of a hash, a record with its refs, or None
  files,      \* the hashes with a file under blobs/
  pc, job,    \* where each request thread is, and its local variables
  crashes     \* SIGKILLs so far

rowVars == <<artifact, blob>>
upVars  == <<ustate, chunkRow, chunkFile>>

NoJob == [u |-> None, i |-> None, d |-> None, h |-> None, todo |-> {}, flag |-> None]

Idle(t)        == pc[t] = "idle"
Goto(t, l)     == pc' = [pc EXCEPT ![t] = l] /\ UNCHANGED job
Begin(t, l, j) == pc' = [pc EXCEPT ![t] = l] /\ job' = [job EXCEPT ![t] = j]
Finish(t)      == Begin(t, "idle", NoJob)

InitState ==
  /\ ustate = [u \in Uploads |-> None]
  /\ chunkRow = [u \in Uploads |-> [i \in Chunks |-> None]]
  /\ chunkFile = [u \in Uploads |-> [i \in Chunks |-> None]]
  /\ artifact = [u \in Uploads |-> None]
  /\ blob = [h \in Hashes |-> None]
  /\ files = {}
  /\ pc = [t \in Threads |-> "idle"]
  /\ job = [t \in Threads |-> NoJob]
  /\ crashes = 0

(* SIGKILL: every request ends where it is; each store adds what its       *)
(* start-up does.  Start-up runs alone and only repairs or removes what no *)
(* request can see, so being killed within it and starting again amounts   *)
(* to one longer start-up.                                                 *)
Killed ==
  /\ crashes < MaxCrashes
  /\ crashes' = crashes + 1
  /\ pc' = [t \in Threads |-> "idle"]
  /\ job' = [t \in Threads |-> NoJob]

Received(u)     == \A i \in Chunks : chunkRow[u][i] # None
Assembled(u, h) == /\ \A i \in Chunks : chunkFile[u][i] # None
                   /\ Digest[chunkFile[u]] = h
Refs(h)         == {u \in Uploads : artifact[u] = h}
SetRow(h, r)    == blob' = [blob EXCEPT ![h] = r]

-----------------------------------------------------------------------------
(* Correctness                                                             *)

Jobs(F) == [u : Uploads \cup {None}, i : Chunks \cup {None}, d : Data \cup {None},
            h : Hashes \cup {None}, todo : SUBSET Hashes, flag : F \cup {None}]

(* Types: a store names its upload states, blob rows, labels and flags.    *)
StateTypeOK(States, Rows, Labels, F) ==
  /\ ustate \in [Uploads -> States \cup {None}]
  /\ chunkRow \in [Uploads -> [Chunks -> Data \cup {None}]]
  /\ chunkFile \in [Uploads -> [Chunks -> Data \cup {None}]]
  /\ artifact \in [Uploads -> Hashes \cup {None}]
  /\ blob \in [Hashes -> Rows \cup {None}]
  /\ files \subseteq Hashes
  /\ pc \in [Threads -> Labels]
  /\ job \in [Threads -> Jobs(F)]
  /\ crashes \in 0..MaxCrashes

(* A live artifact has its blob row and its bytes on disk, whatever gc,    *)
(* deletes, failed finalizes and crashes did (product.md, promises 3 to 6).*)
ArtifactReadable ==
  \A u \in Uploads : artifact[u] # None =>
    blob[artifact[u]] # None /\ artifact[u] \in files

(* A blob's refcount is the number of artifact rows that name its hash:    *)
(* concurrent finalizes, deletes and gc passes lose and repeat no update.  *)
RefcountExact ==
  \A h \in Hashes :
    IF blob[h] = None THEN Refs(h) = {} ELSE blob[h].refs = Cardinality(Refs(h))

(* An artifact is the digest of exactly the bytes first accepted for each  *)
(* chunk of its upload, whichever PUTs and finalizes overlapped.           *)
ArtifactIsItsChunks ==
  \A u \in Uploads : artifact[u] # None =>
    Received(u) /\ artifact[u] = Digest[chunkRow[u]]

(* What a client sees of a store whose uploads are published once.         *)
Contract == INSTANCE VaultContract WITH
  status <- [u \in Uploads |->
               IF ustate[u] = None THEN "absent"
               ELSE IF artifact[u] # None THEN "live"
               ELSE IF ustate[u] = "finalized" THEN "gone" ELSE "open"],
  received <- chunkRow,
  stored <- files

(* Every step is a step of the contract or invisible to it.                *)
ImplementsContract == Contract!Spec
=============================================================================

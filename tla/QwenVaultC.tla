------------------------------ MODULE QwenVaultC ------------------------------
(***************************************************************************)
(* vaultdrop/qwen-v3: uploads.py, blobs.py and db.py.  No lock but         *)
(* SQLite's: finalize owns an upload through its `finalizing' state; gc    *)
(* marks rows `collecting', which freezes them, unlinks their files and    *)
(* deletes them in three steps; a finalize that finds the file of a hash   *)
(* without a row waits a settle window for the row, then replaces the file.*)
(***************************************************************************)
EXTENDS VaultState

States == {"open", "finalizing", "finalized"}
Row    == [refs : Int, state : {"active", "collecting"}, validated : {0, 1}]

ASSUME RowAssumption ==
  None \notin Row /\ None \notin States \cup {"active", "collecting"}

VARIABLES
  marked,  \* marked[t]: the rows with the gc_pass_id of the pass t is making
  raced    \* history: two requests deleted one artifact, or a finalize
           \* replaced a file that was no residue

vars == <<upVars, rowVars, files, pc, job, crashes, marked, raced>>

RowState(h) == IF blob[h] = None THEN None ELSE blob[h].state

Init == InitState /\ marked = [t \in Threads |-> {}] /\ raced = FALSE

CreateUpload(u) ==
  /\ ustate[u] = None
  /\ ustate' = [ustate EXCEPT ![u] = "open"]
  /\ UNCHANGED <<chunkRow, chunkFile, rowVars, files, pc, job, crashes, marked, raced>>

(* store_chunk refuses finalized uploads only.                             *)
PutCheck(t, u, i, d) ==
  /\ Idle(t) /\ ustate[u] \in {"open", "finalizing"}
  /\ Begin(t, "putInsert", [NoJob EXCEPT !.u = u, !.i = i, !.d = d])
  /\ UNCHANGED <<upVars, rowVars, files, crashes, marked, raced>>

(* Mutant: the stored checksum is not compared with the body's.            *)
PutUncompared(t) ==
  LET u == job[t].u  i == job[t].i  d == job[t].d IN
  /\ pc[t] = "putInsert"
  /\ chunkRow' = [chunkRow EXCEPT ![u][i] = IF @ = None THEN d ELSE @]
  /\ Goto(t, "putLink")
  /\ UNCHANGED <<ustate, chunkFile, rowVars, files, crashes, marked, raced>>

(* INSERT OR IGNORE, and the checksum that is there after it: 409 on       *)
(* another one.  The row comes before the file.                            *)
PutInsert(t) ==
  LET u == job[t].u  i == job[t].i  d == job[t].d IN
  /\ pc[t] = "putInsert"
  /\ chunkRow' = [chunkRow EXCEPT ![u][i] = IF @ = None THEN d ELSE @]
  /\ IF chunkRow'[u][i] = d THEN Goto(t, "putLink") ELSE Finish(t)
  /\ UNCHANGED <<ustate, chunkFile, rowVars, files, crashes, marked, raced>>

(* os.link never replaces a file; one that raises leaves the row alone.    *)
PutLink(t) ==
  /\ pc[t] = "putLink"
  /\ \/ chunkFile' = [chunkFile EXCEPT ![job[t].u][job[t].i] = IF @ = None THEN job[t].d ELSE @]
     \/ UNCHANGED chunkFile
  /\ Finish(t)
  /\ UNCHANGED <<ustate, chunkRow, rowVars, files, crashes, marked, raced>>

-----------------------------------------------------------------------------
(* UPDATE ... WHERE state='open'; a loser polls and changes nothing.       *)
FinalizeBegin(t, u) ==
  /\ Idle(t) /\ ustate[u] = "open"
  /\ ustate' = [ustate EXCEPT ![u] = "finalizing"]
  /\ Begin(t, "assemble", [NoJob EXCEPT !.u = u])
  /\ UNCHANGED <<chunkRow, chunkFile, rowVars, files, crashes, marked, raced>>

(* A chunk is missing, or the digest is not the declared one: 422.         *)
Assemble(t) ==
  /\ pc[t] = "assemble"
  /\ \/ \E h \in Hashes : Assembled(job[t].u, h) /\ Begin(t, "decide", [job[t] EXCEPT !.h = h])
     \/ Goto(t, "rollback")
  /\ UNCHANGED <<upVars, rowVars, files, crashes, marked, raced>>

(* decide_ingest_mode; flag is 0 to add a reference to a row, 1 to add a   *)
(* row.                                                                    *)
Decide(t) ==
  LET s == RowState(job[t].h) IN
  /\ pc[t] = "decide"
  /\ IF s = "active" THEN Begin(t, "commit", [job[t] EXCEPT !.flag = 0])
     ELSE Goto(t, IF s = None THEN "link" ELSE "waitGc")
  /\ UNCHANGED <<upVars, rowVars, files, crashes, marked, raced>>

(* Polled until the row is gone, or FinalizeBlocked.                       *)
WaitForGc(t) ==
  /\ pc[t] = "waitGc"
  /\ \/ RowState(job[t].h) = None /\ Goto(t, "link")
     \/ Goto(t, "rollback")
  /\ UNCHANGED <<upVars, rowVars, files, crashes, marked, raced>>

Link(t) ==
  /\ pc[t] = "link"
  /\ files' = files \cup {job[t].h}
  /\ IF job[t].h \in files THEN Goto(t, "settle")
     ELSE Begin(t, "commit", [job[t] EXCEPT !.flag = 1])
  /\ UNCHANGED <<upVars, rowVars, crashes, marked, raced>>

(* Polled until the row is active, or is still missing at the deadline.    *)
Settle(t) ==
  /\ pc[t] = "settle"
  /\ \/ RowState(job[t].h) = "active" /\ Begin(t, "commit", [job[t] EXCEPT !.flag = 0])
     \/ RowState(job[t].h) = None /\ Goto(t, "unlink")
  /\ UNCHANGED <<upVars, rowVars, files, crashes, marked, raced>>

(* Whether the file that is unlinked has a row, or a finalize about to add *)
(* one, decides if it was residue.                                         *)
ReplaceUnlink(t) ==
  LET h == job[t].h IN
  /\ pc[t] = "unlink"
  /\ files' = files \ {h}
  /\ raced' = (raced \/ blob[h] # None
               \/ \E s \in Threads : pc[s] = "commit" /\ job[s].h = h /\ job[s].flag = 1)
  /\ Goto(t, "relink")
  /\ UNCHANGED <<upVars, rowVars, crashes, marked>>

(* Here FileExistsError is an error.                                       *)
ReplaceLink(t) ==
  /\ pc[t] = "relink"
  /\ files' = files \cup {job[t].h}
  /\ IF job[t].h \in files THEN Goto(t, "rollback")
     ELSE Begin(t, "commit", [job[t] EXCEPT !.flag = 1])
  /\ UNCHANGED <<upVars, rowVars, crashes, marked, raced>>

Publish(t, row) ==
  /\ SetRow(job[t].h, row)
  /\ artifact' = [artifact EXCEPT ![job[t].u] = job[t].h]
  /\ ustate' = [ustate EXCEPT ![job[t].u] = "finalized"]
  /\ Finish(t)
  /\ UNCHANGED <<chunkRow, chunkFile, files, crashes, marked, raced>>

(* Mutant: the increment does not test the row's state.                    *)
CommitIntoCollecting(t) ==
  LET h == job[t].h IN
  /\ pc[t] = "commit"
  /\ IF job[t].flag = 1 /\ blob[h] = None
     THEN Publish(t, [refs |-> 1, state |-> "active", validated |-> 1])
     ELSE IF job[t].flag = 0 /\ blob[h] # None
     THEN Publish(t, [blob[h] EXCEPT !.refs = @ + 1])
     ELSE /\ Goto(t, IF job[t].flag = 1 THEN "rollback" ELSE "decide")
          /\ UNCHANGED <<upVars, rowVars, files, crashes, marked, raced>>

(* commit_finalization.  A row that exists already is an error; a lost     *)
(* increment decides again.                                                *)
Commit(t) ==
  LET h == job[t].h IN
  /\ pc[t] = "commit"
  /\ IF job[t].flag = 1 /\ blob[h] = None
     THEN Publish(t, [refs |-> 1, state |-> "active", validated |-> 1])
     ELSE IF job[t].flag = 0 /\ RowState(h) = "active"
     THEN Publish(t, [blob[h] EXCEPT !.refs = @ + 1])
     ELSE /\ Goto(t, IF job[t].flag = 1 THEN "rollback" ELSE "decide")
          /\ UNCHANGED <<upVars, rowVars, files, crashes, marked, raced>>

(* Any other exception; a file that was linked stays.                      *)
FinalizeError(t) ==
  /\ pc[t] \in {"assemble", "decide", "waitGc", "link", "settle", "unlink", "relink", "commit"}
  /\ Goto(t, "rollback")
  /\ UNCHANGED <<upVars, rowVars, files, crashes, marked, raced>>

(* _rollback_finalizing, unless it raises in its turn: the upload is left  *)
(* in `finalizing' until the next start.                                   *)
Rollback(t) ==
  /\ pc[t] = "rollback"
  /\ \/ ustate' = [ustate EXCEPT ![job[t].u] = "open"]
     \/ UNCHANGED ustate
  /\ Finish(t)
  /\ UNCHANGED <<chunkRow, chunkFile, rowVars, files, crashes, marked, raced>>

-----------------------------------------------------------------------------
(* The artifact's row is read before the transaction.                      *)
DeleteRead(t, u) ==
  /\ Idle(t) /\ artifact[u] # None
  /\ Begin(t, "delete", [NoJob EXCEPT !.u = u, !.h = artifact[u]])
  /\ UNCHANGED <<upVars, rowVars, files, crashes, marked, raced>>

(* Mutant: the reference is not given back.                                *)
DeleteForgets(t) ==
  LET u == job[t].u  h == job[t].h IN
  /\ pc[t] = "delete"
  /\ artifact' = [artifact EXCEPT ![u] = None]
  /\ raced' = (raced \/ artifact[u] = None)
  /\ Finish(t)
  /\ UNCHANGED <<upVars, blob, files, crashes, marked>>

(* Neither statement's rowcount is looked at: whoever comes second takes   *)
(* another reference, if there is one.                                     *)
Delete(t) ==
  LET u == job[t].u  h == job[t].h IN
  /\ pc[t] = "delete"
  /\ artifact' = [artifact EXCEPT ![u] = None]
  /\ SetRow(h, IF blob[h] = None THEN None
               ELSE [blob[h] EXCEPT !.refs = IF @ > 0 THEN @ - 1 ELSE @])
  /\ raced' = (raced \/ artifact[u] = None)
  /\ Finish(t)
  /\ UNCHANGED <<upVars, files, crashes, marked>>

(* Phase 1: active rows without references belong to this pass.            *)
GcMark(t) ==
  LET dead == {h \in Hashes : RowState(h) = "active" /\ blob[h].refs = 0} IN
  /\ Idle(t)
  /\ blob' = [h \in Hashes |-> IF h \in dead THEN [blob[h] EXCEPT !.state = "collecting"] ELSE blob[h]]
  /\ marked' = [marked EXCEPT ![t] = dead]
  /\ Begin(t, "gcUnlink", [NoJob EXCEPT !.todo = dead])
  /\ UNCHANGED <<upVars, artifact, files, crashes, raced>>

(* Phase 2: their files, one by one, with no lock held.                    *)
GcUnlink(t, h) ==
  /\ pc[t] = "gcUnlink" /\ h \in job[t].todo
  /\ files' = files \ {h}
  /\ Begin(t, "gcUnlink", [job[t] EXCEPT !.todo = @ \ {h}])
  /\ UNCHANGED <<upVars, rowVars, crashes, marked, raced>>

(* Phase 3: one statement deletes the rows, or none of them where an       *)
(* artifact still refers to one (a foreign key).                           *)
GcDelete(t) ==
  LET dead == {h \in marked[t] : RowState(h) = "collecting" /\ blob[h].refs = 0} IN
  /\ pc[t] = "gcUnlink" /\ job[t].todo = {}
  /\ blob' = IF \E h \in dead : Refs(h) # {} THEN blob
             ELSE [h \in Hashes |-> IF h \in dead THEN None ELSE blob[h]]
  /\ marked' = [marked EXCEPT ![t] = {}]
  /\ Finish(t)
  /\ UNCHANGED <<upVars, artifact, files, crashes, raced>>

(* An exception leaves the rows collecting until the next start.           *)
GcError(t) ==
  /\ pc[t] = "gcUnlink"
  /\ marked' = [marked EXCEPT ![t] = {}]
  /\ Finish(t)
  /\ UNCHANGED <<upVars, rowVars, files, crashes, raced>>

ValidateScan(t) ==
  /\ Idle(t)
  /\ Begin(t, "valRead", [NoJob EXCEPT !.todo = {h \in Hashes : RowState(h) = "active"}])
  /\ UNCHANGED <<upVars, rowVars, files, crashes, marked, raced>>

(* A verdict is not written where the scanned row had it already.          *)
ValidateRead(t, h) ==
  LET rest == [job[t] EXCEPT !.todo = @ \ {h}] IN
  /\ pc[t] = "valRead" /\ h \in job[t].todo
  /\ \/ Begin(t, "valSet", [rest EXCEPT !.h = h, !.flag = IF h \in files THEN 1 ELSE 0])
     \/ Begin(t, "valRead", rest)
  /\ UNCHANGED <<upVars, rowVars, files, crashes, marked, raced>>

(* It goes to whatever row the hash has now.                               *)
ValidateSet(t) ==
  LET h == job[t].h IN
  /\ pc[t] = "valSet"
  /\ SetRow(h, IF blob[h] = None THEN None ELSE [blob[h] EXCEPT !.validated = job[t].flag])
  /\ Goto(t, "valRead")
  /\ UNCHANGED <<upVars, artifact, files, crashes, marked, raced>>

(* The pass is over, or an exception ends it.                              *)
ValidateEnd(t) ==
  /\ pc[t] \in {"valRead", "valSet"}
  /\ Finish(t)
  /\ UNCHANGED <<upVars, rowVars, files, crashes, marked, raced>>

(* db.recover: a collecting row goes back or goes away with its file, then *)
(* the files without a row go.  The foreign key makes it raise, and the    *)
(* server stays down, where an artifact refers to a row that should go.    *)
Restart ==
  LET lost == {h \in Hashes : RowState(h) = "collecting" /\ h \notin files} IN
  /\ Killed
  /\ \A h \in lost : Refs(h) = {}
  /\ ustate' = [u \in Uploads |-> IF ustate[u] = "finalizing" THEN "open" ELSE ustate[u]]
  /\ blob' = [h \in Hashes |-> IF h \in lost THEN None
                               ELSE IF blob[h] = None THEN None ELSE [blob[h] EXCEPT !.state = "active"]]
  /\ files' = {h \in files : blob[h] # None}
  /\ chunkFile' = [u \in Uploads |-> [i \in Chunks |->
                     IF chunkRow[u][i] = None THEN None ELSE chunkFile[u][i]]]
  /\ marked' = [t \in Threads |-> {}]
  /\ UNCHANGED <<chunkRow, artifact, raced>>

-----------------------------------------------------------------------------
Request(t) ==
  \/ \E u \in Uploads, i \in Chunks, d \in Data : PutCheck(t, u, i, d)
  \/ \E u \in Uploads : FinalizeBegin(t, u) \/ DeleteRead(t, u)
  \/ GcMark(t) \/ ValidateScan(t)

Step(t) ==
  \/ PutInsert(t) \/ PutLink(t)
  \/ Assemble(t) \/ Decide(t) \/ WaitForGc(t) \/ Link(t) \/ Settle(t)
  \/ ReplaceUnlink(t) \/ ReplaceLink(t) \/ Commit(t) \/ FinalizeError(t) \/ Rollback(t)
  \/ Delete(t) \/ GcDelete(t) \/ GcError(t) \/ ValidateSet(t) \/ ValidateEnd(t)
  \/ \E h \in Hashes : GcUnlink(t, h) \/ ValidateRead(t, h)

Next ==
  \/ \E u \in Uploads : CreateUpload(u)
  \/ \E t \in Threads : Request(t) \/ Step(t)
  \/ Restart

Spec == Init /\ [][Next]_vars

-----------------------------------------------------------------------------
Labels == {"idle", "putInsert", "putLink", "assemble", "decide", "waitGc", "link", "settle",
           "unlink", "relink", "commit", "rollback", "delete", "gcUnlink", "valRead", "valSet"}

TypeOK ==
  /\ StateTypeOK(States, Row, Labels, {0, 1})
  /\ marked \in [Threads -> SUBSET Hashes]
  /\ raced \in BOOLEAN

(* Whatever happens, no reference is left behind that nobody holds, which  *)
(* would keep the bytes from ever being collected, and none lands on a row *)
(* that is being collected (blobs.py:8-10).                                *)
NoReferenceLeaks ==
  /\ TypeOK
  /\ \A h \in Hashes : blob[h] # None => blob[h].refs \in 0..Cardinality(Refs(h))
  /\ \A h \in Hashes : RowState(h) = "collecting" => blob[h].refs = 0

(* The reference wins (DECISIONS.md, claim 7), except for the two requests *)
(* that delete one artifact and the finalize that outlasts the settle      *)
(* window: these are the only ways to lose the bytes of a live artifact.   *)
ReferenceWins == raced \/ (ArtifactReadable /\ RefcountExact)

(* No other step breaks the contract first: until one of the two has       *)
(* happened each upload is published once, complete and with its bytes     *)
(* held, and only bytes that no live artifact needs are removed.           *)
ImplementsUntilRaced ==
  Contract!Init /\ [][raced' \/ Contract!Next]_(Contract!vars)

-----------------------------------------------------------------------------
(* Why: what each thread relies on, and what holds until the first race.   *)
Hashed == {"decide", "waitGc", "link", "settle", "unlink", "relink", "commit"}
Owning == Hashed \cup {"assemble", "rollback"}

(* The local variables a step reads have been set.                         *)
JobSet(t) ==
  /\ pc[t] \in {"putInsert", "putLink"} =>
       job[t].u \in Uploads /\ job[t].i \in Chunks /\ job[t].d \in Data
  /\ pc[t] = "putLink" => chunkRow[job[t].u][job[t].i] = job[t].d
  /\ pc[t] \in Owning \cup {"delete"} => job[t].u \in Uploads
  /\ pc[t] \in Hashed \cup {"delete", "valSet"} => job[t].h \in Hashes
  /\ pc[t] \in {"commit", "valSet"} => job[t].flag \in {0, 1}

(* A finalizing thread owns its upload and has hashed its recorded chunks. *)
OwnsUpload(t) ==
  LET u == job[t].u IN
  /\ pc[t] \in Owning =>
       /\ ustate[u] = "finalizing"
       /\ \A s \in Threads \ {t} : ~(pc[s] \in Owning /\ job[s].u = u)
  /\ pc[t] \in Hashed => Received(u) /\ Digest[chunkRow[u]] = job[t].h
  /\ pc[t] = "delete" => ustate[u] = "finalized" /\ artifact[u] \in {None, job[t].h}

(* A pass owns the rows it has marked until it deletes or abandons them.   *)
OwnsMarked(t) ==
  /\ marked[t] # {} => pc[t] = "gcUnlink"
  /\ pc[t] = "gcUnlink" => job[t].todo \subseteq marked[t]
  /\ \A h \in marked[t] : /\ RowState(h) = "collecting"
                          /\ \A s \in Threads \ {t} : h \notin marked[s]

ThreadInv(t) == JobSet(t) /\ OwnsUpload(t) /\ OwnsMarked(t)

ArtifactFinalized == \A u \in Uploads : artifact[u] # None => ustate[u] = "finalized"

(* A chunk's file is that of its row.                                      *)
FileIsRow ==
  \A u \in Uploads, i \in Chunks : chunkFile[u][i] # None => chunkRow[u][i] = chunkFile[u][i]

(* A thread that has placed a file and is about to add its row.            *)
Adding(t, h) == pc[t] = "commit" /\ job[t].flag = 1 /\ job[t].h = h

(* As long as nothing raced, only a pass that has marked a row removes its *)
(* file, and a file that was placed stays until its row is added.          *)
FilesKept ==
  \A h \in Hashes :
    /\ RowState(h) = "active" => h \in files
    /\ \A t \in Threads : pc[t] = "gcUnlink" /\ h \in job[t].todo => h \in files
    /\ \A t \in Threads : Adding(t, h) =>
         /\ h \in files /\ RowState(h) # "active"
         /\ \A s \in Threads : /\ ~(pc[s] = "gcUnlink" /\ h \in job[s].todo)
                               /\ s # t => ~Adding(s, h)

(* A finalized upload has all its chunks, so that none of them that is     *)
(* accepted before it and recorded after it can add to it.                 *)
ChunksFirst ==
  /\ \A u \in Uploads : ustate[u] = "finalized" => Received(u)
  /\ \A t \in Threads : pc[t] = "putInsert" => ustate[job[t].u] # None

(* The inductive invariant.                                                *)
Inv ==
  /\ NoReferenceLeaks
  /\ \A t \in Threads : ThreadInv(t)
  /\ ArtifactFinalized /\ ChunksFirst /\ ArtifactIsItsChunks /\ FileIsRow
  /\ raced \/ (RefcountExact /\ FilesKept)
=============================================================================

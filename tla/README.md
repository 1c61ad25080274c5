# A verification of the programs in qwen-3.8-evals

The repository holds specifications of small services and the programs that
several language models wrote for them. Most of it is prose; the code is six
implementations of a resumable upload store (`vaultdrop/`) and two each of four
small command line services (`mini-ledger`, `mini-publisher`, `mini-inbox`,
`mini-recur`). They are small, but each is concurrent, is killed with SIGKILL as
part of its specification, and keeps promises that tests can only sample.

This directory models them in TLA+, checks small instances with TLC and proves
the most important properties for all instances with TLAPS.

## 1. Inventory

| Part | State | Operations | How it interacts | Hard behaviour |
|---|---|---|---|---|
| `vaultdrop/gpt-5-6-sol` Store | SQLite rows (uploads, chunks, artifacts, blobs with refcounts), chunk and blob files, gc trash, one lock per content hash, a validation lock | create, put chunk, finalize, download, delete, gc, validate, start-up recovery | threads of one HTTP server share the database and the files; deduplicated blobs join uploads of different tenants | finalize against delete and gc of equal bytes; late and conflicting chunks; a kill between a rename and its commit; verdicts formed long before they are recorded |
| `vaultdrop/gpt-5-6-sol` HTTP, auth | none | routing, parsing, token comparison | calls the Store | none |
| `vaultdrop/opus-4-6` (Go) | the same tables, per-hash mutexes | the same | goroutines | a replay renamed over recorded bytes; background removal of chunks |
| `vaultdrop/opus-4-6-v2` | the same tables, a `finalizing` state, a lock per content hash and one per chunk | the same | threads | gc's second look under the hash lock; a download between stat and open; verdicts recorded on a later row |
| `vaultdrop/qwen-3-8-27b-v2` | blob states active, pending, deleted instead of blob locks; quarantined files | the same | SQL updates guarded by state decide every race | resurrecting bytes that gc has quarantined; recovery of quarantined files |
| `vaultdrop/qwen-3-8-27b` | one gc lock, a registry of upload locks | the same | lock objects are dropped and made again | two lock objects for one upload; the order of three kinds of locks |
| `vaultdrop/qwen-v3` | blob states active and collecting, staging files | the same | hard links, a settle window for bytes without a row | wall-clock assumption in the window; a delete that reads before its transaction |
| `mini-ledger` model-1, model-2 | SQLite accounts, holds, top-up keys, an append-only log | account, topup, hold, charge, release | handler threads, each operation a `BEGIN IMMEDIATE` transaction | racing holds, double ends of a hold, replays, a retry of the whole operation |
| `mini-publisher` model-1, model-2, `receiver.py` | a message table; the receiver's list of acceptances | enqueue, daemon (recover, audit, dispatch, record), status | HTTP to a receiver that accepts, refuses or hangs and never deduplicates | ambiguous outcomes, kills at any point, two daemons, orphaned requests |
| `mini-inbox` model-1, model-2, `provider.py` | accounts, a dirty set, seen events, a call budget | webhook, reconcile, read | webhooks arrive while the reconciler waits for the provider | a webhook between fetch and update, budget across restarts |
| `mini-recur` | none | expand a recurring meeting | none | time zone folds, inside the time zone library |
| graders, plans, reviews | none | none | none | none |

What makes them correct: for the stores, that a live artifact is readable and
exactly what was uploaded, that no bytes are lost or kept twice by a crash, that
requests end; for the ledger, that the log is a valid history, append-only, and
that rows and answers agree with it; for the publisher, at most one acceptance
per message, true statuses, and an end for every message; for the inbox,
convergence to the provider's state inside the call budget.

`PROJECT.json` lists the components with what is modelled of each, and the
hazards of the code line by line with the properties that would catch them.

## 2. Plan

1. **Upload store** (done): `SolVault`, with `VaultContract` as its abstract
   specification, the proofs of its invariants and of the refinement. First,
   because it is the largest protocol in the repository and the others can be
   compared with it through the contract.
2. **Ledger** (done, and proved): `LedgerLog`, `LedgerContract`, the common
   server `LedgerServer`, `Ledger1` and `Ledger2`.
3. **Publisher** (model-1 done and proved): `Publisher`. Left: the model-2
   daemon, which has no lock.
4. **Inbox**: `Inbox1`, `Inbox2` over a common provider module. Abstract
   specification: a register that only moves forward to states the provider has
   had. Runs: convergence after the last webhook, nothing older shown after
   something newer, the call budget across a restart.
5. **The other Python stores** (done, and proved): `OpusVault`, `QwenVaultA`,
   `QwenVaultB` and `QwenVaultC`, four answers to the same race of finalize
   against gc, over a common `VaultState`; against `VaultContract` where they
   publish an upload once and keep its bytes. Left: the Go store `opus-4-6`,
   which adds background removal of chunks.

## 3. Modules

| Module | Models | Uses |
|---|---|---|
| `VaultContract` | what `vaultdrop/product.md` promises a client, and what follows for it | |
| `SolVault` | the Store of `vaultdrop/gpt-5-6-sol/src/vaultdrop.py` | instance of `VaultContract` |
| `SolVaultProofs` | the inductive invariant of `SolVault`, its consequences, the refinement of `VaultContract`, and what the contract then gives | `SolVault` |
| `VaultState` | what the four other Python stores share: tables, files, threads, SIGKILL, and the properties that make a store correct | instance of `VaultContract` |
| `OpusVault` | `vaultdrop/opus-4-6-v2` (`server.py`, `store.py`, `db.py`) | `VaultState` |
| `OpusVaultProofs` | the inductive invariant of `OpusVault`, the same | `OpusVault` |
| `QwenVaultA` | `vaultdrop/qwen-3-8-27b` (`uploads.py`, `store.py`, `locks.py`) | `VaultState` |
| `QwenVaultAProofs` | the inductive invariant of `QwenVaultA`, the same | `QwenVaultA` |
| `QwenVaultB` | `vaultdrop/qwen-3-8-27b-v2` (`store.py`, `core.py`, `db.py`) | `VaultState` |
| `QwenVaultBProofs` | claims, refcounts, chunks and artifacts of `QwenVaultB` | `QwenVaultB` |
| `QwenVaultC` | `vaultdrop/qwen-v3` (`uploads.py`, `blobs.py`, `db.py`) | `VaultState` |
| `QwenVaultCProofs` | references, rows and artifacts of `QwenVaultC`, and the refinement of `VaultContract` up to the first race | `QwenVaultC` |
| `LedgerLog` | entries, and what a log says of accounts, holds and answers | |
| `LedgerContract` | the log as `mini-ledger/spec.md` allows it to grow | `LedgerLog` |
| `LedgerServer` | threads, transactions, retries, errors and SIGKILL, common to both servers | `LedgerLog` |
| `Ledger1`, `Ledger2` | rows and operations of model-1 and model-2 | `LedgerServer`, instance of `LedgerContract` |
| `Ledger1Proofs` | how an entry changes what a log says and what its replay gives; `Ledger1` is typed, truthful, reconciles and implements the contract, and what the contract then gives | `Ledger1` |
| `Ledger2Proofs` | the same for `Ledger2` | `Ledger2` |
| `Publisher` | model-1's daemon against `receiver.py` | |
| `PublisherProofs` | at most once, true statuses | `Publisher` |
| `MCSolVault`, `MCOpusVault`, `MCQwenVaultA`, `MCQwenVaultB`, `MCQwenVaultC`, `MCLedger1`, `MCLedger2`, `MCPublisher` | small instances for TLC | |

A definition that begins with "Mutant:" in its comment is a variant of the next
one with a plausible bug. It is part of no specification; substituting it shows
that a property notices the bug.

### SolVault

- *Rows* are `ustate`, `chunkRow`, `artifact` (named by its upload, because of
  `UNIQUE(upload_id)`) and `blob`. *Files* are `chunkFile`, `blobFile` (content
  undamaged or not, and an inode) and `trash`. *Memory* is `lock` (the per-hash
  locks), `pc` and `job` (a request thread and its locals), `val` (the
  validation pass) and `phase` (up, or the step of recovery that is next).
- A transaction that touches no file is one step, since SQLite runs one writer
  at a time. `put_chunk` and `gc` rename files inside their transaction, so
  theirs are split and hold `dbWriter` in between.
- Finalize is freeze, assemble, lock, place, commit, clean up, each of them a
  step with its error path. Temporary files have unique names and are read by no
  one else, so they exist in `job` only.
- Recovery is four steps, each of which may be killed. A sweep over trash
  entries, chunks or blobs is one step: each of its iterations is idempotent and
  touches one entry only, so a kill inside the sweep leaves the entries not yet
  visited as they were, and the repeated sweep treats both kinds alike.
- `BitRot` damages a stored file behind the program's back. It is what
  validation and verified downloads are for.
- Only requests of the owning tenant are modelled. Every lookup filters by
  tenant, so for another tenant the rows do not exist. Isolation between tenants
  is a matter of those filters and is not a property here.

### VaultState, OpusVault, QwenVaultA, QwenVaultB, QwenVaultC

- *Rows* are `ustate`, `chunkRow`, `artifact` and `blob` (a record with the
  refcount and, where the store has one, the state and the verdict of
  validation). *Files* are `chunkFile` and `files`, the hashes with a file under
  their content-addressed name. `pc` and `job` are a request thread and its
  locals, among them the `todo` set of a pass over many blobs.
- A committed transaction is one step, and so is each rename, link or unlink.
  Checks made before a body is streamed or a chunk assembled are steps of their
  own, because others run in between.
- These programs release their locks in `finally` or `with`. A lock is therefore
  held exactly while its owner is at certain labels, and the modules name the
  set of labels (`BlobLocked`, `ChunkLocked`, `UploadLocked`, `GcLocked`,
  `DbBusy`) instead of keeping a variable.
- `Killed` is the SIGKILL. Each store adds what its start-up does, as `Restart`.
  Start-up runs alone and each of its repairs is idempotent, so a kill within it
  followed by another start amounts to one longer start-up.
- `OpusVault`: finalize owns an upload by the state `finalizing`; from placing to
  committing it holds the lock of the hash, under which gc tests the refcount
  again before it deletes and unlinks. A download is three steps: it looks the
  row up, answers 200 on a stat, and opens the file afterwards.
- `QwenVaultA`: one `gc_lock` covers a finalize's transaction, a gc pass and a
  validation pass. The registry hands out one lock per upload and drops it after
  finalize (`DropLock`), so that the next request makes another; `gen` counts the
  drops, and requests with different generations do not exclude each other.
- `QwenVaultB`: `ClaimRead` picks one of three ways by the row's state:
  `ClaimPlace` and `ClaimInsert`, `ClaimRecover` for an active or pending row,
  `ClaimPlace` and `ClaimResurrect` for a tombstone. gc is `GcMark`,
  `GcTombstone`, `GcRename`, `GcDecide`, `GcSettle`. `changed`, which gc and
  validation test, is a cursor and never false, so the test is not a guard here.
- `QwenVaultC`: finalize decides, links, and where the name is taken waits
  (`Settle`) and then replaces the file (`ReplaceUnlink`, `ReplaceLink`). gc is
  `GcMark`, `GcUnlink` and `GcDelete`; a delete reads before its transaction
  (`DeleteRead`, `Delete`). Time is abstracted: the settle window may end at any
  moment. The history variable `raced` records the two events after which the
  store promises nothing (section 4, what does not hold).

### LedgerServer, Ledger1, Ledger2

- `db` is the committed database, `tx` the view of the open transaction, which
  `BEGIN IMMEDIATE` gives to one thread (`writer`) at a time. `Commit` makes the
  view the database; `Retry`, `Fail` and `Crash` drop it. Operations are one step
  on the view: nobody else can see it.
- Model-1 keeps `balance` and `held` and retries on a constraint violation, up to
  `MaxTries` transactions. Model-2 keeps `balance` and `available` and tries once.
- Amounts are integers of any sign. `spec.md` line 33 says that they are positive;
  model-1 enforces it (`_posint`), so its `Next` receives only the `WellFormed`
  requests: the others are answered 400 before any transaction and change nothing.
  Model-2 checks neither sign nor type and its tables have no CHECK, so it
  receives them all. Amounts that are no integers (strings, fractions), which
  model-2 and SQLite would take too, and sums beyond SQLite's 64 bits are not
  modelled.

### Publisher

- `row` and `queue` are the table and its rowid order; `lock` is the `flock`;
  `pc`, `mid`, `count` and `answer` are a daemon and what it last heard.
  `delivering` is committed before the POST, the outcome after the client has
  given up; a kill can come at any point in between.
- The receiver decides in one step (`Handle`), and records before it answers or
  hangs.
- A client that gives up or dies leaves a request the receiver may not have
  handled. For messages in `Strays` such a request can still be handled later
  (`HandleStray`) when its client was killed, and for those of them in `Late` also
  when its client gave up after 10 seconds; for the others it dies with its
  client, which is what the program's NOTES.md reasons from.
- An audit that fails changes nothing and is repeated; the waiting between
  attempts is left out, except that a message that was never tried is not
  overtaken by a later one.

## 4. What the runs check

| Run | Bounds | Properties | Distinct states |
|---|---|---|---|
| `sol_safety` | 2 uploads of 1 chunk, 2 contents, 2 threads, gc batches of 2, 2 kills | Inv (with TypeOK), ArtifactReadable, RefcountExact, NoFalseAlarm, StartsTidy, ImplementsContract | 987,859 |
| `sol_upload` | 1 upload of 2 chunks, 2 contents, 2 threads, 1 kill, 1 rotting file | ChunkBytesKept, ArtifactIsItsChunks, FrozenChunks, RequestsEnd | 147,000 |
| `opus_vault` | 2 uploads of 1 chunk, 2 contents, 2 threads, 1 kill | Inv, ArtifactReadable, RefcountExact, CutOnlyIfDeleted, ImplementsContract | 185,808 |
| `qwen_a` | the same | TypeOK, ChunkBytesKept, NoFalseAlarm, RequestsEnd, ImplementsContract | 302,328 |
| `qwen_b` | the same | ClaimOrTombstone, RefcountExact, ArtifactIsItsChunks | 164,535 |
| `qwen_b_bytes` | the same, no kill | BytesKept is violated | |
| `qwen_c` | the same, 3 threads | NoReferenceLeaks, ReferenceWins, ArtifactIsItsChunks, ImplementsUntilRaced | 844,096 |
| `ledger1` | 2 accounts, 9 requests and 2 that are refused, 2 threads, 2 tries, 1 kill | TypeOK, Reconciles, Truthful, ImplementsContract | 613,038 |
| `ledger2` | 1 account, 8 requests, amounts -1 to 1, 2 threads, 1 kill | the same, and RequestsEnd | 94,106 |
| `ledger1_topup` | as `ledger1` | TopupTruthful is violated | |
| `publisher` | 2 messages (requests of one may outlive any client), 2 daemons, threshold 2, 2 kills | TypeOK, AtMostOnce, TruthfulStatus, EveryMessageEnds | 31,276 |
| `publisher_stray` | as `publisher`, but they outlive killed clients only | NoDuplicate is violated | |

Why the bounds are enough to be interesting:

- `sol_safety`: two uploads with two contents can share a blob or not, so one
  thread finalizes while the other deletes, collects or validates the same
  hash. One kill leaves every half-done state of the requests to a recovery, and
  the second can kill that recovery between any two of its sweeps. `Stamps` gives
  five values for inode numbers and creation times: two hashes and two threads have at most four
  in use, so a fresh one is always left.
- `opus_vault`, `qwen_a`, `qwen_b`: every lock and every guarded update in these
  stores is between two parties, finalize or delete on one side, gc, validation
  or another finalize on the other. Two contents make a put or a finalize
  conflict or agree; a third content would differ from neither. One kill at any
  point leaves each of the half-done states a restart can find. Counted states
  are up to the symmetry of uploads and threads, except in `qwen_a`, where
  liveness forbids it.
- `qwen_c`: three threads, because its hazards take a finalize that outlasts its
  settle window, the finalize that placed the file, and a delete or a gc pass.
- `sol_upload`: two chunks are the least for an assembly of mixed bytes. With one
  upload there is one blob at a time, so `RequestsEnd` says nothing of the order in
  which gc takes several blob locks; `sol_safety`, with two, checks it for deadlock.
- `ledger1`, `ledger2`: two holds race for credits that suffice for one; one
  top-up key is used with two amounts; one reference is held with two sets of
  parameters; charge and release of one reference race. In `ledger2` a top-up and a
  hold are negative, so an account is taken below zero before and after other
  operations. Every answer is delayed past other threads' commits, and the kill
  falls anywhere.
- `publisher`: the threshold of 2 (10 in the code) is the least at which a
  message is tried again; two kills allow one in the middle of a recovery.

Deadlock is checked in the stores and the ledgers, where a cycle of locks would
show as one. It is off in the publisher's runs: when all is delivered and the
kills are used up, only a daemon with nothing to do is left.

### Fairness

- Store and ledger: strong fairness of each thread's own steps (`Step(t)`), weak
  fairness of recovery. Threads are scheduled by the operating system; a thread
  that waits for a `threading.Lock` or for SQLite's writer (busy timeout 30
  seconds, retried inside SQLite) gets it again and again as others release it.
  Nothing obliges a client to send a request, and no fairness is put on errors,
  kills or rot. A busy timeout is an error step, which also ends the request.
- `QwenVaultA`: strong fairness of each thread's own steps, for the same reasons;
  errors (`RequestError`) are no part of `Step`. `RequestsEnd` then says that
  upload lock, `gc_lock` and SQLite's writer are taken in one order.
- Publisher: weak fairness of starting a daemon when none runs and of each
  daemon's work, its POST being answered or given up included. Kills are
  finitely many; with kills for ever before the first commit nothing could end.

### What does not hold

- `ledger1_topup`: `spec.md` calls a 200 an entry "or an exact replay". Both
  servers look a top-up key up by itself, so another amount, or another account,
  with a used key is answered 200 and appends nothing. No money is invented, but
  the client is told of a top-up that is not in the log.
- `ledger2`: with amounts that `spec.md` line 33 excludes and model-2 does not
  refuse (`ledger` lines 148, 169, 199), its first invariant, that no account's
  `available` ever dips below zero, does not hold: a negative `initial` or `topup`
  overdraws an account and a negative hold adds credits, which its release takes
  back. `Reconciles` says that this is the only way and that even then no hold
  leaves an account overdrawn, and that rows and replay still agree. As the inputs
  are outside the interface, no run of its own states the invariant for them.
- `publisher_stray`: the argument of NOTES.md (lines 31-33) is that a daemon that
  was killed leaves a request that is either accepted already or dead. A request in
  the receiver's socket, or in a thread that has not yet reached the lock, is
  neither: the restarted daemon makes the message uncertain and audits, the count
  is 0, the message is sent again, and both are accepted. The restarted daemon
  follows `spec.md` lines 93-95 (retry on a count of 0 once the client is gone),
  so that rule does not give the promise of line 80. The run gives strays to killed
  clients only; a client that gives up after 10 seconds can leave one too
  (`publisher` has both). Without strays the argument is right, and it is proved.
- `qwen_b_bytes`: gc_pass's docstring says that a resurrect which lands between
  the tombstone's commit and the unlink is restored. gc reads the row's state once
  after it has renamed the file aside. A finalize that has placed equal bytes
  before the rename and commits after that read leaves an active row whose only
  file is the one gc then unlinks. The tables stay consistent (`qwen_b` checks that), so only a
  download notices. With kills there is a shorter way: `db.recover` unlinks every
  quarantined file, that of a re-claimed blob included.
- `qwen_c`: a live artifact is not always readable, and a refcount not always
  exact. Two requests that delete one artifact both read it before either
  commits, and the second takes a reference that is another artifact's. A
  finalize whose settle window ends before the other's commit unlinks a file that
  was no residue. `ReferenceWins` says that these two are the only ways, and
  `ImplementsUntilRaced` that no other step breaks the contract first. DECISIONS.md
  (claims 2 and 7: a committed row always has complete bytes) reasons about
  neither; no run of its own states the claim without the exception.
- `qwen-3-8-27b-v2` validation cannot report a missing file: the error is turned
  into an ApiError, which ends the pass with 422. The model does what the code does.

## 5. What is proved

The theorems hold for any finite set of uploads and any sets of chunks,
contents, threads, accounts, messages and daemons, and for any bound on crashes,
tries, batches and attempts. They assume the named ASSUMEs of the modules only:
that `None` is not one of the values it is told apart from, that bounds are
natural numbers, that the ledger's amounts are integers (of any sign), that stray
requests are of messages, and, for the store, that `Digest` is injective, i.e.
that SHA-256 has no collision among the contents.

**SolVaultProofs.** `Inv` is the inductive invariant. The properties alone are
not inductive: why gc's rename is harmless depends on what every other thread
may rely on where it stands. `Inv` says, per thread, that its locals are set
(`JobSet`), what a split transaction knows (`InTransaction`), that a finalizing
thread owns its upload and that its chunks hash to the declared digest
(`OwnsUpload`), that the hash lock is held from placing a file to committing its
row, and by gc while it moves files (`HoldsLocks`), and that the row a delete
looked up still names its hash (`DeletesItsHash`); and, of the store, that
recovery runs alone and keeps what it has established (`QuietRecovery`), that an
artifact's upload is finalized, that referenced blobs have their files
(`FileKept`), and the properties themselves. There is one lemma per part of
`Inv`, with one step per action under it. From it follow `TypeCorrect`,
`Counts`, `ChunksKept`, `ArtifactsExact`, `Readable`, `NoFalseAlarms`, and two
action properties, `ChunksFrozen` and `RecoveryTidies`.

`NoFalseAlarms` needs a history of its own, because validation and downloads
judge bytes they have read before they write what they think of them. A reader
whose bytes do not verify holds a descriptor of bytes that rotted (`ReadsReal`).
What a pass holds against bytes that did not can only be that it found no file;
then the row it had a snapshot of was unreferenced, and a row committed since has
another `created_at` (`VerdictsReal`), which is what the UPDATE compares. One
lemma per step of a reader or of the pass (`ReadsStep`, `AlarmStep`) shows that
finalizes, gc and recovery leave these two as they are.

The same module proves the refinement. With `Inv`, every step of the store is a step of
`VaultContract` or leaves its variables alone. Publishing is finalize's commit;
bytes are stored when a file is placed and collected when gc renames it to the
trash, long before it is unlinked. Recovery can put a file back.

What a client may rely on is then proved once from the contract's steps and holds
for the store: `Immutable` (the first bytes accepted for a chunk are final, and a
published upload never changes and is never published again; lemma `Promises`)
and `HeldWhileLive` (a live artifact is complete and its bytes are held; lemma
`KeepsLive`). `OpusVaultProofs` and `QwenVaultAProofs` prove the same two.

**OpusVaultProofs.** Readability alone is not inductive: gc unlinks a file
because a row it deleted is still missing, and that holds because a finalize of
the hash would need the lock. `Inv` says, per thread, that its locals are set
(`JobSet`), that a chunk writer is alone with the file it has placed
(`OwnsChunk`), that a finalizing thread owns its upload and that the recorded
chunks hash to the declared digest (`OwnsUpload`), and that a hash lock has one
holder whose placed file, or deleted row, stays as it left it (`OwnsBlob`); and,
of the store, that recorded chunks keep their bytes until the upload is
finalized, that every blobs row has its file (`RowHasFile`), that artifacts
belong to finalized uploads whose chunks are all received, and that refcounts are
exact. There is one lemma per part (`TypeStep`, `ThreadStep`, `ChunksStep`,
`ArtifactsStep`, `CountsStep`, `FilesStep`). `Invariance`, `ArtifactsReadable`,
`RefcountsExact` and the action property `CutsOnlyDeleted` follow.

The same module proves the refinement. With `Inv`, every step of the store is a step of
`VaultContract` or leaves its variables alone: finalize's commit publishes, the
insert of a chunk's row receives it, placing a file stores and gc's unlink
collects (`UploadImplements`, `StepImplements`, `Implements`), and `Immutable` and
`HeldWhileLive` follow.

**QwenVaultAProofs.** Two facts carry the proof. `gc_lock` has one holder, so a
thread at a label where it holds the lock finds rows and files as it left them
(`OwnsGcLock`, lemma `Quiet`). And the registry may hand out a second lock of an
upload only after finalize has dropped the first, when all its chunks are
recorded: whoever still writes a chunk has found its row missing, so it holds the
first lock and is alone with the upload (`OwnsChunk`, lemma `PutFacts`). Around
these, `Inv` says that a finalize has hashed the recorded chunks and that the one
that claimed the upload is the one that drops its lock (`OwnsUpload`), that
artifacts and dropped locks belong to finalized, complete uploads (`UploadInv`),
and that every blobs row has its file and no verdict to the contrary
(`RowHasFile`). A step moves one thread to a label and locals that `Fits` it
(`RequestAdvances`, `StepAdvances`); there is one lemma for each group of
variables (`ChunksStep`, `UploadsStep`, `TablesStep`, `FilesStep`) and one for each
part of what a thread relies on (`ChunkOwnersStep`, `UploadOwnersStep`,
`GcLockOwnersStep`). `TypeCorrect`, `ChunksKept`, `NoFalseAlarms` and the
refinement, `Implements`, follow, and from it `Immutable` and `HeldWhileLive`.

**QwenVaultBProofs.** No lock stands between this store's finalizes and its gc;
guarded updates do. The invariant says that the row of a live artifact is active
and a marked or condemned row has no reference (`ClaimOrTombstone`), that a chunk
writer is alone with the file it has placed and a claiming finalize has hashed its
recorded chunks (`OwnsChunk`, `ClaimsItsChunks`), that recorded chunks keep their
bytes, and that artifacts and refcounts are exact. Each claim is one transaction
that adds a reference to a row it finds in a state it may use (`ClaimsPublish`);
what the passes do to a row changes its label and never its references
(`PassesRelabel`). `ClaimsOrTombstones`, `RefcountsExact` and `ArtifactsExact` say
that the tables are right, `ChunksKept` and `FirstBytes` that chunks are. They say
nothing of the blob file under a name, which this store can lose (`qwen_b_bytes`);
so it does not implement the contract, and it publishes an upload again once its
artifact was deleted, which the contract does not allow either.

**QwenVaultCProofs.** The invariant says that no row counts more references than
artifacts name its hash and that a row being collected counts none
(`NoReferenceLeaks`), that a finalizing thread owns its upload and has hashed its
recorded chunks (`OwnsUpload`), that a gc pass owns the rows it has marked
(`OwnsMarked`), that artifacts belong to finalized uploads, that these have all
their chunks, so that no PUT accepted earlier adds to them (`ChunksFirst`), and
that a chunk's file is that of its row (`FileIsRow`). Until one of the two events that `raced`
records, it also says that refcounts are exact and that active rows, and files
placed for a row about to be added, keep their bytes (`FilesKept`). A step does
one of a few things to the tables (`RowChanges`, `MarkChanges`, `UploadChanges`,
`FileChanges`), each with its own step in `TablesStep` and `FilesStep`. `NoLeaks`,
`ReferencesWin` and `ArtifactsExact` follow; `ReferencesWin` is the promise of the
store with its two exceptions. The same exceptions bound the refinement:
`ImplementsUntil` shows that every step is a step of `VaultContract`, or invisible
to it, or comes after the first race or is that race, and `HeldUntilRaced` that a
live artifact has its bytes until then. `Immutable` has no exception: whatever
races, chunks and artifacts keep their contents and an upload is published once.

**Ledger1Proofs, Ledger2Proofs.** The inductive invariant `IInv` joins the type
invariant, the agreement of the tables with the log (`Consistent`), what holds at
each point of a thread (before its operation the view is the database, after it
the view differs by at most the one entry the operation may write, `Served`), and
that an answer that waits to be sent stays honest as the log grows.
`Invariance`, `AnswersTruthful` and `Implements` follow.

`Reconciliation` is an induction over the log, of any length: replaying it from
its first entry gives each account the balance and the available credits its row
has, every hold it has passed left the account with nothing overdrawn, and a prefix
that is overdrawn has an entry with a negative amount (`Covers`). A replay is a
recursive function of the position, known to exist and to be unique by the principle of the least counterexample
(`Least`, `UpTo`, `AddsExists`, `AddsAgree`); one more entry leaves the replay of
what precedes it alone (`ReplayKept`) and adds its own share (`ReplayOneMore`).
Each operation is shown to change the balance and the available credits by the
share of the entry it writes (`BookedBy`, `Booked`; lemmas `Opening`, `ToppingUp`,
`Holding`, `Ending`), so `Reconciled` is inductive relative to `IInv`. For
Ledger1 a third invariant, `PositiveInv`, carries the refusal of amounts that are
not positive from the requests to the log, so that no prefix is overdrawn at all.

`NeverOverdrawn` is `NeverNegative` of the contract for Ledger1 and the weaker
`NeverOverdraws`, only a negative amount overdraws, for Ledger2. From the
refinement both servers have `Appends` (the log only grows), `EndsOnce` (a hold has
at most one charge or release, of its own account and amount) and `AppliesOnce`
(no key is applied twice, however often requests are repeated).

**PublisherProofs.** The invariant says that only the holder of the lock runs
(`Alone`), that the row of the message it works on is as it left it (`Holding`),
that `pending` and `failed` rows were never accepted and no row failed before
`FailThreshold` attempts (`Outcomes`), and that an audit's count is still current and no POST is under way for an accepted message
(`InFlight`). `Types`, `NeverTwice` and `ToldTruly` follow.

## 6. Model-checked only

- Liveness under fairness: `RequestsEnd` (`sol_upload`, `ledger2`, `qwen_a`) and
  `EveryMessageEnds`. The proof system has no rules for fairness.
- Absence of deadlock, which is a statement about ENABLED.

Every other property of a passing run is stated by a theorem.

## 7. Not modelled

- HTTP parsing, authentication, listings and status pages: no state of their own.
- fsync and power loss. A file or a commit that the program has written survives
  a SIGKILL, which is what its specification demands; the order of fsyncs is not
  checked.
- Payload sizes, quotas on bytes, memory bounds, throughput.
- `mini-recur`: sequential, and decided by the time zone library.
- The graders and the documents, which hold no program of the systems.
- Bit rot, except in `SolVault`; there it decides what validation is for. In the
  other stores a blob file holds the bytes of its name, and validation is modelled
  for the rows it writes and the races it takes part in.
- The staging directories of the other stores: temporary names are unique and
  read by their writer only. Their downloads are modelled for `OpusVault`, where
  the answer precedes the open; in the Qwen stores a download changes no state.
- `mini-inbox` (both models and `provider.py`), the Go store `opus-4-6` and the
  publisher's model-2 daemon: they could be modelled as the others are, and are
  not. Their hazards are listed in `PROJECT.json` without a property.

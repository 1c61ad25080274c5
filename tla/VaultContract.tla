---------------------------- MODULE VaultContract ----------------------------
(***************************************************************************)
(* What vaultdrop/product.md promises a client, with no threads, locks,    *)
(* files, database rows or crashes: an upload receives its chunks once     *)
(* each, becomes at most one artifact made of exactly those chunks, and    *)
(* the bytes of a live artifact stay stored until the artifact is gone.    *)
(* Each implementation module instantiates this one and is checked to     *)
(* implement its specification.                                            *)
(***************************************************************************)
CONSTANTS
  Uploads,  \* upload ids
  Chunks,   \* chunk indices of an upload
  Data,     \* the possible contents of a chunk
  Digest,   \* SHA-256 of an assembled upload: [Chunks -> Data] to hash
  None      \* no value

Contents == [Chunks -> Data]
Hashes   == {Digest[c] : c \in Contents}

VARIABLES
  status,    \* status[u]: absent, open, live (published) or gone (deleted)
  received,  \* received[u][i]: the bytes accepted first for chunk i
  stored     \* the hashes whose bytes are held durably

vars == <<status, received, stored>>

Live == {u \in Uploads : status[u] = "live"}

HashOf(u) == Digest[received[u]]

TypeOK ==
  /\ status \in [Uploads -> {"absent", "open", "live", "gone"}]
  /\ received \in [Uploads -> [Chunks -> Data \cup {None}]]
  /\ stored \subseteq Hashes

Init ==
  /\ status = [u \in Uploads |-> "absent"]
  /\ received = [u \in Uploads |-> [i \in Chunks |-> None]]
  /\ stored = {}

Open(u) ==
  /\ status[u] = "absent"
  /\ status' = [status EXCEPT ![u] = "open"]
  /\ UNCHANGED <<received, stored>>

(* The first bytes accepted for a chunk are final.                         *)
Receive(u, i, d) ==
  /\ status[u] = "open"
  /\ received[u][i] = None
  /\ received' = [received EXCEPT ![u][i] = d]
  /\ UNCHANGED <<status, stored>>

Store ==
  /\ stored' \in SUBSET Hashes
  /\ stored \subseteq stored'
  /\ UNCHANGED <<status, received>>

(* An upload is published once, complete, with its bytes already held.     *)
Publish(u) ==
  /\ status[u] = "open"
  /\ received[u] \in Contents
  /\ HashOf(u) \in stored
  /\ status' = [status EXCEPT ![u] = "live"]
  /\ UNCHANGED <<received, stored>>

Remove(u) ==
  /\ status[u] = "live"
  /\ status' = [status EXCEPT ![u] = "gone"]
  /\ UNCHANGED <<received, stored>>

(* Only bytes no live artifact refers to may be dropped.                   *)
Collect ==
  /\ stored' \in SUBSET stored
  /\ \A u \in Live : HashOf(u) \in stored'
  /\ UNCHANGED <<status, received>>

Next ==
  \/ \E u \in Uploads : Open(u) \/ Publish(u) \/ Remove(u)
  \/ \E u \in Uploads, i \in Chunks, d \in Data : Receive(u, i, d)
  \/ Store
  \/ Collect

Spec == Init /\ [][Next]_vars

-----------------------------------------------------------------------------
(* What follows for a client; proved of every store that implements this.  *)

(* The bytes first accepted for a chunk are never silently overwritten     *)
(* (product.md, conflicting chunk replay).                                 *)
FirstBytesFinal ==
  [][\A u \in Uploads, i \in Chunks :
       received[u][i] # None => received'[u][i] = received[u][i]]_vars

(* An artifact is immutable and its upload is never published again: no    *)
(* late chunk adds to it, and a deleted artifact stays deleted.            *)
PublishedOnce ==
  [][\A u \in Uploads : status[u] \in {"live", "gone"} =>
       received'[u] = received[u] /\ status'[u] \in {status[u], "gone"}]_vars

(* A live artifact is complete and its bytes are held (promises 2 to 4).   *)
LiveKept == \A u \in Live : received[u] \in Contents /\ HashOf(u) \in stored
=============================================================================

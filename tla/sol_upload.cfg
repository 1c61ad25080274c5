CONSTANTS
  Uploads = {u1}
  Chunks = {0, 1}
  Data = {1, 2}
  Digest <- MCDigest
  Threads = {t1, t2}
  None = None
  BatchSize = 2
  Stamps = {0, 1, 2, 3, 4}
  MaxCrashes = 1
  MaxRots = 1
SPECIFICATION FairSpec
INVARIANTS ChunkBytesKept ArtifactIsItsChunks
PROPERTIES FrozenChunks RequestsEnd

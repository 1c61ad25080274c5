CONSTANTS
  Uploads = {u1, u2}
  Chunks = {0}
  Data = {1, 2}
  Digest <- MCDigest
  Threads = {t1, t2, t3}
  None = None
  MaxCrashes = 1
SPECIFICATION Spec
SYMMETRY Symmetry
INVARIANTS NoReferenceLeaks ReferenceWins ArtifactIsItsChunks
PROPERTIES ImplementsUntilRaced

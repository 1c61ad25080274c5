CONSTANTS
  Uploads = {u1, u2}
  Chunks = {0}
  Data = {1, 2}
  Digest <- MCDigest
  Threads = {t1, t2}
  None = None
  BatchSize = 2
  Stamps = {0, 1, 2, 3, 4}
  MaxCrashes = 2
  MaxRots = 0
SPECIFICATION Spec
SYMMETRY Symmetry
INVARIANTS Inv ArtifactReadable RefcountExact NoFalseAlarm
PROPERTIES StartsTidy ImplementsContract

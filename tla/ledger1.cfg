CONSTANTS
  a1 = a1
  a2 = a2
  k1 = k1
  r1 = r1
  r2 = r2
  Accounts = {a1, a2}
  Keys = {k1}
  Refs = {r1, r2}
  Amounts <- MCAmounts
  Requests <- MCRequests
  Threads = {t1, t2}
  None = None
  MaxTries = 2
  MaxCrashes = 1
SPECIFICATION Spec
SYMMETRY Symmetry
INVARIANTS TypeOK Reconciles Truthful
PROPERTIES ImplementsContract

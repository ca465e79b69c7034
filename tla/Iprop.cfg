CONSTANTS
  Princ = {p1, p2}
  Policies = policies
  Entries = 2
  MaxVer = 2
  MaxEpoch = 2
  MaxFaults = 1
  MaxDumps = 2
SPECIFICATION FairSpec
INVARIANTS Synchronized PrimaryHadIt
CHECK_DEADLOCK FALSE
PROPERTY Converges

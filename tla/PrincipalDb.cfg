CONSTANTS
  Threads = {t1, t2}
  Princ = {"a", "b"}
  Policies = {"z"}
  MaxVer = 4
  MaxIno = 3
  MaxFaults = 1
  MinDead = 1
SPECIFICATION Spec
INVARIANTS NothingLost ReadsAreFresh
CHECK_DEADLOCK FALSE
SYMMETRY Alike

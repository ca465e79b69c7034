CONSTANTS
  kdc = kdc
  kadmind = kadmind
  util = util
  k1 = k1
  k2 = k2
  a1 = a1
  a2 = a2
  u1 = u1
  Proc = {kdc, kadmind, util}
  Thread = {k1, k2, a1, a2, u1}
  ProcOf <- MCProcOf
  ReadOnly = {}
  Loader = {util}
  MaxInode = 2
SPECIFICATION Spec
INVARIANTS
  LockInv
  MutualExclusion
  PolicyLockIsFree

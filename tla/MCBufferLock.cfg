SPECIFICATION Spec
CONSTANTS
  t1 = t1
  t2 = t2
  t3 = t3
  Threads = {t1, t2, t3}
  NoThread = NoThread
  Kinds = {"pmem", "ashmem", "fb"}
  MaxOrphans = 1
SYMMETRY Symmetry
INVARIANTS
  MutualExclusion
  LockStateExact
  HeldIsMapped
  FlushedBeforeReuse

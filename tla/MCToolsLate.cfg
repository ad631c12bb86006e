SPECIFICATION ToolsSpec
CONSTANTS
  Parts = {"late"}
  t1 = t1
  t2 = t2
  s1 = s1
  s2 = s2
  p1 = p1
  c1 = c1
  c2 = c2
  k1 = k1
  l1 = l1
  BIP_BUFFER_SIZE = 3
  Lens = {1, 2, 4}
  MaxBytes = 6
CHECK_DEADLOCK FALSE
INVARIANTS
  ReadNextIteration

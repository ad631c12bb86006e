SPECIFICATION ToolsSpec
CONSTANTS
  Parts = {"pair", "files", "looper", "late", "jdwp", "sync", "many", "fastboot"}
  t1 = t1
  t2 = t2
  s1 = s1
  s2 = s2
  p1 = p1
  c1 = c1
  c2 = c2
  k1 = k1
  l1 = l1
  BIP_BUFFER_SIZE = 3
  Lens = {1, 2, 4}
  MaxBytes = 6
\* Everybody may have closed what they had, and every command ends.
CHECK_DEADLOCK FALSE
INVARIANTS
  RegionsSound
  EmulationSound
  JdwpSound
  CopiesWhole
  NoStandstill
  FastbootSound
PROPERTIES
  ImplementsQueue

SPECIFICATION AdbSpec
CONSTANTS
  Parts = {"network"}
  u1 = u1
  u2 = u2
  Handles = {h1, h2}
  Writeable = {h1}
  NoHandle = none
  MaxChunks = 1
  Markers = {FALSE, TRUE}
  Faults = {"submit", "stall", "stuck", "packet"}
CHECK_DEADLOCK FALSE
INVARIANT FreedAfterThreads

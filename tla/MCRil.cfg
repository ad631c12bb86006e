SPECIFICATION RilSpec
CONSTANTS
  Parts = {"timer", "conn", "quiet", "wake", "serial", "nitz", "parcel"}
  t1 = t1
  t2 = t2
  t3 = t3
  th1 = th1
  th2 = th2
  th3 = th3
  i1 = i1
  i2 = i2
  i3 = i3
  Conns = {1, 2}
  Requests = {r1}
  LocalRequests = {l1}
  Threads = {th3}
  MaxUnsol = 0
  Faults = {"write", "accept", "reject", "debug"}
  b1 = b1
  b2 = b2
SYMMETRY Symmetry
\* With nothing to do the loop waits in select(), or it has ended; there may be
\* no more messages.
CHECK_DEADLOCK FALSE
INVARIANTS
  TimersSound
  ConnectionSound
  AnswersWhenQuiet
  UnsolicitedSound
  ParcelsExact

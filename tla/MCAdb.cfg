SPECIFICATION AdbSpec
CONSTANTS
  Parts = {"fdevent", "stream", "streams", "usb", "noperm", "emulator", "network",
           "devices"}
  u1 = u1
  u2 = u2
  Handles = {h1, h2}
  Writeable = {h1}
  NoHandle = none
  MaxChunks = 1
  Markers = {FALSE, TRUE}
  Faults = {"submit", "stall", "stuck", "packet"}
SYMMETRY Symmetry
\* A stream that both ends have closed, and a server whose devices are gone and
\* whose clients are closed, make no further step.
CHECK_DEADLOCK FALSE
INVARIANTS
  EventsCoherent
  OneCredit
  Delivered
  TransportsSound
  FreedInTime
  UsbSound

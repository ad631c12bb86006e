SPECIFICATION Spec
CONSTANTS
  Parts = {"post", "timer", "conn", "wake", "stream", "transport", "camera", "sync", "many", "usb"}
  t1 = t1
  t2 = t2
  th1 = th1
  th2 = th2
  i1 = i1
  i2 = i2
  i3 = i3
  h1 = h1
  none = none
\* Clients may stop calling, messages may end, and devices may be gone.
CHECK_DEADLOCK FALSE
PROPERTIES
  CallsReturn
  EventLoopServes
  StreamsEnd

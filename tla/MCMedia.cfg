SPECIFICATION MediaSpec
CONSTANTS
  Clients = {client1, client2}
  MaxObjects = 3
  StartFails = {"oncrpc"}
  Parts = {"route", "play", "record",
           "objects", "video", "picture", "release", "dlopen", "settings", "colours", "exif", "sizes",
           "sensors", "three"}
\* A client may stop making cameras, a released one does nothing more, and poll()
\* waits for reports.
CHECK_DEADLOCK FALSE
INVARIANTS
  RoutingCoherent
  OneCamera
  OncePerPicture
  SettingsCoherent
  SizesFit
  SensorsSound
PROPERTY FrameThreadSound

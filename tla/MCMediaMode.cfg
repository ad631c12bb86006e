SPECIFICATION MediaSpec
CONSTANTS
  Clients = {client1, client2}
  MaxObjects = 3
  StartFails = {"oncrpc"}
  Parts = {"play", "record"}
INVARIANT ModeTakesEffect

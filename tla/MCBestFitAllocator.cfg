SPECIFICATION FairSpec
CONSTANTS
  HeapSizes <- MCHeapSizes
  Requests <- MCRequests
INVARIANTS
  Tiles
  Coalesced
  BestFit
PROPERTIES
  ImplementsHeap

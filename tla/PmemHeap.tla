------------------------------ MODULE PmemHeap ------------------------------
(***************************************************************************)
(* What a PmemUserspaceAllocator::Deps::Allocator promises: regions of a   *)
(* heap that start on a page boundary and do not overlap, and an error     *)
(* only if there is no room for one more.  How the free memory is kept,    *)
(* and which region is chosen, is left open.                               *)
(***************************************************************************)
EXTENDS Integers

CONSTANTS HeapSizes, Requests

VARIABLES
  heap,   \* size of the heap in units of kMemoryAlign bytes, 0 before setSize()
  owned,  \* the regions handed out
  ret     \* result of the last allocate()

hvars == <<heap, owned, ret>>

AlignBytes == 32
PageBytes == 4096
UnitsPerPage == PageBytes \div AlignBytes
NoMemoryError == -12

UnitsFor(bytes) == (bytes + AlignBytes - 1) \div AlignBytes

Disjoint(a, b) == a.start + a.size <= b.start \/ b.start + b.size <= a.start

Region(p, n) == [start |-> p * UnitsPerPage, size |-> n]

\* Pages at which a region of n units is free.
Room(n) ==
  {p \in 0..(heap \div UnitsPerPage) :
     /\ p * UnitsPerPage + n <= heap
     /\ \A o \in owned : Disjoint(Region(p, n), o)}

Init == heap = 0 /\ owned = {} /\ ret = 0

SetHeap(bytes) ==
  /\ heap = 0
  /\ heap' = ((bytes + PageBytes - 1) \div PageBytes) * UnitsPerPage
  /\ UNCHANGED <<owned, ret>>

Grant(bytes) ==
  /\ heap # 0
  /\ \E p \in Room(UnitsFor(bytes)) :
       /\ owned' = owned \union {Region(p, UnitsFor(bytes))}
       /\ ret' = p * PageBytes
  /\ UNCHANGED heap

Refuse(bytes) ==
  /\ heap # 0
  /\ Room(UnitsFor(bytes)) = {}
  /\ ret' = NoMemoryError
  /\ UNCHANGED <<heap, owned>>

Release(o) ==
  /\ owned' = owned \ {o}
  /\ UNCHANGED <<heap, ret>>

Next ==
  \/ \E bytes \in HeapSizes : SetHeap(bytes)
  \/ \E bytes \in Requests : Grant(bytes) \/ Refuse(bytes)
  \/ \E o \in owned : Release(o)

Spec == Init /\ [][Next]_hvars
=============================================================================

-------------------------- MODULE BestFitAllocator --------------------------
(***************************************************************************)
(* The pmem heap manager of libgralloc: SimpleBestFitAllocator and the     *)
(* LinkedList<chunk_t> it keeps (allocator.h, allocator.cpp).              *)
(*                                                                         *)
(* Every public method runs under mLock, so at most one call is in         *)
(* progress; the variable pc says which one and how far it has come.  One  *)
(* step of the model is one iteration of a loop of the code, so that the   *)
(* loop invariants can be stated and proved.  Chunk starts and sizes are   *)
(* counted in units of kMemoryAlign bytes, as in the code; requests and    *)
(* offsets are in bytes.                                                   *)
(***************************************************************************)
EXTENDS Integers, Sequences, FiniteSets

CONSTANTS
  HeapSizes,  \* the sizes in bytes that setSize() may be called with
  Requests    \* the sizes in bytes that allocate() may be called with

\* init_pmem_area_locked() passes a positive heap size, and alloc_impl()
\* rejects a request of no bytes before it reaches the allocator.
ASSUME SizesAreBytes ==
  /\ HeapSizes \subseteq Nat \ {0}
  /\ Requests \subseteq Nat \ {0}

VARIABLES
  mHeapSize,  \* 0 until setSize()
  mList,      \* the chunks, in list order
  pc,         \* the call that holds mLock, and its loop
  size,       \* argument of alloc(), in units
  cur,        \* cur, as a position in mList
  free_chunk, \* free_chunk, as a position in mList, 0 for the null pointer
  start,      \* argument of dealloc(), in units
  held,       \* what the callers own: their offset and size, in units
  ret         \* result of the last allocate() that returned

vars == <<mHeapSize, mList, pc, size, cur, free_chunk, start, held, ret>>

-----------------------------------------------------------------------------

kMemoryAlign == 32

\* getpagesize() on the ARM target.
PageSize == 4096

PageUnits == PageSize \div kMemoryAlign

ENOMEM == -12

RoundUpToPage(bytes) == ((bytes + PageSize - 1) \div PageSize) * PageSize

Units(bytes) == (bytes + kMemoryAlign - 1) \div kMemoryAlign

Chunk == [start : Nat, size : Nat, free : {0, 1}]

NewChunk(s, n) == [start |-> s, size |-> n, free |-> 1]

\* LinkedList: a list of chunks is the sequence of its nodes.
InsertBefore(list, i, c) ==
  [j \in 1..(Len(list) + 1) |->
     IF j < i THEN list[j] ELSE IF j = i THEN c ELSE list[j - 1]]

InsertAfter(list, i, c) ==
  [j \in 1..(Len(list) + 1) |->
     IF j <= i THEN list[j] ELSE IF j = i + 1 THEN c ELSE list[j - 1]]

Remove(list, i) ==
  [j \in 1..(Len(list) - 1) |-> IF j < i THEN list[j] ELSE list[j + 1]]

\* -start & (PageUnits - 1): the units to skip to reach a page boundary.
Extra(s) == (-s) % PageUnits

\* Mutants: the skip is not counted; an exact fit is refused.
FitsWithoutExtra(c, n) == c.free = 1 /\ c.size >= n

FitsStrictly(c, n) == c.free = 1 /\ c.size > n + Extra(c.start)

\* The test of the best fit loop.
Fits(c, n) == c.free = 1 /\ c.size >= n + Extra(c.start)

-----------------------------------------------------------------------------

Init ==
  /\ mHeapSize = 0
  /\ mList = <<>>
  /\ pc = "idle"
  /\ size = 0
  /\ cur = 0
  /\ free_chunk = 0
  /\ start = 0
  /\ held = {}
  /\ ret = 0

\* setSize(); a second call returns -EINVAL and changes nothing.
SetSize(bytes) ==
  /\ pc = "idle"
  /\ mHeapSize = 0
  /\ mHeapSize' = RoundUpToPage(bytes)
  /\ mList' = <<NewChunk(0, RoundUpToPage(bytes) \div kMemoryAlign)>>
  /\ UNCHANGED <<pc, size, cur, free_chunk, start, held, ret>>

\* allocate() up to the loop of alloc().
Allocate(bytes) ==
  /\ pc = "idle"
  /\ mHeapSize # 0
  /\ pc' = "scan"
  /\ size' = Units(bytes)
  /\ cur' = 1
  /\ free_chunk' = 0
  /\ UNCHANGED <<mHeapSize, mList, start, held, ret>>

\* Mutant: the first chunk that fits is kept.
ScanFirstFit ==
  LET c == mList[cur] IN
  /\ pc = "scan"
  /\ cur <= Len(mList)
  /\ free_chunk' = IF Fits(c, size) /\ free_chunk = 0 THEN cur ELSE free_chunk
  /\ cur' = cur + 1
  /\ pc' = IF cur = Len(mList) THEN "carve" ELSE "scan"
  /\ UNCHANGED <<mHeapSize, mList, size, start, held, ret>>

\* One iteration of the best fit loop; an exact fit leaves the loop.
ScanChunk ==
  LET c == mList[cur]
      better == free_chunk = 0 \/ c.size < mList[free_chunk].size
  IN
  /\ pc = "scan"
  /\ cur <= Len(mList)
  /\ free_chunk' = IF Fits(c, size) /\ better THEN cur ELSE free_chunk
  /\ cur' = cur + 1
  /\ pc' = IF (Fits(c, size) /\ c.size = size) \/ cur = Len(mList)
             THEN "carve" ELSE "scan"
  /\ UNCHANGED <<mHeapSize, mList, size, start, held, ret>>

\* The chunk that alloc() hands out, and the list after it is carved out of
\* the free chunk f: free space before it, up to the page boundary, and free
\* space behind it.
Lead(f) == IF mList[f].size > size THEN Extra(mList[f].start) ELSE 0

Carved(f) ==
  [start |-> mList[f].start + Lead(f), size |-> size, free |-> 0]

WithLead(f) ==
  LET list == [mList EXCEPT ![f] = Carved(f)]
  IN IF Lead(f) > 0
       THEN InsertBefore(list, f, NewChunk(mList[f].start, Lead(f)))
       ELSE list

WithTail(f) ==
  LET at == IF Lead(f) > 0 THEN f + 1 ELSE f
      tail_free == mList[f].size - (size + Lead(f))
  IN IF tail_free > 0
       THEN InsertAfter(WithLead(f), at,
                        NewChunk(Carved(f).start + size, tail_free))
       ELSE WithLead(f)

\* The rest of alloc(): carve the chunk found, and return its offset.
CarveChunk ==
  /\ pc = "carve"
  /\ free_chunk # 0
  /\ mList' = WithTail(free_chunk)
  /\ held' = held \union {[start |-> Carved(free_chunk).start, size |-> size]}
  /\ ret' = Carved(free_chunk).start * kMemoryAlign
  /\ pc' = "idle"
  /\ UNCHANGED <<mHeapSize, size, cur, free_chunk, start>>

\* alloc() without a chunk that fits.
NoMemory ==
  /\ pc = "carve"
  /\ free_chunk = 0
  /\ ret' = ENOMEM
  /\ pc' = "idle"
  /\ UNCHANGED <<mHeapSize, mList, size, cur, free_chunk, start, held>>

\* deallocate() of an offset a caller owns, up to the loop of dealloc().
Deallocate(h) ==
  /\ pc = "idle"
  /\ pc' = "find"
  /\ held' = held \ {h}
  /\ start' = (h.start * kMemoryAlign) \div kMemoryAlign
  /\ cur' = 1
  /\ UNCHANGED <<mHeapSize, mList, size, free_chunk, ret>>

\* One iteration of the loop that looks the chunk up.  The list cannot end
\* before it is found (OwnedExactly), so that the code's -ENOENT is no action.
FindChunk ==
  /\ pc = "find"
  /\ cur <= Len(mList)
  /\ IF mList[cur].start = start
       THEN /\ mList' = [mList EXCEPT ![cur].free = 1]
            /\ pc' = "merge"
            /\ UNCHANGED cur
       ELSE /\ cur' = cur + 1
            /\ UNCHANGED <<mList, pc>>
  /\ UNCHANGED <<mHeapSize, size, free_chunk, start, held, ret>>

\* Mutants: the chunk is not merged into the one before it; the loop does not
\* go on to the next chunk.
MergeOnce ==
  /\ pc = "merge"
  /\ pc' = "idle"
  /\ UNCHANGED <<mHeapSize, mList, size, cur, free_chunk, start, held, ret>>

\* One iteration of the loop that merges free neighbours: the chunk at cur is
\* merged into the one before it, and the loop goes on with the next one as
\* long as that is free.
MergeChunk ==
  LET merge == cur > 1 /\ (mList[cur - 1].free = 1 \/ mList[cur].size = 0)
      list  == IF merge
                 THEN Remove([mList EXCEPT ![cur - 1].size =
                                                    @ + mList[cur].size], cur)
                 ELSE mList
      n     == IF merge THEN cur ELSE cur + 1
      more  == n <= Len(list) /\ list[n].free = 1
  IN
  /\ pc = "merge"
  /\ mList' = list
  /\ cur' = n
  /\ pc' = IF more THEN "merge" ELSE "idle"
  /\ UNCHANGED <<mHeapSize, size, free_chunk, start, held, ret>>

Next ==
  \/ \E bytes \in HeapSizes : SetSize(bytes)
  \/ \E bytes \in Requests : Allocate(bytes)
  \/ \E h \in held : Deallocate(h)
  \/ ScanChunk
  \/ CarveChunk
  \/ NoMemory
  \/ FindChunk
  \/ MergeChunk

Spec == Init /\ [][Next]_vars

\* A call that holds mLock runs its loops to the end.
FairSpec == Spec /\ WF_vars(ScanChunk \/ CarveChunk \/ NoMemory \/ FindChunk \/ MergeChunk)

-----------------------------------------------------------------------------

InUse == {[start |-> mList[i].start, size |-> mList[i].size] :
            i \in {j \in 1..Len(mList) : mList[j].free = 0}}

\* Every variable has the type of the field or local variable it stands for.
TypeOK ==
  /\ mHeapSize \in Nat
  /\ mList \in Seq(Chunk)
  /\ pc \in {"idle", "scan", "carve", "find", "merge"}
  /\ size \in Nat
  /\ cur \in Nat
  /\ free_chunk \in Nat
  /\ start \in Nat
  /\ held \subseteq [start : Nat, size : Nat]
  /\ ret \in Int

\* The chunks of the list tile the heap: each one starts where the one before
\* it ends, none is empty, and together they are the whole heap.  alloc() and
\* dealloc() neither lose nor duplicate memory when they split and merge.
Tiles ==
  mHeapSize # 0 =>
    /\ Len(mList) > 0
    /\ mList[1].start = 0
    /\ \A i \in 1..Len(mList) : mList[i].size > 0
    /\ \A i \in 1..(Len(mList) - 1) :
         mList[i + 1].start = mList[i].start + mList[i].size
    /\ mList[Len(mList)].start + mList[Len(mList)].size
         = mHeapSize \div kMemoryAlign

\* No two neighbours are both free, except next to the chunk that dealloc()
\* is merging: alloc() tests chunks one by one, so memory split over two free
\* neighbours would be lost to a request that needs both.
Coalesced ==
  \A i \in 1..(Len(mList) - 1) :
    mList[i].free = 1 /\ mList[i + 1].free = 1 =>
      pc = "merge" /\ cur \in {i, i + 1}

\* The chunks in use are the ones the callers own, and the one that a
\* deallocate() in progress has not found yet: dealloc() finds a chunk for
\* every offset that was handed out, never one that is already free (its
\* LOG_FATAL_IF), and frees no other caller's memory.
OwnedExactly ==
  IF pc = "find"
    THEN \E i \in cur..Len(mList) :
           /\ mList[i].start = start
           /\ InUse = held \union {[start |-> start, size |-> mList[i].size]}
           /\ [start |-> start, size |-> mList[i].size] \notin held
    ELSE InUse = held

\* Every offset handed out is on a page boundary, which PMEM_MAP needs, even
\* behind a chunk whose size is no multiple of a page.
PageAligned == \A h \in held : h.start % PageUnits = 0

\* When the loop of alloc() ends, free_chunk is the first of the smallest
\* chunks that fit, and it is null only if no chunk fits.
BestFit ==
  pc = "carve" =>
    LET fit == {i \in 1..Len(mList) : Fits(mList[i], size)}
    IN IF free_chunk = 0
         THEN fit = {}
         ELSE /\ free_chunk \in fit
              /\ \A i \in fit :
                   \/ mList[free_chunk].size < mList[i].size
                   \/ mList[free_chunk].size = mList[i].size /\ free_chunk <= i

\* What the allocator promises to PmemUserspaceAllocator: see PmemHeap.
Heap == INSTANCE PmemHeap WITH heap <- mHeapSize \div kMemoryAlign, owned <- InUse

\* Every call returns: the loops over the list end, the merge loop too, which
\* shortens the list it runs over.
CallsReturn == pc # "idle" ~> pc = "idle"

\* The list and its loops implement the abstract heap; in particular -ENOMEM
\* is only returned when no page boundary has enough free memory behind it.
\* And every call returns.
ImplementsHeap == Heap!Spec /\ CallsReturn
=============================================================================

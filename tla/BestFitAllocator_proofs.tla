---------------------- MODULE BestFitAllocator_proofs ----------------------
(***************************************************************************)
(* The safety properties of BestFitAllocator for every heap size and every *)
(* set of requests.                                                        *)
(*                                                                         *)
(* The list must be a tiling of the heap after every insertion, removal    *)
(* and merge.  The invariant adds to the properties that chunks are        *)
(* ordered pairwise (so that no step needs an induction over the list),    *)
(* where a call in progress stands, and what the scan of alloc() has found *)
(* so far.  CarveList, the core of the argument, reduces the two           *)
(* insertions of alloc() to splits of one chunk in two.                    *)
(*                                                                         *)
(* HeapImplemented, at the end, is the refinement of PmemHeap.  The        *)
(* regions in use are known before and after each step from OwnedExactly,  *)
(* so only the two ends of alloc() take an argument: that the region it    *)
(* carves is within the heap and apart from the others, and that an        *)
(* allocator without a chunk that fits has no room at any page.            *)
(***************************************************************************)
EXTENDS BestFitAllocator, TLAPS, WellFoundedInduction

\* A function on 1..n is a sequence of length n.
LEMMA FunctionIsSeq ==
  ASSUME NEW S, NEW n \in Nat, NEW f \in [1..n -> S]
  PROVE  f \in Seq(S) /\ Len(f) = n
  OBVIOUS

\* LinkedList::insertBefore() as a list with one more chunk.
LEMMA InsertBeforeSeq ==
  ASSUME NEW list \in Seq(Chunk), NEW i \in 1..Len(list), NEW c \in Chunk
  PROVE  /\ InsertBefore(list, i, c) \in Seq(Chunk)
         /\ Len(InsertBefore(list, i, c)) = Len(list) + 1
         /\ \A j \in 1..(Len(list) + 1) : InsertBefore(list, i, c)[j] =
              IF j < i THEN list[j] ELSE IF j = i THEN c ELSE list[j - 1]
  <1>1. InsertBefore(list, i, c) \in [1..(Len(list) + 1) -> Chunk]
    BY DEF InsertBefore
  <1>2. Len(list) + 1 \in Nat
    OBVIOUS
  <1>3. /\ InsertBefore(list, i, c) \in Seq(Chunk)
        /\ Len(InsertBefore(list, i, c)) = Len(list) + 1
    BY <1>1, <1>2, FunctionIsSeq
  <1> QED
    BY <1>3 DEF InsertBefore

\* LinkedList::insertAfter() as a list with one more chunk.
LEMMA InsertAfterSeq ==
  ASSUME NEW list \in Seq(Chunk), NEW i \in 1..Len(list), NEW c \in Chunk
  PROVE  /\ InsertAfter(list, i, c) \in Seq(Chunk)
         /\ Len(InsertAfter(list, i, c)) = Len(list) + 1
         /\ \A j \in 1..(Len(list) + 1) : InsertAfter(list, i, c)[j] =
              IF j <= i THEN list[j] ELSE IF j = i + 1 THEN c ELSE list[j - 1]
  <1>1. InsertAfter(list, i, c) \in [1..(Len(list) + 1) -> Chunk]
    BY DEF InsertAfter
  <1>2. Len(list) + 1 \in Nat
    OBVIOUS
  <1>3. /\ InsertAfter(list, i, c) \in Seq(Chunk)
        /\ Len(InsertAfter(list, i, c)) = Len(list) + 1
    BY <1>1, <1>2, FunctionIsSeq
  <1> QED
    BY <1>3 DEF InsertAfter

\* LinkedList::remove() as a list with one chunk less.
LEMMA RemoveSeq ==
  ASSUME NEW list \in Seq(Chunk), NEW i \in 1..Len(list)
  PROVE  /\ Remove(list, i) \in Seq(Chunk)
         /\ Len(Remove(list, i)) = Len(list) - 1
         /\ \A j \in 1..(Len(list) - 1) :
              Remove(list, i)[j] = IF j < i THEN list[j] ELSE list[j + 1]
  <1>1. Remove(list, i) \in [1..(Len(list) - 1) -> Chunk]
    BY DEF Remove
  <1>2. Len(list) - 1 \in Nat
    OBVIOUS
  <1>3. /\ Remove(list, i) \in Seq(Chunk)
        /\ Len(Remove(list, i)) = Len(list) - 1
    BY <1>1, <1>2, FunctionIsSeq
  <1> QED
    BY <1>3 DEF Remove

-----------------------------------------------------------------------------
(* The inductive invariant.                                                *)

\* The part of Tiles that speaks of neighbours, for all pairs of chunks: each
\* one ends before every later one starts.  It follows from Tiles by induction
\* on the list; as part of the invariant it needs no induction.
Ordered ==
  \A i, j \in 1..Len(mList) :
    i < j => mList[i].start + mList[i].size <= mList[j].start

\* Where a call in progress has come to.
Control ==
  /\ mHeapSize % PageSize = 0
  /\ mHeapSize = 0 => mList = <<>> /\ held = {} /\ pc = "idle"
  /\ pc \in {"scan", "find", "merge"} => cur \in 1..Len(mList)
  /\ pc \in {"scan", "carve"} => size > 0
  /\ pc = "merge" => mList[cur].free = 1

\* i is a better choice than j: smaller, or as large and found earlier.
Better(i, j) ==
  \/ mList[i].size < mList[j].size
  \/ mList[i].size = mList[j].size /\ i <= j

\* The invariant of the loop of alloc(): free_chunk is the best of the chunks
\* before cur, and none of them fits exactly.
ScanInv ==
  pc = "scan" =>
    /\ free_chunk = 0 => \A i \in 1..(cur - 1) : ~ Fits(mList[i], size)
    /\ free_chunk # 0 =>
         /\ free_chunk \in 1..(cur - 1)
         /\ Fits(mList[free_chunk], size)
         /\ \A i \in 1..(cur - 1) :
              Fits(mList[i], size) =>
                Better(free_chunk, i) /\ mList[i].size # size

\* The inductive invariant.
IInv ==
  /\ TypeOK
  /\ Tiles
  /\ Ordered
  /\ Coalesced
  /\ OwnedExactly
  /\ PageAligned
  /\ Control
  /\ ScanInv
  /\ BestFit

-----------------------------------------------------------------------------
(* Facts on units, pages and sequences.                                    *)

\* RoundUpToPage() and kMemoryAlign: a heap of whole pages has whole units.
LEMMA PageFacts ==
  ASSUME NEW bytes \in Nat \ {0}
  PROVE  /\ RoundUpToPage(bytes) \in Nat \ {0}
         /\ RoundUpToPage(bytes) % PageSize = 0
         /\ RoundUpToPage(bytes) \div kMemoryAlign \in Nat \ {0}
         /\ Units(bytes) \in Nat \ {0}
  BY DEF RoundUpToPage, PageSize, kMemoryAlign, Units

\* Extra() is what a chunk start lacks to the next page boundary.
LEMMA ExtraFacts ==
  ASSUME NEW s \in Nat
  PROVE  /\ Extra(s) \in Nat
         /\ (s + Extra(s)) % PageUnits = 0
         /\ Extra(s) = 0 => s % PageUnits = 0
  BY DEF Extra, PageUnits, PageSize, kMemoryAlign

\* An offset in bytes converted back to units, as dealloc() does it.
LEMMA UnitsRoundTrip ==
  ASSUME NEW s \in Nat
  PROVE  (s * kMemoryAlign) \div kMemoryAlign = s
  BY DEF kMemoryAlign

-----------------------------------------------------------------------------
(* The initial states, and the steps that do not change the list.          *)

\* The allocator before setSize().
LEMMA InitInv == Init => IInv
  <1> SUFFICES ASSUME Init PROVE IInv
    OBVIOUS
  <1>1. InUse = {}
    BY DEF Init, InUse
  <1>2. TypeOK /\ Ordered
    BY DEF Init, TypeOK, Ordered
  <1>3. OwnedExactly
    BY <1>1 DEF Init, OwnedExactly
  <1>4. Control
    BY DEF Init, Control, PageSize
  <1> QED
    BY <1>2, <1>3, <1>4
    DEF Init, IInv, Tiles, Coalesced, PageAligned, ScanInv, BestFit

\* A step that leaves the allocator alone.
LEMMA StutterInv ==
  ASSUME IInv, UNCHANGED vars
  PROVE  IInv'
  <1>1. InUse' = InUse
    BY DEF vars, InUse
  <1>2. TypeOK' /\ Tiles' /\ Ordered' /\ Coalesced' /\ PageAligned' /\ Control'
    BY DEF IInv, vars, TypeOK, Tiles, Ordered, Coalesced, PageAligned, Control
  <1>3. OwnedExactly'
    BY <1>1 DEF IInv, vars, OwnedExactly
  <1>4. ScanInv' /\ BestFit'
    BY DEF IInv, vars, ScanInv, BestFit, Better
  <1> QED
    BY <1>2, <1>3, <1>4 DEF IInv

\* allocate() is called.
LEMMA AllocateInv ==
  ASSUME IInv, NEW bytes \in Requests, Allocate(bytes)
  PROVE  IInv'
  <1>1. Units(bytes) \in Nat \ {0}
    BY SizesAreBytes, PageFacts
  <1>2. TypeOK'
    BY <1>1 DEF IInv, TypeOK, Allocate
  <1>3. Tiles' /\ Ordered' /\ Coalesced' /\ PageAligned'
    BY DEF IInv, Allocate, Tiles, Ordered, Coalesced, PageAligned
  <1>4. OwnedExactly'
    BY DEF IInv, Allocate, OwnedExactly, InUse
  <1>5. Control'
    BY <1>1 DEF IInv, Allocate, Control, Tiles, TypeOK
  <1>6. ScanInv' /\ BestFit'
    BY DEF Allocate, ScanInv, BestFit
  <1> QED
    BY <1>2, <1>3, <1>4, <1>5, <1>6 DEF IInv

\* The scan of alloc() ends without a chunk that fits.
LEMMA NoMemoryInv ==
  ASSUME IInv, NoMemory
  PROVE  IInv'
  <1>1. TypeOK'
    BY DEF IInv, TypeOK, NoMemory, ENOMEM
  <1>2. Tiles' /\ Ordered' /\ Coalesced' /\ PageAligned'
    BY DEF IInv, NoMemory, Tiles, Ordered, Coalesced, PageAligned
  <1>3. OwnedExactly'
    BY DEF IInv, NoMemory, OwnedExactly, InUse
  <1>4. Control' /\ ScanInv' /\ BestFit'
    BY DEF IInv, NoMemory, Control, ScanInv, BestFit
  <1> QED
    BY <1>1, <1>2, <1>3, <1>4 DEF IInv

\* deallocate() is called.
LEMMA DeallocateInv ==
  ASSUME IInv, NEW h \in held, Deallocate(h)
  PROVE  IInv'
  <1>1. h \in [start : Nat, size : Nat]
    BY DEF IInv, TypeOK
  <1>2. start' = h.start
    BY <1>1, UnitsRoundTrip DEF Deallocate
  <1>3. TypeOK'
    BY <1>1, <1>2 DEF IInv, TypeOK, Deallocate
  <1>4. Tiles' /\ Ordered' /\ Coalesced' /\ PageAligned'
    BY DEF IInv, Deallocate, Tiles, Ordered, Coalesced, PageAligned
  <1>5. OwnedExactly'
    <2>1. InUse = held
      BY DEF IInv, Deallocate, OwnedExactly
    <2>2. PICK i \in 1..Len(mList) :
             h = [start |-> mList[i].start, size |-> mList[i].size]
      BY <2>1 DEF InUse
    <2>3. h = [start |-> start', size |-> mList'[i].size]
      BY <1>1, <1>2, <2>2 DEF Deallocate
    <2>4. i \in cur'..Len(mList') /\ mList'[i].start = start'
      BY <1>2, <2>2 DEF Deallocate, IInv, TypeOK
    <2>5. InUse' = held' \union {h} /\ h \notin held'
      BY <2>1 DEF Deallocate, InUse
    <2>6. pc' = "find"
      BY DEF Deallocate
    <2> QED
      BY <2>3, <2>4, <2>5, <2>6 DEF OwnedExactly
  <1>6. Control'
    BY DEF IInv, Deallocate, Control, Tiles, TypeOK
  <1>7. ScanInv' /\ BestFit'
    BY DEF Deallocate, ScanInv, BestFit
  <1> QED
    BY <1>3, <1>4, <1>5, <1>6, <1>7 DEF IInv

-----------------------------------------------------------------------------
(* The steps that change the list, or search it.                           *)

\* setSize() makes the heap one free chunk.
LEMMA SetSizeInv ==
  ASSUME IInv, NEW bytes \in HeapSizes, SetSize(bytes)
  PROVE  IInv'
  <1> DEFINE n == RoundUpToPage(bytes) \div kMemoryAlign
  <1>1. /\ RoundUpToPage(bytes) \in Nat \ {0}
        /\ RoundUpToPage(bytes) % PageSize = 0
        /\ n \in Nat \ {0}
    BY SizesAreBytes, PageFacts
  <1> HIDE DEF n
  <1>2. /\ mHeapSize' = RoundUpToPage(bytes)
        /\ mHeapSize' \div kMemoryAlign = n
        /\ mList' = <<[start |-> 0, size |-> n, free |-> 1]>>
    BY DEF SetSize, NewChunk, n
  <1>3. Len(mList') = 1 /\ mList'[1] = [start |-> 0, size |-> n, free |-> 1]
    BY <1>2
  <1>4. mList' \in Seq(Chunk)
    BY <1>1, <1>2 DEF Chunk
  <1>5. TypeOK'
    BY <1>1, <1>2, <1>4 DEF IInv, TypeOK, SetSize
  <1>6. Tiles' /\ Ordered' /\ Coalesced'
    BY <1>1, <1>2, <1>3 DEF Tiles, Ordered, Coalesced
  <1>7. pc = "idle" /\ pc' = "idle" /\ held = {} /\ held' = {}
    BY DEF IInv, SetSize, Control
  <1>8. OwnedExactly'
    <2>1. InUse' = {}
      BY <1>3 DEF InUse
    <2> QED
      BY <2>1, <1>7 DEF OwnedExactly
  <1>9. PageAligned' /\ ScanInv' /\ BestFit'
    BY <1>7 DEF PageAligned, ScanInv, BestFit
  <1>10. Control'
    BY <1>1, <1>2, <1>7 DEF Control
  <1> QED
    BY <1>5, <1>6, <1>8, <1>9, <1>10 DEF IInv

\* A chunk that fits is at least as large as the request.
LEMMA FitsFacts ==
  ASSUME NEW c \in Chunk, NEW n \in Nat, Fits(c, n)
  PROVE  /\ c.free = 1
         /\ c.size >= n
         /\ c.size = n => Extra(c.start) = 0
         /\ c.size >= n + Extra(c.start)
         /\ Extra(c.start) \in Nat
  BY ExtraFacts DEF Fits, Chunk

\* One iteration of the scan of alloc().
LEMMA ScanChunkInv ==
  ASSUME IInv, ScanChunk
  PROVE  IInv'
  <1>1. /\ pc = "scan"
        /\ cur \in 1..Len(mList)
        /\ Len(mList) \in Nat
        /\ size \in Nat
        /\ free_chunk \in Nat
        /\ \A i \in 1..Len(mList) : mList[i] \in Chunk
        /\ mList' = mList /\ size' = size
        /\ cur' = cur + 1
    BY DEF IInv, TypeOK, Control, ScanChunk
  <1>2. TypeOK'
    BY <1>1 DEF IInv, TypeOK, ScanChunk
  <1>3. Tiles' /\ Ordered' /\ PageAligned'
    BY DEF IInv, ScanChunk, Tiles, Ordered, PageAligned
  <1>4. Coalesced'
    BY DEF IInv, ScanChunk, Coalesced
  <1>5. OwnedExactly'
    BY DEF IInv, ScanChunk, OwnedExactly, InUse
  <1>6. Control'
    BY <1>1 DEF IInv, ScanChunk, Control
  <1> DEFINE Fit(i) == Fits(mList[i], size)
  <1>7. /\ free_chunk' \in 0..cur
        /\ free_chunk' = 0 => \A i \in 1..cur : ~ Fit(i)
        /\ free_chunk' # 0 => /\ Fit(free_chunk')
                              /\ \A i \in 1..cur :
                                   Fit(i) => Better(free_chunk', i)
    <2>1. /\ free_chunk = 0 => \A i \in 1..(cur - 1) : ~ Fit(i)
          /\ free_chunk # 0 =>
               /\ free_chunk \in 1..(cur - 1)
               /\ Fit(free_chunk)
               /\ \A i \in 1..(cur - 1) : Fit(i) => Better(free_chunk, i)
      BY <1>1 DEF IInv, ScanInv
    <2>2. \A i \in 1..Len(mList) : mList[i].size \in Nat
      BY <1>1 DEF Chunk
    <2>3. CASE Fit(cur) /\ (free_chunk = 0 \/ mList[cur].size < mList[free_chunk].size)
      <3>1. free_chunk' = cur
        BY <2>3 DEF ScanChunk
      <3>2. ASSUME NEW i \in 1..cur, Fit(i) PROVE Better(cur, i)
        BY <3>2, <2>1, <2>2, <2>3, <1>1 DEF Better
      <3> QED
        BY <3>1, <3>2, <2>3, <1>1
    <2>4. CASE ~ (Fit(cur) /\ (free_chunk = 0 \/ mList[cur].size < mList[free_chunk].size))
      <3>1. free_chunk' = free_chunk
        BY <2>4 DEF ScanChunk
      <3>2. ASSUME NEW i \in 1..cur, Fit(i), free_chunk # 0 PROVE Better(free_chunk, i)
        BY <3>2, <2>1, <2>2, <2>4, <1>1 DEF Better
      <3> QED
        BY <3>1, <3>2, <2>1, <2>4, <1>1
    <2> QED
      BY <2>3, <2>4
  <1> DEFINE exact == Fit(cur) /\ mList[cur].size = size
  <1>8. CASE exact
    <2>1. pc' = "carve"
      BY <1>8 DEF ScanChunk
    <2>2. free_chunk' = cur
      <3>1. free_chunk # 0 => mList[cur].size < mList[free_chunk].size
        <4> SUFFICES ASSUME free_chunk # 0
                     PROVE  mList[cur].size < mList[free_chunk].size
          OBVIOUS
        <4>1. /\ free_chunk \in 1..(cur - 1) /\ Fit(free_chunk)
              /\ mList[free_chunk].size # size
          BY <1>1 DEF IInv, ScanInv
        <4>2. mList[free_chunk] \in Chunk /\ mList[free_chunk].size \in Nat
          BY <4>1, <1>1 DEF Chunk
        <4>3. mList[free_chunk].size >= size
          BY <4>1, <4>2, <1>1, FitsFacts
        <4> QED
          BY <4>1, <4>2, <4>3, <1>1, <1>8
      <3> QED
        BY <3>1, <1>8 DEF ScanChunk
    <2>3. \A i \in 1..Len(mList) : Fit(i) => Better(cur, i)
      <3> SUFFICES ASSUME NEW i \in 1..Len(mList), Fit(i) PROVE Better(cur, i)
        OBVIOUS
      <3>1. mList[i] \in Chunk /\ mList[i].size \in Nat /\ mList[i].size >= size
        BY <1>1, FitsFacts DEF Chunk
      <3>2. CASE i <= cur
        BY <3>2, <1>7, <2>2, <1>1
      <3>3. CASE i > cur
        BY <3>1, <3>3, <1>8, <1>1 DEF Better
      <3> QED
        BY <3>2, <3>3, <1>1
    <2>4. BestFit'
      BY <2>2, <2>3, <1>8, <1>1 DEF BestFit, Better
    <2>5. ScanInv'
      BY <2>1 DEF ScanInv
    <2> QED
      BY <2>4, <2>5, <1>2, <1>3, <1>4, <1>5, <1>6 DEF IInv
  <1>9. CASE ~ exact
    <2>1. BestFit'
      <3>1. pc' = "carve" => cur = Len(mList)
        BY <1>9 DEF ScanChunk
      <3> QED
        BY <3>1, <1>7, <1>1 DEF BestFit, Better
    <2>2. ScanInv'
      <3> SUFFICES ASSUME pc' = "scan" PROVE ScanInv'
        BY DEF ScanInv
      <3>1. \A i \in 1..cur : Fit(i) => mList[i].size # size
        <4> SUFFICES ASSUME NEW i \in 1..cur, Fit(i) PROVE mList[i].size # size
          OBVIOUS
        <4>1. CASE i = cur
          BY <4>1, <1>9
        <4>2. CASE i < cur
          <5>1. i \in 1..(cur - 1)
            BY <4>2, <1>1
          <5> QED
            BY <5>1, <1>1 DEF IInv, ScanInv
        <4> QED
          BY <4>1, <4>2, <1>1
      <3>2. cur' - 1 = cur
        BY <1>1
      <3> QED
        BY <3>1, <3>2, <1>7, <1>1 DEF ScanInv, Better
    <2> QED
      BY <2>1, <2>2, <1>2, <1>3, <1>4, <1>5, <1>6 DEF IInv
  <1> QED
    BY <1>8, <1>9

\* A list with one chunk replaced.
LEMMA SeqExceptIsSeq ==
  ASSUME NEW list \in Seq(Chunk), NEW i \in 1..Len(list), NEW c \in Chunk
  PROVE  /\ [list EXCEPT ![i] = c] \in Seq(Chunk)
         /\ Len([list EXCEPT ![i] = c]) = Len(list)
         /\ \A j \in 1..Len(list) :
              [list EXCEPT ![i] = c][j] = IF j = i THEN c ELSE list[j]
  OBVIOUS

\* Two chunks of the list do not start at the same place.
LEMMA StartsDiffer ==
  ASSUME IInv, NEW i \in 1..Len(mList), NEW j \in 1..Len(mList),
         mList[i].start = mList[j].start
  PROVE  i = j
  <1>1. mHeapSize # 0
    BY DEF IInv, Control
  <1>2. \A k \in 1..Len(mList) :
          mList[k].size \in Nat \ {0} /\ mList[k].start \in Nat
    <2>1. \A k \in 1..Len(mList) : mList[k] \in Chunk
      BY DEF IInv, TypeOK
    <2>2. \A k \in 1..Len(mList) : mList[k].size > 0
      BY <1>1 DEF IInv, Tiles
    <2> QED
      BY <2>1, <2>2 DEF Chunk
  <1>3. \A k, l \in 1..Len(mList) :
          k < l => mList[k].start + mList[k].size <= mList[l].start
    BY DEF IInv, Ordered
  <1>4. CASE i < j
    <2>1. mList[i].start + mList[i].size <= mList[j].start
      BY <1>3, <1>4
    <2> QED
      BY <2>1, <1>2
  <1>5. CASE j < i
    <2>1. mList[j].start + mList[j].size <= mList[i].start
      BY <1>3, <1>5
    <2> QED
      BY <2>1, <1>2
  <1>6. i \in Int /\ j \in Int
    OBVIOUS
  <1> QED
    BY <1>4, <1>5, <1>6

\* One iteration of the search of dealloc().
LEMMA FindChunkInv ==
  ASSUME IInv, FindChunk
  PROVE  IInv'
  <1>1. /\ pc = "find"
        /\ cur \in 1..Len(mList)
        /\ mList \in Seq(Chunk)
        /\ Len(mList) \in Nat
        /\ \A i \in 1..Len(mList) : mList[i] \in Chunk
        /\ mHeapSize # 0
    BY DEF IInv, TypeOK, Control, FindChunk
  <1>2. PICK w \in cur..Len(mList) :
          /\ mList[w].start = start
          /\ InUse = held \union {[start |-> start, size |-> mList[w].size]}
          /\ [start |-> start, size |-> mList[w].size] \notin held
    BY <1>1 DEF IInv, OwnedExactly
  <1>3. PageAligned' /\ ScanInv' /\ BestFit'
    BY DEF IInv, FindChunk, PageAligned, ScanInv, BestFit
  <1>4. CASE mList[cur].start # start
    <2>1. /\ mList' = mList /\ pc' = "find" /\ held' = held /\ start' = start
          /\ mHeapSize' = mHeapSize /\ cur' = cur + 1
      BY <1>1, <1>4 DEF FindChunk
    <2>2. w \in cur'..Len(mList')
      BY <1>1, <1>2, <1>4, <2>1
    <2>3. TypeOK'
      BY <2>1 DEF IInv, TypeOK, FindChunk
    <2>4. Tiles' /\ Ordered' /\ Coalesced'
      BY <2>1, <1>1 DEF IInv, Tiles, Ordered, Coalesced
    <2>5. OwnedExactly'
      <3>1. InUse' = InUse
        BY <2>1 DEF InUse
      <3> QED
        BY <3>1, <2>1, <2>2, <1>2 DEF OwnedExactly
    <2>6. Control'
      BY <2>1, <2>2, <1>1 DEF IInv, Control, FindChunk
    <2> QED
      BY <2>3, <2>4, <2>5, <2>6, <1>3 DEF IInv
  <1>5. CASE mList[cur].start = start
    <2> DEFINE c == [mList[cur] EXCEPT !.free = 1]
    <2>1. /\ mList' = [mList EXCEPT ![cur] = c]
          /\ pc' = "merge" /\ held' = held /\ cur' = cur
          /\ mHeapSize' = mHeapSize
      BY <1>1, <1>5 DEF FindChunk
    <2>2. /\ c \in Chunk /\ c.free = 1
          /\ c.start = mList[cur].start /\ c.size = mList[cur].size
      <3>1. mList[cur] \in Chunk
        BY <1>1
      <3> QED
        BY <3>1 DEF Chunk
    <2> HIDE DEF c
    <2>3. /\ mList' \in Seq(Chunk)
          /\ Len(mList') = Len(mList)
          /\ \A j \in 1..Len(mList) :
               mList'[j] = IF j = cur THEN c ELSE mList[j]
      BY <2>1, <2>2, <1>1, SeqExceptIsSeq
    <2>4. TypeOK'
      BY <2>1, <2>3 DEF IInv, TypeOK, FindChunk
    <2>5. \A j \in 1..Len(mList) : /\ mList'[j].start = mList[j].start
                                   /\ mList'[j].size = mList[j].size
      BY <2>2, <2>3
    <2>6. Tiles'
      <3>1. \A i \in 1..(Len(mList) - 1) : i \in 1..Len(mList) /\ i + 1 \in 1..Len(mList)
        BY <1>1
      <3>2. Len(mList) \in 1..Len(mList) /\ 1 \in 1..Len(mList)
        BY <1>1
      <3> QED
        BY <3>1, <3>2, <2>1, <2>3, <2>5, <1>1 DEF IInv, Tiles
    <2>7. Ordered'
      BY <2>3, <2>5 DEF IInv, Ordered
    <2>8. Coalesced'
      BY <2>1, <2>3, <1>1 DEF IInv, Coalesced
    <2>9. OwnedExactly'
      <3>1. w = cur
        BY <1>1, <1>2, <1>5, StartsDiffer
      <3> DEFINE h == [start |-> start, size |-> mList[cur].size]
                 Use(i) == [start |-> mList[i].start, size |-> mList[i].size]
      <3>2. InUse = {Use(i) : i \in {j \in 1..Len(mList) : mList[j].free = 0}}
        BY DEF InUse
      <3>3. InUse' = {Use(i) : i \in {j \in 1..Len(mList) :
                                         j # cur /\ mList[j].free = 0}}
        BY <2>2, <2>3, <2>5 DEF InUse
      <3>4. \A i \in 1..Len(mList) : i # cur => Use(i) # h
        BY <1>1, <1>5, StartsDiffer
      <3>5. Use(cur) = h
        BY <1>5
      <3>6. InUse' = InUse \ {h}
        BY <3>2, <3>3, <3>4, <3>5
      <3>7. InUse' = held
        BY <3>6, <3>1, <1>2
      <3> QED
        BY <3>7, <2>1 DEF OwnedExactly
    <2>10. Control'
      BY <2>1, <2>2, <2>3, <1>1 DEF IInv, Control
    <2> QED
      BY <2>4, <2>6, <2>7, <2>8, <2>9, <2>10, <1>3 DEF IInv
  <1> QED
    BY <1>4, <1>5

\* A chunk merged with its predecessor ends where it ended before.
LEMMA MergedEnd ==
  ASSUME NEW a \in Nat, NEW b \in Nat, NEW c \in Nat, NEW d \in Nat, NEW s,
         s = a + b, s + c <= d
  PROVE  a + (b + c) <= d
  OBVIOUS

LEMMA SumAssociative ==
  ASSUME NEW a \in Nat, NEW b \in Nat, NEW c \in Nat
  PROVE  (a + b) + c = a + (b + c)
  OBVIOUS

\* One iteration of the merging loop of dealloc().
LEMMA MergeChunkInv ==
  ASSUME IInv, MergeChunk
  PROVE  IInv'
  <1> DEFINE L == Len(mList)
  <1>1. /\ pc = "merge"
        /\ cur \in 1..L
        /\ mList \in Seq(Chunk)
        /\ L \in Nat
        /\ \A i \in 1..L : mList[i] \in Chunk
        /\ mHeapSize # 0
        /\ mList[cur].free = 1
        /\ mHeapSize' = mHeapSize /\ held' = held
    BY DEF IInv, TypeOK, Control, MergeChunk
  <1>2. /\ \A i \in 1..L : mList[i].size \in Nat \ {0} /\ mList[i].start \in Nat
        /\ \A i \in 1..(L - 1) : mList[i + 1].start = mList[i].start + mList[i].size
        /\ mList[1].start = 0
        /\ mList[L].start + mList[L].size = mHeapSize \div kMemoryAlign
    <2>1. \A i \in 1..L : mList[i].size > 0
      BY <1>1 DEF IInv, Tiles
    <2> QED
      BY <2>1, <1>1, SMTT(30) DEF IInv, Tiles, Chunk
  <1>3. \A i, j \in 1..L : i < j => mList[i].start + mList[i].size <= mList[j].start
    BY DEF IInv, Ordered
  <1>4. \A i \in 1..(L - 1) :
          mList[i].free = 1 /\ mList[i + 1].free = 1 => cur \in {i, i + 1}
    BY DEF IInv, Coalesced
  <1>5. InUse = held
    BY <1>1 DEF IInv, OwnedExactly
  <1>6. PageAligned'
    BY <1>1 DEF IInv, PageAligned
  <1>7. pc' \in {"merge", "idle"}
    BY DEF MergeChunk
  <1>8. ScanInv' /\ BestFit'
    BY <1>7 DEF ScanInv, BestFit
  <1>9. CASE cur > 1 /\ mList[cur - 1].free = 1
    <2> DEFINE c == [mList[cur - 1] EXCEPT !.size = mList[cur - 1].size + mList[cur].size]
               d == [mList EXCEPT ![cur - 1] = c]
    <2>1. cur - 1 \in 1..L
      BY <1>1, <1>9
    <2>2. /\ c \in Chunk /\ c.free = 1 /\ c.start = mList[cur - 1].start
          /\ c.size = mList[cur - 1].size + mList[cur].size
      <3>1. mList[cur - 1] \in Chunk /\ mList[cur - 1].size + mList[cur].size \in Nat
        BY <2>1, <1>1, <1>2
      <3> QED
        BY <3>1, <1>9 DEF Chunk
    <2>3. /\ mList' = Remove(d, cur)
          /\ cur' = cur
          /\ pc' = IF cur <= Len(mList') /\ mList'[cur].free = 1
                     THEN "merge" ELSE "idle"
      BY <1>9 DEF MergeChunk
    <2> HIDE DEF c
    <2>4. /\ d \in Seq(Chunk) /\ Len(d) = L
          /\ \A j \in 1..L : d[j] = IF j = cur - 1 THEN c ELSE mList[j]
      BY <2>1, <2>2, <1>1, SeqExceptIsSeq
    <2> HIDE DEF d
    <2>5. /\ mList' \in Seq(Chunk)
          /\ Len(mList') = L - 1
          /\ \A j \in 1..(L - 1) :
               mList'[j] = IF j < cur THEN d[j] ELSE d[j + 1]
      <3>1. cur \in 1..Len(d)
        BY <2>4, <1>1
      <3>2. /\ Remove(d, cur) \in Seq(Chunk)
            /\ Len(Remove(d, cur)) = Len(d) - 1
            /\ \A j \in 1..(Len(d) - 1) :
                 Remove(d, cur)[j] = IF j < cur THEN d[j] ELSE d[j + 1]
        BY <2>4, <3>1, RemoveSeq, Zenon
      <3> QED
        BY <2>3, <2>4, <3>2, Zenon
    <2>6. /\ \A j \in 1..(L - 1) : j < cur - 1 => mList'[j] = mList[j]
          /\ mList'[cur - 1] = c
          /\ \A j \in 1..(L - 1) : j > cur - 1 => mList'[j] = mList[j + 1]
      <3>1. ASSUME NEW j \in 1..(L - 1), j < cur - 1 PROVE mList'[j] = mList[j]
        BY <3>1, <2>4, <2>5, <1>1
      <3>2. mList'[cur - 1] = c
        BY <2>1, <2>4, <2>5, <1>1, <1>9
      <3>3. ASSUME NEW j \in 1..(L - 1), j > cur - 1 PROVE mList'[j] = mList[j + 1]
        <4>1. j + 1 \in 1..L /\ ~ (j < cur) /\ j + 1 # cur - 1
          BY <3>3, <1>1
        <4> QED
          BY <4>1, <2>4, <2>5
      <3> QED
        BY <3>1, <3>2, <3>3
    <2>7. TypeOK'
      BY <2>3, <2>5 DEF IInv, TypeOK, MergeChunk
    <2>8. Ordered'
      <3> SUFFICES ASSUME NEW i \in 1..(L - 1), NEW j \in 1..(L - 1), i < j
                   PROVE  mList'[i].start + mList'[i].size <= mList'[j].start
        BY <2>5 DEF Ordered
      <3>1. mList[cur].start = mList[cur - 1].start + mList[cur - 1].size
        BY <2>1, <1>1, <1>2
      <3>2. i \in 1..L /\ j \in 1..L /\ i + 1 \in 1..L /\ j + 1 \in 1..L
        BY <1>1
      <3>3. CASE i < cur - 1
        <4>1. mList'[i] = mList[i]
          BY <3>3, <2>6
        <4>2. mList'[j].start = mList[IF j <= cur - 1 THEN j ELSE j + 1].start
          BY <2>2, <2>6, <1>1
        <4>3. (IF j <= cur - 1 THEN j ELSE j + 1) \in 1..L
              /\ i < (IF j <= cur - 1 THEN j ELSE j + 1)
          BY <3>2, <1>1
        <4> QED
          BY <4>1, <4>2, <4>3, <3>2, <1>3
      <3>4. CASE i = cur - 1
        <4>1. /\ mList'[i] = c
              /\ mList'[j] = mList[j + 1] /\ cur < j + 1
          BY <3>2, <3>4, <2>6, <1>1
        <4>2. mList[cur].start + mList[cur].size <= mList[j + 1].start
          BY <4>1, <3>2, <1>1, <1>3
        <4>3. /\ mList[cur - 1].start \in Nat /\ mList[cur - 1].size \in Nat
              /\ mList[cur].size \in Nat /\ mList[j + 1].start \in Nat
          BY <3>2, <2>1, <1>1, <1>2
        <4>4. /\ mList'[i].start = mList[cur - 1].start
              /\ mList'[i].size = mList[cur - 1].size + mList[cur].size
          BY <4>1, <2>2
        <4>5. mList[cur - 1].start + (mList[cur - 1].size + mList[cur].size)
                <= mList[j + 1].start
          BY <4>2, <4>3, <3>1, MergedEnd, Zenon
        <4>6. mList'[j].start = mList[j + 1].start
          BY <4>1
        <4> QED
          BY <4>4, <4>5, <4>6
      <3>5. CASE i > cur - 1
        <4> i > cur - 1 /\ j > cur - 1
          BY <3>5, <1>1
        <4>1. mList'[i] = mList[i + 1] /\ mList'[j] = mList[j + 1]
          BY <2>6, Zenon
        <4>2. i + 1 < j + 1
          OBVIOUS
        <4>3. mList[i + 1].start + mList[i + 1].size <= mList[j + 1].start
          BY <4>2, <3>2, <1>3, Zenon
        <4> QED
          BY <4>1, <4>3, Zenon
      <3> QED
        BY <3>3, <3>4, <3>5, <1>1
    <2>9. Tiles'
      <3>1. mList[cur].start = mList[cur - 1].start + mList[cur - 1].size
        BY <2>1, <1>1, <1>2
      <3>2. Len(mList') > 0 /\ mList'[1].start = 0
        <4>1. 1 \in 1..(L - 1) /\ L - 1 > 0
          BY <1>1, <1>9
        <4>2. CASE cur = 2
          BY <4>1, <4>2, <2>2, <2>5, <2>6, <1>2
        <4>3. CASE cur > 2
          <5>1. mList'[1] = mList[1]
            BY <4>1, <4>3, <2>6, <1>1
          <5> QED
            BY <5>1, <4>1, <2>5, <1>2
        <4> QED
          BY <4>2, <4>3, <1>1, <1>9
      <3>3. ASSUME NEW i \in 1..(L - 1) PROVE mList'[i].size > 0
        <4>1. i \in 1..L /\ i + 1 \in 1..L
          BY <1>1
        <4>2. CASE i = cur - 1
          BY <4>1, <4>2, <2>1, <2>2, <2>6, <1>1, <1>2
        <4>3. CASE i # cur - 1
          <5>1. mList'[i] = mList[i] \/ mList'[i] = mList[i + 1]
            BY <4>3, <2>6, <1>1
          <5> QED
            BY <5>1, <4>1, <1>2
        <4> QED
          BY <4>2, <4>3
      <3>4. ASSUME NEW i \in 1..(L - 2)
            PROVE  mList'[i + 1].start = mList'[i].start + mList'[i].size
        <4>1. i \in 1..(L - 1) /\ i + 1 \in 1..(L - 1) /\ i + 2 \in 1..L
          BY <1>1
        <4>2. CASE i < cur - 1
          <5>1. mList'[i] = mList[i] /\ mList'[i + 1].start = mList[i + 1].start
            BY <4>1, <4>2, <2>2, <2>6, <1>1
          <5> QED
            BY <5>1, <4>1, <1>2
        <4>4. CASE i = cur - 1
          <5>1. mList'[i] = c /\ mList'[i + 1] = mList[cur + 1] /\ cur \in 1..(L - 1)
            BY <4>1, <4>4, <2>6, <1>1
          <5>2. mList[cur + 1].start = mList[cur].start + mList[cur].size
            BY <5>1, <1>2
          <5> QED
            <6>1. /\ mList[cur - 1].start \in Nat /\ mList[cur - 1].size \in Nat
                  /\ mList[cur].size \in Nat
              BY <2>1, <1>1, <1>2
            <6>2. (mList[cur - 1].start + mList[cur - 1].size) + mList[cur].size =
                    mList[cur - 1].start + (mList[cur - 1].size + mList[cur].size)
              BY <6>1, SumAssociative, Zenon
            <6>3. mList[cur + 1].start =
                    (mList[cur - 1].start + mList[cur - 1].size) + mList[cur].size
              BY <5>2, <3>1, Zenon
            <6>4. mList'[i + 1].start = mList[cur + 1].start
              BY <5>1, Zenon
            <6>5. mList'[i].start = mList[cur - 1].start
                  /\ mList'[i].size = mList[cur - 1].size + mList[cur].size
              BY <5>1, <2>2, Zenon
            <6> QED
              BY <6>2, <6>3, <6>4, <6>5, Zenon
        <4>5. CASE i > cur - 1
          <5>1. mList'[i] = mList[i + 1] /\ mList'[i + 1] = mList[(i + 1) + 1]
            BY <4>1, <4>5, <2>6, <1>1
          <5>2. mList[(i + 1) + 1].start = mList[i + 1].start + mList[i + 1].size
            BY <4>1, <1>1, <1>2
          <5> QED
            BY <5>1, <5>2
        <4> QED
          BY <4>2, <4>4, <4>5, <1>1
      <3>5. mList'[L - 1].start + mList'[L - 1].size = mHeapSize \div kMemoryAlign
        <4>1. L - 1 \in 1..(L - 1)
          BY <2>1, <1>1, <1>9
        <4>2. CASE cur = L
          <5>1. mList'[L - 1] = c
            BY <4>1, <4>2, <2>6, <1>1
          <5> QED
            BY <5>1, <4>2, <3>1, <2>1, <2>2, <1>1, <1>2
        <4>3. CASE cur < L
          <5>1. mList'[L - 1] = mList[L]
            BY <4>1, <4>3, <2>6, <1>1
          <5> QED
            BY <5>1, <1>2
        <4> QED
          BY <4>2, <4>3, <1>1
      <3>6. Len(mList') - 1 = L - 2
        BY <2>5, <1>1
      <3> QED
        BY <3>2, <3>3, <3>4, <3>5, <3>6, <2>5, <1>1 DEF Tiles
    <2>10. Coalesced'
      <3> SUFFICES ASSUME NEW i \in 1..(L - 2),
                          mList'[i].free = 1, mList'[i + 1].free = 1
                   PROVE  pc' = "merge" /\ cur \in {i, i + 1}
        BY <2>3, <2>5, <1>1 DEF Coalesced
      <3>1. i \in 1..(L - 1) /\ i + 1 \in 1..(L - 1) /\ (i + 1) + 1 \in 1..L
        BY <1>1
      <3>2. CASE i < cur - 1
        <4>1. mList[i].free = 1
          BY <3>1, <3>2, <2>6
        <4>2. mList[i + 1].free = 1
          <5>1. CASE i + 1 = cur - 1
            BY <5>1, <1>9
          <5>2. CASE i + 1 < cur - 1
            BY <5>2, <3>1, <2>6
          <5> QED
            BY <5>1, <5>2, <3>2, <1>1
        <4>3. cur \in {i, i + 1}
          BY <4>1, <4>2, <3>1, <1>4
        <4> QED
          BY <4>3, <3>2, <1>1
      <3>3. CASE i = cur - 1
        BY <3>3, <3>1, <2>3, <2>5, <1>1
      <3>4. CASE i > cur - 1
        <4>1. mList'[i] = mList[i + 1] /\ mList'[i + 1] = mList[(i + 1) + 1]
          BY <3>1, <3>4, <2>6, <1>1
        <4>2. cur \in {i + 1, (i + 1) + 1}
          BY <4>1, <3>1, <1>4
        <4>3. i = cur - 1 \/ FALSE
          BY <4>2, <3>4, <1>1
        <4> QED
          BY <4>3, <3>4
      <3> QED
        BY <3>2, <3>3, <3>4, <1>1
    <2>11. OwnedExactly'
      <3> DEFINE Use(i) == [start |-> mList[i].start, size |-> mList[i].size]
                 UseN(i) == [start |-> mList'[i].start, size |-> mList'[i].size]
      <3>1. ASSUME NEW i \in 1..L, mList[i].free = 0
            PROVE  \E j \in 1..(L - 1) : mList'[j].free = 0 /\ UseN(j) = Use(i)
        <4>1. i # cur /\ i # cur - 1
          BY <3>1, <1>1, <1>9
        <4>2. CASE i < cur - 1
          <5>1. i \in 1..(L - 1) /\ mList'[i] = mList[i]
            BY <4>2, <2>6, <1>1
          <5> QED
            BY <5>1, <3>1
        <4>3. CASE i > cur
          <5>1. i - 1 \in 1..(L - 1) /\ (i - 1) + 1 = i /\ ~ (i - 1 < cur)
            BY <4>3, <1>1
          <5>2. mList'[i - 1] = mList[i]
            BY <5>1, <2>6, <1>1
          <5> QED
            BY <5>1, <5>2, <3>1
        <4> QED
          BY <4>1, <4>2, <4>3, <1>1
      <3>2. ASSUME NEW j \in 1..(L - 1), mList'[j].free = 0
            PROVE  \E i \in 1..L : mList[i].free = 0 /\ UseN(j) = Use(i)
        <4>1. j \in 1..L /\ j + 1 \in 1..L
          BY <1>1
        <4>2. j # cur - 1
          BY <3>2, <2>2, <2>6, <1>1
        <4>3. mList'[j] = mList[j] \/ mList'[j] = mList[j + 1]
          BY <4>2, <2>6, <1>1
        <4> QED
          BY <4>1, <4>3, <3>2
      <3>3. InUse = {Use(i) : i \in {j \in 1..L : mList[j].free = 0}}
        BY DEF InUse
      <3>4. InUse' = {UseN(i) : i \in {j \in 1..(L - 1) : mList'[j].free = 0}}
        BY <2>5 DEF InUse
      <3> HIDE DEF Use, UseN
      <3>5. InUse' = InUse
        BY <3>1, <3>2, <3>3, <3>4, SMTT(30)
      <3> QED
        BY <3>5, <1>1, <1>5, <1>7 DEF OwnedExactly
    <2>12. Control'
      BY <2>3, <2>5, <1>1, <1>7 DEF IInv, Control
    <2> QED
      BY <2>7, <2>8, <2>9, <2>10, <2>11, <2>12, <1>6, <1>8 DEF IInv
  <1>10. CASE ~ (cur > 1 /\ mList[cur - 1].free = 1)
    <2>1. mList[cur].size # 0
      BY <1>1, <1>2
    <2>2. /\ mList' = mList
          /\ cur' = cur + 1
          /\ pc' = IF cur + 1 <= L /\ mList[cur + 1].free = 1
                     THEN "merge" ELSE "idle"
      BY <2>1, <1>10 DEF MergeChunk
    <2>3. TypeOK'
      BY <2>2 DEF IInv, TypeOK, MergeChunk
    <2>4. Tiles' /\ Ordered'
      BY <2>2, <1>1 DEF IInv, Tiles, Ordered
    <2>5. Coalesced'
      BY <2>2, <1>1, <1>4, <1>10 DEF Coalesced
    <2>6. OwnedExactly'
      <3>1. InUse' = InUse
        BY <2>2 DEF InUse
      <3> QED
        BY <3>1, <1>1, <1>5, <1>7 DEF OwnedExactly
    <2>7. Control'
      BY <2>2, <1>1, <1>7 DEF IInv, Control
    <2> QED
      BY <2>3, <2>4, <2>5, <2>6, <2>7, <1>6, <1>8 DEF IInv
  <1> QED
    BY <1>9, <1>10

-----------------------------------------------------------------------------
(* Carving a chunk out of a free one is at most two splits of the list.    *)

\* The InsertAfterSeq and InsertBeforeSeq facts as predicates.
IsAfter(list, i, c, out) ==
  /\ out \in Seq(Chunk)
  /\ Len(out) = Len(list) + 1
  /\ \A j \in 1..(Len(list) + 1) : out[j] =
       IF j <= i THEN list[j] ELSE IF j = i + 1 THEN c ELSE list[j - 1]

IsBefore(list, i, c, out) ==
  /\ out \in Seq(Chunk)
  /\ Len(out) = Len(list) + 1
  /\ \A j \in 1..(Len(list) + 1) : out[j] =
       IF j < i THEN list[j] ELSE IF j = i THEN c ELSE list[j - 1]

\* The two insertions, in terms of the predicates.
LEMMA Inserted ==
  ASSUME NEW list \in Seq(Chunk), NEW i \in 1..Len(list), NEW c \in Chunk
  PROVE  /\ IsAfter(list, i, c, InsertAfter(list, i, c))
         /\ IsBefore(list, i, c, InsertBefore(list, i, c))
  <1>1. IsAfter(list, i, c, InsertAfter(list, i, c))
    BY InsertAfterSeq DEF IsAfter
  <1>2. IsBefore(list, i, c, InsertBefore(list, i, c))
    BY InsertBeforeSeq DEF IsBefore
  <1> QED
    BY <1>1, <1>2

\* A record of two naturals and a flag is a chunk.
LEMMA ChunkFields ==
  ASSUME NEW a \in Nat, NEW b \in Nat, NEW c \in {0, 1}
  PROVE  [start |-> a, size |-> b, free |-> c] \in Chunk
  BY DEF Chunk

\* Sums of naturals are naturals.
LEMMA SumNat ==
  ASSUME NEW a \in Nat, NEW b \in Nat
  PROVE  a + b \in Nat
  OBVIOUS

\* Ends before, starts after: two inequalities in a row.
LEMMA Chain ==
  ASSUME NEW a \in Nat, NEW b \in Nat, NEW c \in Nat, NEW d \in Nat,
         a <= b, b <= c, c <= d
  PROVE  a <= d
  OBVIOUS

\* list tiles n units of memory.
TiledBy(list, n) ==
  /\ list \in Seq(Chunk)
  /\ Len(list) > 0
  /\ list[1].start = 0
  /\ \A i \in 1..Len(list) : list[i].size > 0
  /\ \A i \in 1..(Len(list) - 1) :
       list[i + 1].start = list[i].start + list[i].size
  /\ list[Len(list)].start + list[Len(list)].size = n
  /\ \A i, j \in 1..Len(list) :
       i < j => list[i].start + list[i].size <= list[j].start

\* The region of a chunk, and the regions of a list that are in use.
Use(c) == [start |-> c.start, size |-> c.size]

UsesOf(list) == {Use(list[i]) : i \in {j \in 1..Len(list) : list[j].free = 0}}

\* The chunks in use among the two new ones of a split.
UsesIn(x, y) == {Use(c) : c \in {z \in {x, y} : z.free = 0}}

\* out is list with the chunk at f replaced by the two chunks x and y.
IsSplit(list, f, x, y, out) ==
  /\ out \in Seq(Chunk)
  /\ Len(out) = Len(list) + 1
  /\ \A j \in 1..(f - 1) : out[j] = list[j]
  /\ out[f] = x
  /\ out[f + 1] = y
  /\ \A j \in (f + 2)..(Len(list) + 1) : out[j] = list[j - 1]

\* A split at an inner point of a chunk keeps the list a tiling.
LEMMA SplitTiled ==
  ASSUME NEW n, NEW list, TiledBy(list, n), NEW f \in 1..Len(list),
         NEW x \in Chunk, NEW y \in Chunk, NEW out,
         IsSplit(list, f, x, y, out),
         x.size > 0, y.size > 0,
         x.start = list[f].start,
         y.start = x.start + x.size,
         x.size + y.size = list[f].size
  PROVE  TiledBy(out, n)
  <1> DEFINE L == Len(list)
  <1>1. /\ list \in Seq(Chunk) /\ L \in Nat
        /\ out \in Seq(Chunk) /\ Len(out) = L + 1
        /\ out[f] = x /\ out[f + 1] = y
    BY DEF TiledBy, IsSplit
  <1>2. \A j \in 1..(f - 1) : out[j] = list[j]
    BY DEF IsSplit
  <1>3. \A j \in (f + 2)..(L + 1) : out[j] = list[j - 1]
    BY DEF IsSplit
  <1>4. \A i \in 1..L : list[i].start \in Nat /\ list[i].size \in Nat
    <2>1. \A i \in 1..L : list[i] \in Chunk
      BY <1>1
    <2> QED
      BY <2>1 DEF Chunk
  <1>5. x.start \in Nat /\ x.size \in Nat /\ y.start \in Nat /\ y.size \in Nat
    BY DEF Chunk
  <1>6. \A i \in 1..L : list[i].size > 0
    BY DEF TiledBy
  <1>7. \A i \in 1..(L - 1) : list[i + 1].start = list[i].start + list[i].size
    BY DEF TiledBy
  <1>8. \A i, j \in 1..L : i < j => list[i].start + list[i].size <= list[j].start
    BY DEF TiledBy
  <1>9. /\ x.start = list[f].start
        /\ x.start + x.size <= list[f].start + list[f].size
        /\ y.start + y.size = list[f].start + list[f].size
        /\ y.start + y.size <= list[f].start + list[f].size
        /\ list[f].start <= x.start
        /\ list[f].start <= y.start
    BY <1>4, <1>5
  <1>10. out[1].start = 0
    <2>1. list[1].start = 0
      BY DEF TiledBy
    <2>2. CASE f = 1
      BY <2>1, <2>2, <1>1
    <2>3. CASE f > 1
      BY <2>1, <2>3, <1>1, <1>2
    <2> QED
      BY <2>2, <2>3
  <1>11. ASSUME NEW i \in 1..(L + 1) PROVE out[i].size > 0
    <2>1. CASE i < f
      BY <2>1, <1>1, <1>2, <1>6
    <2>2. CASE i = f \/ i = f + 1
      BY <2>2, <1>1
    <2>3. CASE i > f + 1
      <3>1. out[i] = list[i - 1] /\ i - 1 \in 1..L
        BY <2>3, <1>1, <1>3
      <3> QED
        BY <3>1, <1>6
    <2> QED
      BY <2>1, <2>2, <2>3
  <1>12. ASSUME NEW i \in 1..L PROVE out[i + 1].start = out[i].start + out[i].size
    <2>1. CASE i < f - 1
      <3>1. out[i] = list[i] /\ out[i + 1] = list[i + 1] /\ i \in 1..(L - 1)
        BY <2>1, <1>1, <1>2
      <3> QED
        BY <3>1, <1>7
    <2>2. CASE i = f - 1
      <3>1. out[i] = list[i] /\ out[i + 1] = x /\ i \in 1..(L - 1) /\ i + 1 = f
        BY <2>2, <1>1, <1>2
      <3> QED
        BY <3>1, <1>7
    <2>3. CASE i = f
      BY <2>3, <1>1
    <2>4. CASE i = f + 1
      <3>1. out[i] = y /\ out[i + 1] = list[f + 1] /\ f \in 1..(L - 1)
        BY <2>4, <1>1, <1>3
      <3>2. list[f + 1].start = list[f].start + list[f].size
        BY <3>1, <1>7
      <3> QED
        BY <3>1, <3>2, <1>9
    <2>5. CASE i > f + 1
      <3>1. /\ out[i] = list[i - 1] /\ out[i + 1] = list[(i - 1) + 1]
            /\ i - 1 \in 1..(L - 1)
        BY <2>5, <1>1, <1>3
      <3> QED
        BY <3>1, <1>7
    <2> QED
      BY <2>1, <2>2, <2>3, <2>4, <2>5
  <1>13. out[L + 1].start + out[L + 1].size = n
    <2>1. list[L].start + list[L].size = n
      BY DEF TiledBy
    <2>2. CASE f = L
      BY <2>1, <2>2, <1>1, <1>9
    <2>3. CASE f < L
      <3>1. out[L + 1] = list[L]
        BY <2>3, <1>1, <1>3
      <3> QED
        BY <3>1, <2>1
    <2> QED
      BY <2>2, <2>3, <1>1
  <1>14. ASSUME NEW i \in 1..(L + 1), NEW j \in 1..(L + 1), i < j
         PROVE  out[i].start + out[i].size <= out[j].start
    <2>1. PICK p \in 1..L : p = IF i <= f THEN i ELSE i - 1
      BY <1>1, <1>14
    <2>2. PICK q \in 1..L : q = IF j <= f THEN j ELSE j - 1
      BY <1>1, <1>14
    <2>3. /\ list[p].start \in Nat /\ list[p].size \in Nat
          /\ list[q].start \in Nat
      BY <1>4
    <2>4. out[i].start + out[i].size <= list[p].start + list[p].size
      <3>1. CASE i < f \/ i > f + 1
        <4>1. out[i] = list[p]
          BY <3>1, <2>1, <1>1, <1>2, <1>3
        <4> QED
          BY <4>1, <2>3
      <3>2. CASE i = f \/ i = f + 1
        <4>1. p = f /\ (out[i] = x \/ out[i] = y)
          BY <3>2, <2>1, <1>1
        <4> QED
          BY <4>1, <1>9, Zenon
      <3> QED
        BY <3>1, <3>2
    <2>5. list[q].start <= out[j].start
      <3>1. CASE j < f \/ j > f + 1
        <4>1. out[j] = list[q]
          BY <3>1, <2>2, <1>1, <1>2, <1>3
        <4> QED
          BY <4>1, <2>3
      <3>2. CASE j = f \/ j = f + 1
        <4>1. q = f /\ (out[j] = x \/ out[j] = y)
          BY <3>2, <2>2, <1>1
        <4> QED
          BY <4>1, <1>9
      <3> QED
        BY <3>1, <3>2
    <2>6. /\ out[i].start \in Nat /\ out[i].size \in Nat
          /\ out[j].start \in Nat
      <3>1. i \in 1..Len(out) /\ j \in 1..Len(out)
        BY <1>1
      <3>2. out[i] \in Chunk /\ out[j] \in Chunk
        BY <3>1, <1>1
      <3> QED
        BY <3>2 DEF Chunk
    <2>7. CASE p < q
      <3>1. list[p].start + list[p].size <= list[q].start
        BY <2>7, <1>8
      <3>2. /\ out[i].start + out[i].size \in Nat
            /\ list[p].start + list[p].size \in Nat
        BY <2>3, <2>6, SumNat, Zenon
      <3> QED
        BY <3>1, <3>2, <2>3, <2>4, <2>5, <2>6, Chain, Zenon
    <2>8. CASE ~ (p < q)
      <3>1. i = f /\ j = f + 1
        BY <2>1, <2>2, <2>8, <1>14, <1>1
      <3> QED
        BY <3>1, <1>1, <1>5
    <2> QED
      BY <2>7, <2>8
  <1>15. Len(out) > 0 /\ Len(out) - 1 = L
    BY <1>1
  <1> QED
    BY <1>1, <1>10, <1>11, <1>12, <1>13, <1>14, <1>15 DEF TiledBy

\* A split of a free chunk adds to the chunks in use those of the two new
\* chunks that are in use.
LEMMA SplitUses ==
  ASSUME NEW list \in Seq(Chunk), NEW f \in 1..Len(list),
         NEW x \in Chunk, NEW y \in Chunk, NEW out,
         IsSplit(list, f, x, y, out),
         list[f].free = 1
  PROVE  UsesOf(out) = UsesOf(list) \union UsesIn(x, y)
  <1> DEFINE L == Len(list)
             New == UsesIn(x, y)
  <1>1. L \in Nat /\ Len(out) = L + 1 /\ out[f] = x /\ out[f + 1] = y
    BY DEF IsSplit
  <1>2. \A j \in 1..(f - 1) : out[j] = list[j]
    BY DEF IsSplit
  <1>3. \A j \in (f + 2)..(L + 1) : out[j] = list[j - 1]
    BY DEF IsSplit
  <1>4. ASSUME NEW i \in 1..L, list[i].free = 0
        PROVE  \E j \in 1..(L + 1) : out[j].free = 0 /\ out[j] = list[i]
    <2>1. CASE i < f
      <3>1. i \in 1..(L + 1) /\ out[i] = list[i]
        BY <2>1, <1>1, <1>2
      <3> QED
        BY <3>1, <1>4
    <2>2. CASE i > f
      <3>1. i + 1 \in 1..(L + 1) /\ out[i + 1] = list[(i + 1) - 1] /\ (i + 1) - 1 = i
        BY <2>2, <1>1, <1>3
      <3> QED
        BY <3>1, <1>4
    <2> QED
      BY <2>1, <2>2, <1>4
  <1>5. ASSUME NEW j \in 1..(L + 1), out[j].free = 0
        PROVE  \/ out[j] \in {x, y}
               \/ \E i \in 1..L : list[i].free = 0 /\ out[j] = list[i]
    <2>1. CASE j < f
      BY <2>1, <1>1, <1>2, <1>5
    <2>2. CASE j = f \/ j = f + 1
      BY <2>2, <1>1
    <2>3. CASE j > f + 1
      <3>1. j - 1 \in 1..L /\ out[j] = list[j - 1]
        BY <2>3, <1>1, <1>3
      <3> QED
        BY <3>1, <1>5
    <2> QED
      BY <2>1, <2>2, <2>3
  <1>6. f \in 1..(L + 1) /\ f + 1 \in 1..(L + 1)
    BY <1>1
  <1>7. UsesOf(list) = {Use(list[i]) : i \in {j \in 1..L : list[j].free = 0}}
    BY DEF UsesOf
  <1>8. UsesOf(out) = {Use(out[i]) : i \in {j \in 1..(L + 1) : out[j].free = 0}}
    BY <1>1 DEF UsesOf
  <1>9. UsesOf(list) \subseteq UsesOf(out)
    BY <1>4, <1>7, <1>8
  <1>10. New \subseteq UsesOf(out)
    BY <1>1, <1>6, <1>8 DEF UsesIn
  <1>11. UsesOf(out) \subseteq UsesOf(list) \union New
    <2> SUFFICES ASSUME NEW j \in 1..(L + 1), out[j].free = 0
                 PROVE  Use(out[j]) \in UsesOf(list) \union New
      BY <1>8
    <2> QED
      BY <1>5, <1>7 DEF UsesIn
  <1> QED
    BY <1>9, <1>10, <1>11

\* No two neighbours are free.
NoFreePair(list) ==
  \A i \in 1..(Len(list) - 1) : ~ (list[i].free = 1 /\ list[i + 1].free = 1)

\* A free chunk replaced by k + 1 chunks, no two neighbours of them free,
\* leaves no two free neighbours.
LEMMA ReplaceCoalesced ==
  ASSUME NEW list \in Seq(Chunk), NEW f \in 1..Len(list), NEW k \in Nat,
         NEW out \in Seq(Chunk), NoFreePair(list), list[f].free = 1,
         Len(out) = Len(list) + k,
         \A j \in 1..(f - 1) : out[j] = list[j],
         \A j \in (f + k + 1)..Len(out) : out[j] = list[j - k],
         \A j \in f..(f + k - 1) : ~ (out[j].free = 1 /\ out[j + 1].free = 1)
  PROVE  NoFreePair(out)
  <1> DEFINE L == Len(list)
  <1>1. L \in Nat /\ Len(out) = L + k
    OBVIOUS
  <1>2. \A i \in 1..(L - 1) : ~ (list[i].free = 1 /\ list[i + 1].free = 1)
    BY DEF NoFreePair
  <1> SUFFICES ASSUME NEW i \in 1..(L + k - 1)
               PROVE  ~ (out[i].free = 1 /\ out[i + 1].free = 1)
    BY <1>1 DEF NoFreePair
  <1>3. CASE i < f - 1
    <2>1. i \in 1..(f - 1) /\ i + 1 \in 1..(f - 1) /\ i \in 1..(L - 1)
      BY <1>1, <1>3
    <2>2. out[i] = list[i] /\ out[i + 1] = list[i + 1]
      BY <2>1
    <2> QED
      BY <2>1, <2>2, <1>2
  <1>4. CASE i = f - 1
    <2>1. out[i] = list[i] /\ i \in 1..(L - 1) /\ i + 1 = f
      BY <1>1, <1>4
    <2> QED
      BY <2>1, <1>2
  <1>5. CASE i \in f..(f + k - 1)
    BY <1>5
  <1>6. CASE i = f + k
    <2>1. /\ i + 1 \in (f + k + 1)..Len(out)
          /\ (i + 1) - k = f + 1 /\ f \in 1..(L - 1)
      BY <1>1, <1>6
    <2>2. out[i + 1] = list[f + 1]
      BY <2>1
    <2> QED
      BY <2>1, <2>2, <1>2
  <1>7. CASE i > f + k
    <2>1. /\ i \in (f + k + 1)..Len(out) /\ i + 1 \in (f + k + 1)..Len(out)
          /\ (i + 1) - k = (i - k) + 1 /\ i - k \in 1..(L - 1)
      BY <1>1, <1>7
    <2>2. out[i] = list[i - k] /\ out[i + 1] = list[(i - k) + 1]
      BY <2>1
    <2> QED
      BY <2>1, <2>2, <1>2
  <1> QED
    BY <1>1, <1>3, <1>4, <1>5, <1>6, <1>7

\* What the two insertions of alloc() make of a list: in place of the free
\* chunk at f there is a free chunk of e units, if e > 0, the chunk handed
\* out, and a free chunk of t units, if t > 0.
HandedOut(list, f, n, e) == [start |-> list[f].start + e, size |-> n, free |-> 0]

LeadCut(list, f, n, e) ==
  LET d == [list EXCEPT ![f] = HandedOut(list, f, n, e)]
  IN IF e > 0 THEN InsertBefore(d, f, NewChunk(list[f].start, e)) ELSE d

TailCut(list, f, n, e, t) ==
  LET w == LeadCut(list, f, n, e)
  IN IF t > 0
       THEN InsertAfter(w, IF e > 0 THEN f + 1 ELSE f,
                        NewChunk(HandedOut(list, f, n, e).start + n, t))
       ELSE w

\* What alloc() does to the list: it stays a tiling, coalesced and page
\* aligned, and the chunks in use are the old ones and the one handed out.
LEMMA CarveList ==
  ASSUME NEW heap, NEW list, TiledBy(list, heap), NoFreePair(list),
         NEW f \in 1..Len(list), list[f].free = 1,
         NEW n \in Nat \ {0}, NEW e \in Nat, NEW t \in Nat,
         list[f].size = e + n + t
  PROVE  /\ TiledBy(TailCut(list, f, n, e, t), heap)
         /\ UsesOf(TailCut(list, f, n, e, t))
              = UsesOf(list) \union {Use(HandedOut(list, f, n, e))}
         /\ NoFreePair(TailCut(list, f, n, e, t))
  <1> DEFINE L == Len(list)
             s == list[f].start
             lead == [start |-> s, size |-> e, free |-> 1]
             rest == [start |-> s + e, size |-> n + t, free |-> 1]
             tail == [start |-> s + e + n, size |-> t, free |-> 1]
             carved == HandedOut(list, f, n, e)
             d == [list EXCEPT ![f] = carved]
             w == LeadCut(list, f, n, e)
             out == TailCut(list, f, n, e, t)
  <1>1. list \in Seq(Chunk) /\ L \in Nat /\ s \in Nat /\ list[f].size \in Nat
    <2>1. list \in Seq(Chunk)
      BY DEF TiledBy
    <2>2. list[f] \in Chunk
      BY <2>1
    <2> QED
      BY <2>1, <2>2 DEF Chunk
  <1> HIDE DEF s
  <1>2. /\ carved = [start |-> s + e, size |-> n, free |-> 0]
        /\ NewChunk(list[f].start, e) = lead
        /\ NewChunk(carved.start + n, t) = tail
    BY DEF NewChunk, s, HandedOut
  <1> HIDE DEF carved
  <1>3. carved \in Chunk /\ lead \in Chunk /\ rest \in Chunk /\ tail \in Chunk
    <2>1. s + e \in Nat /\ n + t \in Nat /\ s + e + n \in Nat /\ n \in Nat
      BY <1>1
    <2>2. 0 \in {0, 1} /\ 1 \in {0, 1}
      OBVIOUS
    <2> QED
      BY <2>1, <2>2, <1>1, <1>2, ChunkFields, Zenon
  <1>4. /\ lead.start = s /\ lead.size = e /\ lead.free = 1
        /\ rest.start = s + e /\ rest.size = n + t /\ rest.free = 1
        /\ tail.start = s + e + n /\ tail.size = t /\ tail.free = 1
        /\ carved.start = s + e /\ carved.size = n /\ carved.free = 0
    BY <1>2
  <1>5. list[f].start = s
    BY DEF s
  <1> HIDE DEF lead, rest, tail
  <1>6. /\ d \in Seq(Chunk) /\ Len(d) = L
        /\ \A j \in 1..L : d[j] = IF j = f THEN carved ELSE list[j]
    BY <1>1, <1>3, SeqExceptIsSeq
  <1>61. w = IF e > 0 THEN InsertBefore(d, f, lead) ELSE d
    BY <1>2 DEF LeadCut, carved
  <1>62. out = IF t > 0 THEN InsertAfter(w, IF e > 0 THEN f + 1 ELSE f, tail) ELSE w
    BY <1>2 DEF TailCut, carved
  <1> HIDE DEF d, w, out
  <1>7. CASE e = 0 /\ t = 0
    <2>1. out = d
      BY <1>61, <1>62, <1>7
    <2>2. list[f].size = n /\ carved.start = s
      BY <1>1, <1>4, <1>7
    <2>3. \A j \in 1..L : d[j].start = list[j].start /\ d[j].size = list[j].size
      BY <2>2, <1>4, <1>5, <1>6
    <2>4. TiledBy(d, heap)
      <3>1. /\ L > 0
            /\ list[1].start = 0
            /\ \A i \in 1..L : list[i].size > 0
            /\ list[L].start + list[L].size = heap
        BY DEF TiledBy
      <3>2. \A i \in 1..(L - 1) : list[i + 1].start = list[i].start + list[i].size
        BY DEF TiledBy
      <3>3. \A i, j \in 1..L : i < j => list[i].start + list[i].size <= list[j].start
        BY DEF TiledBy
      <3>4. 1 \in 1..L /\ L \in 1..L
        BY <3>1, <1>1
      <3>5. ASSUME NEW i \in 1..(L - 1)
            PROVE  d[i + 1].start = d[i].start + d[i].size
        <4>1. i \in 1..L /\ i + 1 \in 1..L
          BY <1>1
        <4> QED
          BY <4>1, <3>2, <2>3
      <3> QED
        BY <3>1, <3>3, <3>4, <3>5, <2>3, <1>6 DEF TiledBy
    <2>5. UsesOf(d) = UsesOf(list) \union {Use(carved)}
      <3>1. UsesOf(list) = {Use(list[i]) : i \in {j \in 1..L : list[j].free = 0}}
        BY DEF UsesOf
      <3>2. UsesOf(d) = {Use(d[i]) : i \in {j \in 1..L : d[j].free = 0}}
        BY <1>6 DEF UsesOf
      <3>3. \A i \in 1..L : i # f => d[i] = list[i]
        BY <1>6
      <3>4. d[f] = carved /\ carved.free = 0
        BY <1>4, <1>6
      <3>5. UsesOf(d) \subseteq UsesOf(list) \union {Use(carved)}
        BY <3>1, <3>2, <3>3, <3>4
      <3>6. UsesOf(list) \subseteq UsesOf(d)
        BY <3>1, <3>2, <3>3
      <3>7. Use(carved) \in UsesOf(d)
        BY <3>2, <3>4
      <3> QED
        BY <3>5, <3>6, <3>7
    <2>6. NoFreePair(d)
      <3>1. \A j \in 1..(f - 1) : d[j] = list[j]
        BY <1>1, <1>6
      <3>2. \A j \in (f + 0 + 1)..Len(d) : d[j] = list[j - 0]
        BY <1>1, <1>6
      <3>3. \A j \in f..(f + 0 - 1) : ~ (d[j].free = 1 /\ d[j + 1].free = 1)
        OBVIOUS
      <3>4. Len(d) = L + 0 /\ 0 \in Nat
        BY <1>1, <1>6
      <3> QED
        BY <3>1, <3>2, <3>3, <3>4, <1>1, <1>6, ReplaceCoalesced
    <2> QED
      BY <2>1, <2>4, <2>5, <2>6 DEF out, carved
  <1>8. CASE e = 0 /\ t > 0
    <2>1. out = InsertAfter(d, f, tail)
      BY <1>61, <1>62, <1>8
    <2>2. /\ out \in Seq(Chunk) /\ Len(out) = L + 1
          /\ \A j \in 1..(L + 1) : out[j] =
               IF j <= f THEN d[j] ELSE IF j = f + 1 THEN tail ELSE d[j - 1]
      <3>1. f \in 1..Len(d) /\ d \in Seq(Chunk) /\ Len(d) = L
        BY <1>6
      <3>2. IsAfter(d, f, tail, out)
        BY <3>1, <2>1, <1>3, Inserted, Zenon
      <3> QED
        BY <3>1, <3>2 DEF IsAfter
    <2>3. IsSplit(list, f, carved, tail, out)
      <3>1. ASSUME NEW j \in 1..(f - 1) PROVE out[j] = list[j]
        <4>1. j \in 1..(L + 1) /\ j \in 1..L /\ j < f
          BY <1>1
        <4>2. out[j] = d[j]
          BY <4>1, <2>2
        <4> QED
          BY <4>1, <4>2, <1>6
      <3>2. out[f] = carved /\ out[f + 1] = tail
        <4>1. f \in 1..(L + 1) /\ f + 1 \in 1..(L + 1) /\ (f + 1) - 1 = f
          BY <1>1
        <4>2. d[f] = carved
          BY <1>6
        <4> QED
          BY <4>1, <4>2, <2>2
      <3>3. ASSUME NEW j \in (f + 2)..(L + 1) PROVE out[j] = list[j - 1]
        <4>1. j \in 1..(L + 1) /\ j > f + 1 /\ j - 1 \in 1..L /\ j - 1 # f
          BY <1>1
        <4>2. out[j] = d[j - 1]
          BY <4>1, <2>2
        <4> QED
          BY <4>1, <4>2, <1>6
      <3> QED
        BY <3>1, <3>2, <3>3, <2>2 DEF IsSplit
    <2>4. TiledBy(out, heap)
      <3>1. /\ carved.size > 0 /\ tail.size > 0
            /\ carved.start = list[f].start
            /\ tail.start = carved.start + carved.size
            /\ carved.size + tail.size = list[f].size
        BY <1>1, <1>4, <1>5, <1>8
      <3> QED
        BY <3>1, <2>3, <1>3, SplitTiled
    <2>5. UsesOf(out) = UsesOf(list) \union {Use(carved)}
      <3>1. UsesIn(carved, tail) = {Use(carved)}
        BY <1>4 DEF UsesIn
      <3>2. UsesOf(out) = UsesOf(list) \union UsesIn(carved, tail)
        BY <2>3, <1>1, <1>3, SplitUses
      <3> QED
        BY <3>1, <3>2
    <2>6. NoFreePair(out)
      <3>1. \A j \in 1..(f - 1) : out[j] = list[j]
        BY <2>3 DEF IsSplit
      <3>2. \A j \in (f + 1 + 1)..Len(out) : out[j] = list[j - 1]
        <4>1. Len(out) = L + 1 /\ f + 1 + 1 = f + 2
          BY <2>2
        <4> QED
          BY <4>1, <2>3 DEF IsSplit
      <3>3. \A j \in f..(f + 1 - 1) : ~ (out[j].free = 1 /\ out[j + 1].free = 1)
        BY <2>3, <1>4 DEF IsSplit
      <3> QED
        BY <3>1, <3>2, <3>3, <2>2, <1>1, ReplaceCoalesced
    <2> QED
      BY <2>4, <2>5, <2>6 DEF out, carved
  <1>9. CASE e > 0 /\ t = 0
    <2>1. out = InsertBefore(d, f, lead)
      BY <1>61, <1>62, <1>9
    <2>2. /\ out \in Seq(Chunk) /\ Len(out) = L + 1
          /\ \A j \in 1..(L + 1) : out[j] =
               IF j < f THEN d[j] ELSE IF j = f THEN lead ELSE d[j - 1]
      <3>1. f \in 1..Len(d) /\ d \in Seq(Chunk) /\ Len(d) = L
        BY <1>6
      <3>2. IsBefore(d, f, lead, out)
        BY <3>1, <2>1, <1>3, Inserted, Zenon
      <3> QED
        BY <3>1, <3>2 DEF IsBefore
    <2>3. IsSplit(list, f, lead, carved, out)
      <3>1. ASSUME NEW j \in 1..(f - 1) PROVE out[j] = list[j]
        <4>1. j \in 1..(L + 1) /\ j \in 1..L /\ j < f
          BY <1>1
        <4>2. out[j] = d[j]
          BY <4>1, <2>2
        <4> QED
          BY <4>1, <4>2, <1>6
      <3>2. out[f] = lead /\ out[f + 1] = carved
        <4>1. f \in 1..(L + 1) /\ f + 1 \in 1..(L + 1) /\ (f + 1) - 1 = f
          BY <1>1
        <4>2. d[f] = carved
          BY <1>6
        <4> QED
          BY <4>1, <4>2, <2>2
      <3>3. ASSUME NEW j \in (f + 2)..(L + 1) PROVE out[j] = list[j - 1]
        <4>1. j \in 1..(L + 1) /\ j > f + 1 /\ j - 1 \in 1..L /\ j - 1 # f
          BY <1>1
        <4>2. out[j] = d[j - 1]
          BY <4>1, <2>2
        <4> QED
          BY <4>1, <4>2, <1>6
      <3> QED
        BY <3>1, <3>2, <3>3, <2>2 DEF IsSplit
    <2>4. TiledBy(out, heap)
      <3>1. /\ lead.size > 0 /\ carved.size > 0
            /\ lead.start = list[f].start
            /\ carved.start = lead.start + lead.size
            /\ lead.size + carved.size = list[f].size
        BY <1>1, <1>4, <1>5, <1>9
      <3> QED
        BY <3>1, <2>3, <1>3, SplitTiled
    <2>5. UsesOf(out) = UsesOf(list) \union {Use(carved)}
      <3>1. UsesIn(lead, carved) = {Use(carved)}
        BY <1>4 DEF UsesIn
      <3>2. UsesOf(out) = UsesOf(list) \union UsesIn(lead, carved)
        BY <2>3, <1>1, <1>3, SplitUses
      <3> QED
        BY <3>1, <3>2
    <2>6. NoFreePair(out)
      <3>1. \A j \in 1..(f - 1) : out[j] = list[j]
        BY <2>3 DEF IsSplit
      <3>2. \A j \in (f + 1 + 1)..Len(out) : out[j] = list[j - 1]
        <4>1. Len(out) = L + 1 /\ f + 1 + 1 = f + 2
          BY <2>2
        <4> QED
          BY <4>1, <2>3 DEF IsSplit
      <3>3. \A j \in f..(f + 1 - 1) : ~ (out[j].free = 1 /\ out[j + 1].free = 1)
        BY <2>3, <1>4 DEF IsSplit
      <3> QED
        BY <3>1, <3>2, <3>3, <2>2, <1>1, ReplaceCoalesced
    <2> QED
      BY <2>4, <2>5, <2>6 DEF out, carved
  <1>10. CASE e > 0 /\ t > 0
    <2> DEFINE r == [list EXCEPT ![f] = rest]
               mid == InsertBefore(r, f, lead)
    <2>1. /\ r \in Seq(Chunk) /\ Len(r) = L
          /\ \A j \in 1..L : r[j] = IF j = f THEN rest ELSE list[j]
      BY <1>1, <1>3, SeqExceptIsSeq
    <2> HIDE DEF r
    <2>2. /\ mid \in Seq(Chunk) /\ Len(mid) = L + 1
          /\ \A j \in 1..(L + 1) : mid[j] =
               IF j < f THEN r[j] ELSE IF j = f THEN lead ELSE r[j - 1]
      <3>1. f \in 1..Len(r) /\ r \in Seq(Chunk) /\ Len(r) = L
        BY <2>1
      <3>2. IsBefore(r, f, lead, mid)
        BY <3>1, <1>3, Inserted, Zenon
      <3> HIDE DEF mid
      <3> QED
        BY <3>1, <3>2 DEF IsBefore
    <2>3. /\ w \in Seq(Chunk) /\ Len(w) = L + 1
          /\ \A j \in 1..(L + 1) : w[j] =
               IF j < f THEN d[j] ELSE IF j = f THEN lead ELSE d[j - 1]
      <3>1. w = InsertBefore(d, f, lead)
        BY <1>61, <1>10
      <3> QED
        <4>1. f \in 1..Len(d) /\ d \in Seq(Chunk) /\ Len(d) = L
          BY <1>6
        <4>2. IsBefore(d, f, lead, w)
          BY <4>1, <3>1, <1>3, Inserted, Zenon
        <4> QED
          BY <4>1, <4>2 DEF IsBefore
    <2>4. f + 1 \in 1..(L + 1)
      BY <1>1
    <2>5. /\ out \in Seq(Chunk) /\ Len(out) = (L + 1) + 1
          /\ \A j \in 1..((L + 1) + 1) : out[j] =
               IF j <= f + 1 THEN w[j] ELSE IF j = (f + 1) + 1 THEN tail ELSE w[j - 1]
      <3>1. out = InsertAfter(w, f + 1, tail)
        BY <1>62, <1>10
      <3>2. w \in Seq(Chunk) /\ Len(w) = L + 1 /\ f + 1 \in 1..Len(w)
        BY <2>3, <2>4
      <3>3. IsAfter(w, f + 1, tail, out)
        BY <3>1, <3>2, <1>3, Inserted, Zenon
      <3> QED
        BY <3>2, <3>3 DEF IsAfter
    <2> HIDE DEF mid
    <2>6. IsSplit(list, f, lead, rest, mid)
      <3>1. ASSUME NEW j \in 1..(f - 1) PROVE mid[j] = list[j]
        <4>1. j \in 1..(L + 1) /\ j \in 1..L /\ j < f
          BY <1>1
        <4>2. mid[j] = r[j]
          BY <4>1, <2>2
        <4> QED
          BY <4>1, <4>2, <2>1
      <3>2. mid[f] = lead /\ mid[f + 1] = rest
        BY <2>1, <2>2, <1>1
      <3>3. ASSUME NEW j \in (f + 2)..(L + 1) PROVE mid[j] = list[j - 1]
        <4>1. j \in 1..(L + 1) /\ j > f + 1 /\ j - 1 \in 1..L /\ j - 1 # f
          BY <1>1
        <4>2. mid[j] = r[j - 1]
          BY <4>1, <2>2
        <4> QED
          BY <4>1, <4>2, <2>1
      <3> QED
        BY <3>1, <3>2, <3>3, <2>2 DEF IsSplit
    <2>7. /\ \A j \in 1..(f - 1) : out[j] = list[j]
          /\ out[f] = lead /\ out[f + 1] = carved /\ out[(f + 1) + 1] = tail
          /\ \A j \in (f + 3)..(L + 2) : out[j] = list[j - 2]
      <3>1. ASSUME NEW j \in 1..(f - 1) PROVE out[j] = list[j]
        <4>1. /\ j \in 1..((L + 1) + 1) /\ j \in 1..(L + 1) /\ j \in 1..L
              /\ j <= f + 1 /\ j < f
          BY <1>1
        <4>2. out[j] = w[j]
          BY <4>1, <2>5
        <4>3. w[j] = d[j]
          BY <4>1, <2>3
        <4> QED
          BY <4>1, <4>2, <4>3, <1>6
      <3>2. out[f] = lead /\ out[f + 1] = carved
        BY <2>3, <2>5, <1>1, <1>6
      <3>3. out[(f + 1) + 1] = tail
        BY <2>5, <1>1
      <3>4. ASSUME NEW j \in (f + 3)..(L + 2) PROVE out[j] = list[j - 2]
        <4>1. /\ j \in 1..((L + 1) + 1) /\ ~ (j <= f + 1) /\ j # (f + 1) + 1
              /\ j - 1 \in 1..(L + 1) /\ ~ (j - 1 < f) /\ j - 1 # f
              /\ (j - 1) - 1 = j - 2 /\ j - 2 \in 1..L /\ j - 2 # f
          BY <1>1
        <4>2. out[j] = w[j - 1]
          BY <4>1, <2>5
        <4>3. w[j - 1] = d[j - 2]
          BY <4>1, <2>3
        <4>4. d[j - 2] = list[j - 2]
          BY <4>1, <1>6
        <4> QED
          BY <4>2, <4>3, <4>4
      <3> QED
        BY <3>1, <3>2, <3>3, <3>4
    <2>8. IsSplit(mid, f + 1, carved, tail, out)
      <3>1. ASSUME NEW j \in 1..((f + 1) - 1) PROVE out[j] = mid[j]
        <4>1. CASE j = f
          BY <4>1, <2>6, <2>7 DEF IsSplit
        <4>2. CASE j < f
          <5>1. j \in 1..(f - 1)
            BY <4>2
          <5> QED
            BY <5>1, <2>6, <2>7 DEF IsSplit
        <4> QED
          BY <4>1, <4>2
      <3>2. ASSUME NEW j \in ((f + 1) + 2)..((L + 1) + 1) PROVE out[j] = mid[j - 1]
        <4>1. /\ j \in (f + 3)..(L + 2) /\ j - 1 \in (f + 2)..(L + 1)
              /\ (j - 1) - 1 = j - 2
          BY <1>1
        <4>2. mid[j - 1] = list[(j - 1) - 1]
          BY <4>1, <2>6 DEF IsSplit
        <4> QED
          BY <4>1, <4>2, <2>7
      <3> QED
        BY <3>1, <3>2, <2>2, <2>5, <2>7 DEF IsSplit
    <2>9. TiledBy(out, heap)
      <3>1. /\ lead.size > 0 /\ rest.size > 0
            /\ lead.start = list[f].start
            /\ rest.start = lead.start + lead.size
            /\ lead.size + rest.size = list[f].size
        BY <1>1, <1>4, <1>5, <1>10
      <3>2. TiledBy(mid, heap)
        BY <3>1, <2>6, <1>3, SplitTiled
      <3>3. mid[f + 1] = rest
        BY <2>6 DEF IsSplit
      <3>4. /\ carved.size > 0 /\ tail.size > 0
            /\ carved.start = mid[f + 1].start
            /\ tail.start = carved.start + carved.size
            /\ carved.size + tail.size = mid[f + 1].size
        BY <3>3, <1>1, <1>4, <1>10
      <3>5. f + 1 \in 1..Len(mid)
        BY <2>2, <2>4
      <3> QED
        BY <3>2, <3>4, <3>5, <2>8, <1>3, SplitTiled
    <2>10. UsesOf(out) = UsesOf(list) \union {Use(carved)}
      <3>1. UsesIn(lead, rest) = {}
        BY <1>4 DEF UsesIn
      <3>2. UsesOf(mid) = UsesOf(list)
        <4>1. UsesOf(mid) = UsesOf(list) \union UsesIn(lead, rest)
          BY <2>6, <1>1, <1>3, SplitUses
        <4> QED
          BY <4>1, <3>1
      <3>3. UsesIn(carved, tail) = {Use(carved)}
        BY <1>4 DEF UsesIn
      <3>4. mid[f + 1].free = 1 /\ f + 1 \in 1..Len(mid)
        BY <2>2, <2>4, <2>6, <1>4 DEF IsSplit
      <3>5. UsesOf(out) = UsesOf(mid) \union {Use(carved)}
        <4>1. UsesOf(out) = UsesOf(mid) \union UsesIn(carved, tail)
          <5>1. mid \in Seq(Chunk)
            BY <2>2
          <5> QED
            BY <5>1, <3>4, <2>8, <1>3, SplitUses
        <4> QED
          BY <4>1, <3>3
      <3> QED
        BY <3>2, <3>5
    <2>11. NoFreePair(out)
      <3>1. \A j \in (f + 2 + 1)..Len(out) : out[j] = list[j - 2]
        <4>1. Len(out) = L + 2 /\ f + 2 + 1 = f + 3
          BY <2>5, <1>1
        <4> QED
          BY <4>1, <2>7
      <3>2. \A j \in f..(f + 2 - 1) : ~ (out[j].free = 1 /\ out[j + 1].free = 1)
        <4>1. \A j \in f..(f + 2 - 1) : j = f \/ j = f + 1
          OBVIOUS
        <4> QED
          BY <4>1, <2>7, <1>4, SMTT(30)
      <3>3. Len(out) = L + 2
        BY <2>5, <1>1
      <3> QED
        BY <3>1, <3>2, <3>3, <2>5, <2>7, <1>1, ReplaceCoalesced
    <2> QED
      BY <2>9, <2>10, <2>11 DEF out, carved
  <1> QED
    BY <1>7, <1>8, <1>9, <1>10 DEF out, carved

\* alloc() carves the chunk it chose.
LEMMA CarveChunkInv ==
  ASSUME IInv, CarveChunk
  PROVE  IInv'
  <1> DEFINE L == Len(mList)
             f == free_chunk
             e == Lead(f)
             t == mList[f].size - (size + Lead(f))
             heap == mHeapSize \div kMemoryAlign
  <1>1. /\ mList \in Seq(Chunk) /\ L \in Nat /\ size \in Nat /\ size > 0
        /\ mHeapSize \in Nat
        /\ pc = "carve" /\ pc' = "idle" /\ f # 0
        /\ mHeapSize' = mHeapSize /\ size' = size
    BY DEF IInv, TypeOK, Control, CarveChunk
  <1>2. f \in 1..L /\ Fits(mList[f], size)
    BY <1>1 DEF IInv, BestFit
  <1>3. /\ mList[f] \in Chunk /\ mList[f].size \in Nat /\ mList[f].start \in Nat
        /\ mList[f].free = 1
        /\ mList[f].size >= size
        /\ mList[f].size = size => Extra(mList[f].start) = 0
        /\ mList[f].size >= size + Extra(mList[f].start)
        /\ Extra(mList[f].start) \in Nat
    <2>1. mList[f] \in Chunk
      BY <1>1, <1>2
    <2> QED
      BY <2>1, <1>1, <1>2, FitsFacts DEF Chunk
  <1>4. /\ e \in Nat /\ t \in Nat
        /\ mList[f].size = e + size + t
        /\ e = Extra(mList[f].start)
    BY <1>1, <1>3 DEF Lead
  <1>5. /\ mList' = TailCut(mList, f, size, e, t)
        /\ Carved(f) = HandedOut(mList, f, size, e)
    BY DEF CarveChunk, WithTail, WithLead, Carved, TailCut, LeadCut, HandedOut
  <1>6. mHeapSize # 0
    BY <1>1 DEF IInv, Control
  <1>7. TiledBy(mList, heap)
    BY <1>1, <1>6 DEF IInv, Tiles, Ordered, TiledBy
  <1>8. NoFreePair(mList)
    BY <1>1 DEF IInv, Coalesced, NoFreePair
  <1> HIDE DEF e, t, heap
  <1>9. /\ TiledBy(mList', heap)
        /\ UsesOf(mList') = UsesOf(mList) \union {Use(Carved(f))}
        /\ NoFreePair(mList')
    <2>1. size \in Nat \ {0}
      BY <1>1
    <2> QED
      BY <2>1, <1>2, <1>3, <1>4, <1>5, <1>7, <1>8, CarveList
  <1>10. Carved(f).start = mList[f].start + e /\ Carved(f).size = size
    BY DEF Carved, e
  <1>11. Use(Carved(f)) = [start |-> Carved(f).start, size |-> size]
    BY <1>10 DEF Use
  <1>12. Carved(f).start \in Nat
    BY <1>3, <1>4, <1>10
  <1>13. held' = held \union {Use(Carved(f))}
    BY <1>11 DEF CarveChunk
  <1>14. TypeOK'
    <2>1. mList' \in Seq(Chunk)
      BY <1>9 DEF TiledBy
    <2>2. ret' \in Int
      BY <1>12 DEF CarveChunk, kMemoryAlign
    <2>3. held' \subseteq [start : Nat, size : Nat]
      BY <1>1, <1>11, <1>12, <1>13 DEF IInv, TypeOK
    <2> QED
      BY <2>1, <2>2, <2>3, <1>1 DEF IInv, TypeOK, CarveChunk
  <1>15. Tiles' /\ Ordered'
    BY <1>1, <1>9 DEF TiledBy, Tiles, Ordered, heap
  <1>16. Coalesced'
    BY <1>9 DEF NoFreePair, Coalesced
  <1>17. OwnedExactly'
    <2>1. InUse = UsesOf(mList) /\ InUse' = UsesOf(mList')
      BY DEF InUse, UsesOf, Use
    <2>2. InUse = held
      BY <1>1 DEF IInv, OwnedExactly
    <2>3. InUse' = held'
      BY <2>1, <2>2, <1>9, <1>13
    <2> QED
      BY <2>3, <1>1 DEF OwnedExactly
  <1>18. PageAligned'
    <2>1. Carved(f).start % PageUnits = 0
      BY <1>3, <1>4, <1>10, ExtraFacts
    <2>2. Use(Carved(f)).start = Carved(f).start
      BY DEF Use
    <2> QED
      BY <2>1, <2>2, <1>13 DEF IInv, PageAligned
  <1>19. Control'
    BY <1>1, <1>6 DEF IInv, Control
  <1>20. ScanInv' /\ BestFit'
    BY <1>1 DEF ScanInv, BestFit
  <1> QED
    BY <1>14, <1>15, <1>16, <1>17, <1>18, <1>19, <1>20 DEF IInv

-----------------------------------------------------------------------------
(* The theorems.                                                           *)

\* Every step keeps the invariant.
LEMMA NextInv ==
  ASSUME IInv, [Next]_vars
  PROVE  IInv'
  <1>1. ASSUME NEW bytes \in HeapSizes, SetSize(bytes) PROVE IInv'
    BY <1>1, SetSizeInv
  <1>2. ASSUME NEW bytes \in Requests, Allocate(bytes) PROVE IInv'
    BY <1>2, AllocateInv
  <1>3. ASSUME NEW h \in held, Deallocate(h) PROVE IInv'
    BY <1>3, DeallocateInv
  <1>4. CASE ScanChunk
    BY <1>4, ScanChunkInv
  <1>5. CASE CarveChunk
    BY <1>5, CarveChunkInv
  <1>6. CASE NoMemory
    BY <1>6, NoMemoryInv
  <1>7. CASE FindChunk
    BY <1>7, FindChunkInv
  <1>8. CASE MergeChunk
    BY <1>8, MergeChunkInv
  <1>9. CASE UNCHANGED vars
    BY <1>9, StutterInv
  <1> QED
    BY <1>1, <1>2, <1>3, <1>4, <1>5, <1>6, <1>7, <1>8, <1>9 DEF Next

\* IInv holds in every state of every run of the allocator, for every heap
\* size and every set of requests.
THEOREM Invariance == Spec => []IInv
  BY InitInv, NextInv, PTL DEF Spec

\* alloc() and dealloc() neither lose nor duplicate memory: the list tiles the
\* heap after every iteration of their loops.
THEOREM TilesAlways == Spec => []Tiles
  <1>1. IInv => Tiles
    BY DEF IInv
  <1> QED
    BY <1>1, Invariance, PTL

\* Free neighbours are always merged, but next to the chunk that dealloc() is
\* merging.
THEOREM CoalescedAlways == Spec => []Coalesced
  <1>1. IInv => Coalesced
    BY DEF IInv
  <1> QED
    BY <1>1, Invariance, PTL

\* The chunks in use are exactly what the callers own: dealloc() finds the
\* chunk of every offset handed out and frees no other.
THEOREM OwnedAlways == Spec => []OwnedExactly
  <1>1. IInv => OwnedExactly
    BY DEF IInv
  <1> QED
    BY <1>1, Invariance, PTL

\* Every offset that allocate() hands out is on a page boundary.
THEOREM PageAlignedAlways == Spec => []PageAligned
  <1>1. IInv => PageAligned
    BY DEF IInv
  <1> QED
    BY <1>1, Invariance, PTL

\* The loop of alloc() ends with the first of the smallest chunks that fit.
THEOREM BestFitAlways == Spec => []BestFit
  <1>1. IInv => BestFit
    BY DEF IInv
  <1> QED
    BY <1>1, Invariance, PTL

\* Every variable keeps its type.
THEOREM TypeCorrect == Spec => []TypeOK
  <1>1. IInv => TypeOK
    BY DEF IInv
  <1> QED
    BY <1>1, Invariance, PTL

-----------------------------------------------------------------------------
(* PmemHeap                                                                *)

\* Every set of naturals has a least element: induction without a predicate
\* as a parameter.
LEMMA LeastNat ==
  ASSUME NEW T, T \subseteq Nat, T # {}
  PROVE  \E x \in T : \A y \in T : x <= y
  <1>1. PICK x \in T : \A y \in T : ~ (<<y, x>> \in OpToRel(<, Nat))
    BY NatLessThanWellFounded, WFMin, Zenon
  <1>2. \A y \in T : <<y, x>> \in Nat \X Nat
    OBVIOUS
  <1>3. \A y \in T : ~ (y < x)
    BY <1>1, <1>2 DEF OpToRel
  <1> QED
    BY <1>3

\* Every unit of a tiled heap lies in one chunk of the list.
LEMMA ChunkAt ==
  ASSUME NEW n \in Nat, NEW list, TiledBy(list, n), NEW a \in Nat, a < n
  PROVE  \E i \in 1..Len(list) :
           list[i].start <= a /\ a < list[i].start + list[i].size
  <1> DEFINE L == Len(list)
             Past == {i \in 1..L : a < list[i].start + list[i].size}
  <1>1. /\ L \in Nat /\ L > 0
        /\ \A i \in 1..L : list[i] \in Chunk
        /\ list[L].start + list[L].size = n
        /\ list[1].start = 0
        /\ \A i \in 1..(L - 1) : list[i + 1].start = list[i].start + list[i].size
    BY DEF TiledBy
  <1>2. \A i \in 1..L : list[i].start \in Nat /\ list[i].size \in Nat
    BY <1>1 DEF Chunk
  <1>3. L \in Past
    BY <1>1
  <1>4. Past \subseteq Nat /\ Past # {}
    BY <1>1, <1>3
  <1> HIDE DEF Past
  <1>5. PICK i \in Past : \A j \in Past : i <= j
    BY <1>4, LeastNat
  <1>6. i \in 1..L /\ a < list[i].start + list[i].size
    BY <1>5 DEF Past
  <1>7. list[i].start <= a
    <2>1. CASE i = 1
      BY <2>1, <1>1
    <2>2. CASE i # 1
      <3>1. i - 1 \in 1..(L - 1) /\ i - 1 \in 1..L /\ (i - 1) + 1 = i
        BY <2>2, <1>1, <1>6
      <3>2. i - 1 \notin Past
        BY <1>5, <1>6, <1>1
      <3>3. ~ (a < list[i - 1].start + list[i - 1].size)
        BY <3>1, <3>2 DEF Past
      <3>4. list[i].start = list[i - 1].start + list[i - 1].size
        BY <3>1, <1>1
      <3> QED
        BY <3>1, <3>3, <3>4, <1>2, <1>6
    <2> QED
      BY <2>1, <2>2
  <1> QED
    BY <1>6, <1>7

\* A page boundary at or behind s is not before the one that Extra() skips to.
LEMMA ExtraLeast ==
  ASSUME NEW s \in Nat, NEW p \in Nat, s <= p * PageUnits
  PROVE  s + Extra(s) <= p * PageUnits
  BY DEF Extra, PageUnits, PageSize, kMemoryAlign

\* The request that a scan is for.
Asked == pc \in {"scan", "carve"} => \E bytes \in Requests : size = Units(bytes)

\* alloc() looks for what allocate() was asked for.
LEMMA AskedAlways == Spec => []Asked
  <1>1. Init => Asked
    BY DEF Init, Asked
  <1>2. Asked /\ [Next]_vars => Asked'
    <2> SUFFICES ASSUME Asked, [Next]_vars PROVE Asked'
      OBVIOUS
    <2>1. ASSUME NEW bytes \in HeapSizes, SetSize(bytes) PROVE Asked'
      BY <2>1 DEF Asked, SetSize
    <2>2. ASSUME NEW bytes \in Requests, Allocate(bytes) PROVE Asked'
      BY <2>2 DEF Asked, Allocate
    <2>3. ASSUME NEW h \in held, Deallocate(h) PROVE Asked'
      BY <2>3 DEF Asked, Deallocate
    <2>4. CASE ScanChunk
      BY <2>4 DEF Asked, ScanChunk
    <2>5. CASE CarveChunk
      BY <2>5 DEF Asked, CarveChunk
    <2>6. CASE NoMemory
      BY <2>6 DEF Asked, NoMemory
    <2>7. CASE FindChunk
      BY <2>7 DEF Asked, FindChunk
    <2>8. CASE MergeChunk
      BY <2>8 DEF Asked, MergeChunk
    <2>9. CASE UNCHANGED vars
      BY <2>9 DEF Asked, vars
    <2> QED
      BY <2>1, <2>2, <2>3, <2>4, <2>5, <2>6, <2>7, <2>8, <2>9 DEF Next
  <1> QED
    BY <1>1, <1>2, PTL DEF Spec

\* The list of a state in which alloc() carves or gives up.
LEMMA AtCarve ==
  ASSUME IInv, pc = "carve"
  PROVE  /\ mHeapSize \in Nat /\ mHeapSize # 0 /\ mHeapSize % PageSize = 0
         /\ mHeapSize \div kMemoryAlign \in Nat
         /\ mHeapSize \div kMemoryAlign # 0
         /\ TiledBy(mList, mHeapSize \div kMemoryAlign)
         /\ NoFreePair(mList)
         /\ mList \in Seq(Chunk)
         /\ Len(mList) \in Nat
         /\ \A i \in 1..Len(mList) : mList[i] \in Chunk
         /\ \A i \in 1..Len(mList) : mList[i].start \in Nat /\ mList[i].size \in Nat
         /\ size \in Nat /\ size > 0
         /\ InUse = held
  <1>1. mHeapSize \in Nat /\ mHeapSize # 0 /\ mHeapSize % PageSize = 0
    BY DEF IInv, TypeOK, Control
  <1>2. /\ mHeapSize \div kMemoryAlign \in Nat
        /\ mHeapSize \div kMemoryAlign # 0
    BY <1>1 DEF kMemoryAlign, PageSize
  <1>3. TiledBy(mList, mHeapSize \div kMemoryAlign)
    BY <1>1 DEF IInv, TypeOK, Tiles, Ordered, TiledBy
  <1>4. NoFreePair(mList)
    BY DEF IInv, Coalesced, NoFreePair
  <1>5. /\ mList \in Seq(Chunk) /\ Len(mList) \in Nat
        /\ \A i \in 1..Len(mList) : mList[i] \in Chunk
    BY DEF IInv, TypeOK
  <1>6. size \in Nat /\ size > 0
    BY DEF IInv, TypeOK, Control
  <1>7. InUse = held
    BY DEF IInv, OwnedExactly
  <1>8. \A i \in 1..Len(mList) : mList[i].start \in Nat /\ mList[i].size \in Nat
    BY <1>5 DEF Chunk
  <1> QED
    BY <1>1, <1>2, <1>3, <1>4, <1>5, <1>6, <1>7, <1>8

\* The chunks in use are regions of the heap's list.
LEMMA InUseChunk ==
  ASSUME NEW i \in 1..Len(mList), mList[i].free = 0
  PROVE  [start |-> mList[i].start, size |-> mList[i].size] \in InUse
  BY DEF InUse

\* alloc() hands out a region that starts on a page, lies within the heap and
\* overlaps no other: Grant of the abstract heap.
LEMMA CarveGrants ==
  ASSUME IInv, Asked, CarveChunk, IInv'
  PROVE  Heap!Next
  <1> DEFINE f == free_chunk
             c == Carved(f)
             n == mHeapSize \div kMemoryAlign
             p == c.start \div PageUnits
  <1>1. /\ pc = "carve" /\ pc' = "idle" /\ f # 0 /\ mHeapSize' = mHeapSize
        /\ ret' = c.start * kMemoryAlign
        /\ held' = held \union {[start |-> c.start, size |-> size]}
    BY DEF CarveChunk
  <1>2. PICK bytes \in Requests : size = Units(bytes)
    BY <1>1 DEF Asked
  <1>3. Heap!UnitsFor(bytes) = size
    BY <1>2 DEF Heap!UnitsFor, Heap!AlignBytes, Units, kMemoryAlign
  <1>4. f \in 1..Len(mList) /\ Fits(mList[f], size)
    BY <1>1 DEF IInv, BestFit
  <1>5. /\ mList[f].free = 1
        /\ mList[f].size >= size
        /\ mList[f].size = size => Extra(mList[f].start) = 0
        /\ mList[f].size >= size + Extra(mList[f].start)
        /\ Extra(mList[f].start) \in Nat
        /\ mList[f].start \in Nat /\ mList[f].size \in Nat
        /\ size \in Nat /\ size > 0
    BY <1>1, <1>4, AtCarve, FitsFacts
  <1>6. c.start = mList[f].start + Extra(mList[f].start) /\ c.start \in Nat
    BY <1>5 DEF Carved, Lead
  <1>7. c.start % PageUnits = 0
    BY <1>5, <1>6, ExtraFacts
  <1>8. /\ c.start + size <= mList[f].start + mList[f].size
        /\ mList[f].start <= c.start
    BY <1>5, <1>6
  <1>9. mList[f].start + mList[f].size <= n
    <2>1. /\ TiledBy(mList, n) /\ Len(mList) \in Nat
          /\ \A i \in 1..Len(mList) : mList[i].start \in Nat /\ mList[i].size \in Nat
      BY <1>1, AtCarve
    <2> HIDE DEF n
    <2>2. CASE f = Len(mList)
      BY <2>1, <2>2, <1>5 DEF TiledBy
    <2>3. CASE f # Len(mList)
      <3>1. Len(mList) \in 1..Len(mList) /\ f < Len(mList)
        BY <2>1, <2>3, <1>4
      <3>2. mList[f].start + mList[f].size <= mList[Len(mList)].start
        BY <3>1, <2>1, <1>4 DEF TiledBy
      <3>3. mList[Len(mList)].start + mList[Len(mList)].size = n
        BY <2>1 DEF TiledBy
      <3>4. /\ mList[Len(mList)].start \in Nat /\ mList[Len(mList)].size \in Nat
            /\ mList[f].start \in Nat /\ mList[f].size \in Nat
        BY <3>1, <2>1, <1>4
      <3> DEFINE s == mList[f].start
                 z == mList[f].size
                 t == mList[Len(mList)].start
                 m == mList[Len(mList)].size
      <3>5. s \in Nat /\ z \in Nat /\ t \in Nat /\ m \in Nat /\ s + z <= t /\ t + m = n
        BY <3>2, <3>3, <3>4
      <3>6. SUFFICES s + z <= n
        OBVIOUS
      <3> HIDE DEF s, z, t, m
      <3> QED
        BY <3>5
    <2> QED
      BY <2>2, <2>3
  <1>10. n \in Nat /\ n # 0
    BY <1>1, AtCarve
  <1> HIDE DEF n, c
  <1>11. /\ p \in Nat /\ p * Heap!UnitsPerPage = c.start
         /\ ret' = p * Heap!PageBytes
    BY <1>1, <1>6, <1>7 DEF PageUnits, PageSize, kMemoryAlign,
         Heap!UnitsPerPage, Heap!PageBytes, Heap!AlignBytes
  <1>12. c.start + size <= n
    BY <1>5, <1>6, <1>8, <1>9, <1>10
  <1>13. p \in 0..(n \div Heap!UnitsPerPage)
    BY <1>5, <1>6, <1>10, <1>11, <1>12
       DEF Heap!UnitsPerPage, Heap!PageBytes, Heap!AlignBytes
  <1> HIDE DEF p
  <1>14. Heap!Region(p, size) = [start |-> c.start, size |-> size]
    BY <1>11 DEF Heap!Region
  <1>15. ASSUME NEW o \in InUse
         PROVE  Heap!Disjoint(Heap!Region(p, size), o)
    <2>1. PICK j \in 1..Len(mList) :
            mList[j].free = 0 /\ o = [start |-> mList[j].start, size |-> mList[j].size]
      BY <1>15 DEF InUse
    <2>2. j # f
      BY <2>1, <1>5
    <2>3. /\ TiledBy(mList, n) /\ Len(mList) \in Nat
          /\ mList[j].start \in Nat /\ mList[j].size \in Nat
      BY <1>1, <2>1, AtCarve DEF n
    <2>4. j < f \/ f < j
      BY <2>2, <2>3, <1>4
    <2>5. \/ mList[j].start + mList[j].size <= mList[f].start
          \/ mList[f].start + mList[f].size <= mList[j].start
      BY <2>3, <2>4, <1>4 DEF TiledBy
    <2> DEFINE s == mList[j].start
               z == mList[j].size
               t == mList[f].start
               m == mList[f].size
               q == c.start
    <2>6. /\ s \in Nat /\ z \in Nat /\ t \in Nat /\ m \in Nat /\ q \in Nat
          /\ size \in Nat /\ t <= q /\ q + size <= t + m
          /\ s + z <= t \/ t + m <= s
      BY <2>3, <2>5, <1>5, <1>6, <1>8
    <2>7. s + z <= q \/ q + size <= s
      <3> HIDE DEF s, z, t, m, q
      <3> QED
        BY <2>6
    <2> QED
      BY <2>1, <2>7, <1>14 DEF Heap!Disjoint
  <1>16. p \in Heap!Room(size)
    BY <1>11, <1>12, <1>13, <1>15 DEF Heap!Room, n
  <1>17. InUse' = InUse \union {Heap!Region(p, size)}
    <2>1. InUse = held
      BY <1>1, AtCarve
    <2>2. InUse' = held'
      BY <1>1 DEF IInv, OwnedExactly
    <2> QED
      BY <2>1, <2>2, <1>1, <1>14
  <1>18. Heap!Grant(bytes)
    BY <1>1, <1>3, <1>10, <1>11, <1>16, <1>17 DEF Heap!Grant, n
  <1> QED
    BY <1>18 DEF Heap!Next

\* alloc() without a chunk that fits has no page with enough free memory
\* behind it: Refuse of the abstract heap.  Such a page would lie in a chunk,
\* which is free and whose successor is in use, so the whole region would lie
\* in that chunk, and it would fit.
LEMMA NoMemoryRefuses ==
  ASSUME IInv, Asked, NoMemory
  PROVE  Heap!Next
  <1> DEFINE n == mHeapSize \div kMemoryAlign
             L == Len(mList)
  <1>1. /\ pc = "carve" /\ free_chunk = 0 /\ ret' = ENOMEM
        /\ mHeapSize' = mHeapSize /\ mList' = mList
    BY DEF NoMemory
  <1>2. PICK bytes \in Requests : size = Units(bytes)
    BY <1>1 DEF Asked
  <1>3. Heap!UnitsFor(bytes) = size
    BY <1>2 DEF Heap!UnitsFor, Heap!AlignBytes, Units, kMemoryAlign
  <1>4. /\ n \in Nat /\ n # 0 /\ TiledBy(mList, n) /\ NoFreePair(mList)
        /\ L \in Nat /\ size \in Nat /\ size > 0
        /\ \A i \in 1..L : mList[i] \in Chunk
        /\ \A i \in 1..L : mList[i].start \in Nat /\ mList[i].size \in Nat
    BY <1>1, AtCarve
  <1>5. \A i \in 1..L : ~ Fits(mList[i], size)
    BY <1>1 DEF IInv, BestFit
  <1> HIDE DEF n
  <1>6. ASSUME NEW p \in Heap!Room(size) PROVE FALSE
    <2> DEFINE a == p * PageUnits
    <2>1. p \in Nat /\ a \in Nat /\ a + size <= n
      BY <1>4, <1>6 DEF Heap!Room, n, PageUnits, PageSize, kMemoryAlign,
           Heap!UnitsPerPage, Heap!PageBytes, Heap!AlignBytes
    <2>2. \A o \in InUse : a + size <= o.start \/ o.start + o.size <= a
      BY <1>6 DEF Heap!Room, Heap!Disjoint, Heap!Region, PageUnits, PageSize,
           kMemoryAlign, Heap!UnitsPerPage, Heap!PageBytes, Heap!AlignBytes
    <2>3. a < n
      BY <2>1, <1>4
    <2> HIDE DEF a
    <2>4. PICK i \in 1..L : mList[i].start <= a /\ a < mList[i].start + mList[i].size
      BY <2>1, <2>3, <1>4, ChunkAt
    <2>5. mList[i].free = 1
      <3>1. ASSUME mList[i].free = 0 PROVE FALSE
        <4>1. [start |-> mList[i].start, size |-> mList[i].size] \in InUse
          BY <3>1, InUseChunk
        <4>2. a + size <= mList[i].start \/ mList[i].start + mList[i].size <= a
          BY <4>1, <2>2
        <4> QED
          BY <4>2, <2>1, <2>4, <1>4
      <3>2. mList[i].free \in {0, 1}
        BY <1>4 DEF Chunk
      <3> QED
        BY <3>1, <3>2
    <2>6. a + size <= mList[i].start + mList[i].size
      <3>1. CASE i = L
        BY <3>1, <2>1, <1>4 DEF TiledBy
      <3>2. CASE i # L
        <4>1. i \in 1..(L - 1) /\ i + 1 \in 1..L
          BY <3>2, <1>4
        <4>2. mList[i + 1].start = mList[i].start + mList[i].size
          BY <4>1, <1>4 DEF TiledBy
        <4>3. mList[i + 1].free = 0
          <5>1. mList[i + 1].free # 1
            BY <4>1, <2>5, <1>4 DEF NoFreePair
          <5>2. mList[i + 1].free \in {0, 1}
            BY <4>1, <1>4 DEF Chunk
          <5> QED
            BY <5>1, <5>2
        <4>4. [start |-> mList[i + 1].start, size |-> mList[i + 1].size] \in InUse
          BY <4>1, <4>3, InUseChunk
        <4>5. \/ a + size <= mList[i + 1].start
              \/ mList[i + 1].start + mList[i + 1].size <= a
          BY <4>4, <2>2
        <4> QED
          BY <4>1, <4>2, <4>5, <2>1, <2>4, <1>4
      <3> QED
        BY <3>1, <3>2
    <2>7. mList[i].start + Extra(mList[i].start) <= a
      BY <2>1, <2>4, <1>4, ExtraLeast DEF a
    <2>8. Extra(mList[i].start) \in Nat
      BY <1>4, ExtraFacts
    <2>9. mList[i].size >= size + Extra(mList[i].start)
      BY <2>1, <2>6, <2>7, <2>8, <1>4
    <2> QED
      BY <2>5, <2>9, <1>5 DEF Fits
  <1>7. InUse' = InUse
    BY <1>1 DEF InUse
  <1>8. Heap!Refuse(bytes)
    BY <1>1, <1>3, <1>4, <1>6, <1>7 DEF Heap!Refuse, Heap!NoMemoryError, ENOMEM, n
  <1> QED
    BY <1>8 DEF Heap!Next

\* The other steps: setSize() sizes the heap, dealloc() releases a region when
\* it has found the chunk, and the iterations of the loops are stutters.
LEMMA HeapStep ==
  ASSUME IInv, Asked, [Next]_vars, IInv'
  PROVE  [Heap!Next]_(Heap!hvars)
  <1>1. ASSUME NEW bytes \in HeapSizes, SetSize(bytes) PROVE Heap!Next
    <2>1. /\ bytes \in Nat /\ mHeapSize = 0 /\ pc = "idle" /\ pc' = "idle"
          /\ held' = held /\ ret' = ret /\ mHeapSize' = RoundUpToPage(bytes)
      BY <1>1, SizesAreBytes DEF SetSize
    <2>2. InUse' = InUse
      BY <2>1 DEF IInv, OwnedExactly
    <2>3. mHeapSize' \div kMemoryAlign =
            ((bytes + Heap!PageBytes - 1) \div Heap!PageBytes) * Heap!UnitsPerPage
      BY <2>1 DEF RoundUpToPage, PageSize, kMemoryAlign,
           Heap!UnitsPerPage, Heap!PageBytes, Heap!AlignBytes
    <2>4. mHeapSize \div kMemoryAlign = 0
      BY <2>1 DEF kMemoryAlign
    <2> QED
      BY <2>1, <2>2, <2>3, <2>4 DEF Heap!Next, Heap!SetHeap
  <1>2. ASSUME NEW bytes \in Requests, Allocate(bytes) PROVE UNCHANGED Heap!hvars
    BY <1>2 DEF Allocate, InUse, Heap!hvars
  <1>3. ASSUME NEW h \in held, Deallocate(h) PROVE UNCHANGED Heap!hvars
    BY <1>3 DEF Deallocate, InUse, Heap!hvars
  <1>4. CASE ScanChunk
    BY <1>4 DEF ScanChunk, InUse, Heap!hvars
  <1>5. CASE CarveChunk
    BY <1>5, CarveGrants
  <1>6. CASE NoMemory
    BY <1>6, NoMemoryRefuses
  <1>7. CASE FindChunk
    <2>1. CASE mList[cur].start = start
      <3>1. pc = "find" /\ pc' = "merge" /\ held' = held /\ ret' = ret
            /\ mHeapSize' = mHeapSize
        BY <1>7, <2>1 DEF FindChunk
      <3>2. PICK i \in cur..Len(mList) :
              LET o == [start |-> start, size |-> mList[i].size]
              IN InUse = held \union {o} /\ o \notin held
        BY <3>1 DEF IInv, OwnedExactly
      <3>3. InUse' = held
        BY <3>1 DEF IInv, OwnedExactly
      <3>4. InUse' = InUse \ {[start |-> start, size |-> mList[i].size]}
            /\ [start |-> start, size |-> mList[i].size] \in InUse
        BY <3>2, <3>3
      <3> QED
        BY <3>1, <3>4 DEF Heap!Next, Heap!Release
    <2>2. CASE mList[cur].start # start
      BY <1>7, <2>2 DEF FindChunk, InUse, Heap!hvars
    <2> QED
      BY <2>1, <2>2
  <1>8. CASE MergeChunk
    <2>1. /\ pc = "merge" /\ pc' \in {"merge", "idle"} /\ held' = held
          /\ ret' = ret /\ mHeapSize' = mHeapSize
      BY <1>8 DEF MergeChunk
    <2>2. InUse' = InUse
      BY <2>1 DEF IInv, OwnedExactly
    <2> QED
      BY <2>1, <2>2 DEF Heap!hvars
  <1>9. CASE UNCHANGED vars
    BY <1>9 DEF vars, InUse, Heap!hvars
  <1> QED
    BY <1>1, <1>2, <1>3, <1>4, <1>5, <1>6, <1>7, <1>8, <1>9 DEF Next

\* SimpleBestFitAllocator keeps what PmemUserspaceAllocator relies on: every
\* run of its loops, seen from outside, is a run of the abstract heap.  In
\* particular allocate() answers -ENOMEM only when no page boundary has
\* enough free memory behind it.
THEOREM HeapImplemented == Spec => Heap!Spec
  <1>1. Init => Heap!Init
    BY DEF Init, Heap!Init, InUse, kMemoryAlign
  <1>2. IInv /\ IInv' /\ Asked /\ [Next]_vars => [Heap!Next]_(Heap!hvars)
    BY HeapStep
  <1> QED
    BY <1>1, <1>2, Invariance, AskedAlways, PTL DEF Spec, Heap!Spec
=============================================================================

--------------------------- MODULE PmemAllocator ---------------------------
(***************************************************************************)
(* libgralloc/pmemalloc.cpp: PmemUserspaceAllocator, which carves buffers  *)
(* out of /dev/pmem with the heap that PmemHeap specifies, and             *)
(* PmemKernelAllocator, which asks /dev/pmem_adsp for one mapping per      *)
(* buffer; and the end of gpu_context_t::free_impl(), which lets           *)
(* terminateBuffer() unmap a buffer of the second kind once more and       *)
(* closes the descriptor of either kind.                                   *)
(*                                                                         *)
(* Threads interleave between the calls that take a lock or enter the      *)
(* kernel; every such call may fail.                                       *)
(***************************************************************************)
EXTENDS Integers, FiniteSets, FiniteSetsExt

CONSTANTS
  Threads,   \* callers of gralloc_alloc() and gralloc_free()
  PmemSize,  \* the literal that init_pmem_area_locked() passes to setSize()
  Requests,  \* sizes of buffers in bytes, whole pages
  Errnos,    \* values of errno
  MaxFd,     \* the highest descriptor the process may have
  MaxPage,   \* the last page of the addresses that mmap() may answer
  MaxStuck   \* bound on the buffers that a free could not unmap

\* clp2(): the next power of two.
Clp2 ==
  [n \in Requests |-> CHOOSE p \in {2 ^ k : k \in 0..30} : p >= n /\ (p = 1 \/ p \div 2 < n)]

\* alloc_impl() refuses a buffer of no bytes; errno is positive; clp2() does not
\* overflow.
ASSUME PmemAssumption ==
  /\ PmemSize \in Nat
  /\ Requests \subseteq Nat \ {0}
  /\ Errnos \subseteq Nat \ {0}
  /\ \A n \in Requests : Clp2[n] \in Nat /\ Clp2[n] >= n
  /\ MaxFd \in Nat
  /\ MaxPage \in Nat
  /\ MaxStuck \in Nat

VARIABLES
  master_fd,   \* MASTER_FD_INIT, the descriptor of the heap, or -errno
  initFailed,  \* some init_pmem_area_locked() has failed
  fds,         \* the open descriptors
  mapped,      \* what sub-heaps can reach: after PMEM_MAP, before PMEM_UNMAP
  adsp,        \* the pages at which /dev/pmem_adsp is mapped
  stuck,       \* the buffers whose PMEM_UNMAP failed
  leaked,      \* the buffers of /dev/pmem_adsp whose munmap() failed
  exposed,     \* those that mmap() put where another is still to be unmapped
  bufs,        \* the buffers that callers own
  pc, job,     \* where each thread is, and the buffer it works on
  heap, owned, ret    \* the heap: see PmemHeap

Heap == INSTANCE PmemHeap WITH HeapSizes <- {PmemSize}

hvars == <<heap, owned, ret>>
avars == <<adsp, leaked, exposed>>
vars == <<master_fd, initFailed, fds, mapped, avars, stuck, bufs, pc, job, hvars>>

-----------------------------------------------------------------------------

MASTER_FD_INIT == -1

NoBuffer == [kind |-> "none", size |-> 0, offset |-> 0, base |-> 0, fd |-> -1]

FreeFds == (3..MaxFd) \ fds

\* open() answers the lowest free descriptor.
NewFd == Min(FreeFds)

\* The region of the heap that a buffer occupies.
RegionOf(b) == [start |-> b.offset \div 32, size |-> (b.size + 31) \div 32]

\* The pages that a call about length bytes at b.base concerns.
PagesOf(b, length) == b.base..(b.base + (length + 4095) \div 4096 - 1)

\* What alloc_pmem_buffer() maps and free_pmem_buffer() unmaps, and what
\* terminateBuffer() unmaps, which does not round the size up.
Whole(b) == PagesOf(b, Clp2[b.size])
Part(b) == PagesOf(b, b.size)

AdspBufs == {b \in bufs : b.kind = "adsp"}

\* The pages that buffers occupy, or that a free is still to unmap.
Claimed ==
  UNION ({Whole(b) : b \in AdspBufs}
           \union {Part(job[t]) : t \in {u \in Threads : pc[u] = "terminate"}})

Goto(t, label) == pc' = [pc EXCEPT ![t] = label]

Return(t) ==
  /\ Goto(t, "idle")
  /\ job' = [job EXCEPT ![t] = NoBuffer]

Init ==
  /\ master_fd = MASTER_FD_INIT
  /\ initFailed = FALSE
  /\ fds = {} /\ mapped = {} /\ stuck = {} /\ bufs = {}
  /\ adsp = {} /\ leaked = {} /\ exposed = {}
  /\ pc = [t \in Threads |-> "idle"]
  /\ job = [t \in Threads |-> NoBuffer]
  /\ Heap!Init

-----------------------------------------------------------------------------
(* PmemUserspaceAllocator                                                  *)

\* alloc_pmem_buffer() is entered.
AllocPmemBuffer(t, size) ==
  /\ pc[t] = "idle"
  /\ Goto(t, "init")
  /\ job' = [job EXCEPT ![t] = [NoBuffer EXCEPT !.kind = "pmem", !.size = size]]
  /\ UNCHANGED <<master_fd, initFailed, fds, mapped, avars, stuck, bufs, hvars>>

\* allocator.setSize(), which refuses a second call.
SetSize == IF heap = 0 THEN Heap!SetHeap(PmemSize) ELSE UNCHANGED hvars

InitSucceeds(t) ==
  /\ FreeFds # {}
  /\ master_fd' = NewFd
  /\ fds' = fds \union {NewFd}
  /\ SetSize
  /\ Goto(t, "allocate")
  /\ UNCHANGED <<initFailed, job>>

InitOpenFails(t, errno) ==
  /\ master_fd' = -errno
  /\ initFailed' = TRUE
  /\ Return(t)
  /\ UNCHANGED <<fds, hvars>>

\* Mutant: the device stays open.
InitMapFailsLeaks(t, errno) ==
  /\ FreeFds # {}
  /\ master_fd' = -errno
  /\ initFailed' = TRUE
  /\ fds' = fds \union {NewFd}
  /\ SetSize
  /\ Return(t)

\* mmap() fails: the device is closed again, the heap keeps its size.
InitMapFails(t, errno) ==
  /\ FreeFds # {}
  /\ master_fd' = -errno
  /\ initFailed' = TRUE
  /\ SetSize
  /\ Return(t)
  /\ UNCHANGED fds

\* init_pmem_area(), under its lock.
InitPmemArea(t) ==
  /\ pc[t] = "init"
  /\ \/ /\ master_fd = MASTER_FD_INIT
        /\ \/ InitSucceeds(t)
           \/ \E errno \in Errnos : InitOpenFails(t, errno) \/ InitMapFails(t, errno)
     \/ /\ master_fd < 0 /\ master_fd # MASTER_FD_INIT
        /\ Return(t)
        /\ UNCHANGED <<master_fd, initFailed, fds, hvars>>
     \/ /\ master_fd >= 0
        /\ Goto(t, "allocate")
        /\ UNCHANGED <<master_fd, initFailed, fds, job, hvars>>
  /\ UNCHANGED <<mapped, avars, stuck, bufs>>

\* allocator.allocate(); an error ends the call.
AllocateRegion(t) ==
  /\ pc[t] = "allocate"
  /\ \/ /\ Heap!Grant(job[t].size)
        /\ job' = [job EXCEPT ![t].offset = ret']
        /\ Goto(t, "open")
     \/ /\ Heap!Refuse(job[t].size)
        /\ Return(t)
  /\ UNCHANGED <<master_fd, initFailed, fds, mapped, avars, stuck, bufs>>

\* open() of the sub-heap; when it fails the region goes back.
OpenSubHeap(t) ==
  /\ pc[t] = "open"
  /\ \/ /\ FreeFds # {}
        /\ fds' = fds \union {NewFd}
        /\ job' = [job EXCEPT ![t].fd = NewFd]
        /\ Goto(t, "map")
     \/ /\ Goto(t, "undo")
        /\ UNCHANGED <<fds, job>>
  /\ UNCHANGED <<master_fd, initFailed, mapped, avars, stuck, bufs, hvars>>

\* PMEM_CONNECT and PMEM_MAP: the caller gets the buffer, or the descriptor
\* is closed.
MapSubHeap(t) ==
  /\ pc[t] = "map"
  /\ \/ /\ mapped' = mapped \union {job[t]}
        /\ bufs' = bufs \union {job[t]}
        /\ Return(t)
        /\ UNCHANGED fds
     \/ /\ fds' = fds \ {job[t].fd}
        /\ job' = [job EXCEPT ![t].fd = -1]
        /\ Goto(t, "undo")
        /\ UNCHANGED <<mapped, bufs>>
  /\ UNCHANGED <<master_fd, initFailed, avars, stuck, hvars>>

\* allocator.deallocate() on the error path.
UndoAllocate(t) ==
  /\ pc[t] = "undo"
  /\ Heap!Release(RegionOf(job[t]))
  /\ Return(t)
  /\ UNCHANGED <<master_fd, initFailed, fds, mapped, avars, stuck, bufs>>

\* free_pmem_buffer(): PMEM_UNMAP, and only if that succeeded the heap gets
\* the region back.
FreePmemBuffer(t, b) ==
  /\ pc[t] = "idle" /\ b.kind = "pmem"
  /\ bufs' = bufs \ {b}
  /\ job' = [job EXCEPT ![t] = b]
  /\ \/ /\ mapped' = mapped \ {b}
        /\ Goto(t, "deallocate")
        /\ UNCHANGED stuck
     \/ /\ Cardinality(stuck) + Cardinality(leaked) < MaxStuck
        /\ stuck' = stuck \union {b}
        /\ Goto(t, "close")
        /\ UNCHANGED mapped
  /\ UNCHANGED <<master_fd, initFailed, fds, avars, hvars>>

DeallocateRegion(t) ==
  /\ pc[t] = "deallocate"
  /\ Heap!Release(RegionOf(job[t]))
  /\ Goto(t, "close")
  /\ UNCHANGED <<master_fd, initFailed, fds, mapped, avars, stuck, bufs, job>>

\* The end of free_impl(), whatever free_pmem_buffer() answered.
CloseFd(t) ==
  /\ pc[t] = "close"
  /\ fds' = fds \ {job[t].fd}
  /\ Return(t)
  /\ UNCHANGED <<master_fd, initFailed, mapped, avars, stuck, bufs, hvars>>

-----------------------------------------------------------------------------
(* PmemKernelAllocator                                                     *)

\* alloc_pmem_buffer(): open().
OpenAdsp(t, size) ==
  /\ pc[t] = "idle"
  /\ FreeFds # {}
  /\ fds' = fds \union {NewFd}
  /\ job' = [job EXCEPT ![t] =
                [kind |-> "adsp", size |-> size, offset |-> 0, base |-> 0, fd |-> NewFd]]
  /\ Goto(t, "mapadsp")
  /\ UNCHANGED <<master_fd, initFailed, mapped, avars, stuck, bufs, hvars>>

\* alloc_pmem_buffer(): mmap(), which answers pages that are not mapped, and
\* close() when it fails.
MapAdsp(t) ==
  /\ pc[t] = "mapadsp"
  /\ \/ \E base \in 0..MaxPage :
          LET b == [job[t] EXCEPT !.base = base]
          IN /\ Whole(b) \subseteq (0..MaxPage) \ adsp
             /\ adsp' = adsp \union Whole(b)
             /\ bufs' = bufs \union {b}
             /\ exposed' = IF Whole(b) \intersect Claimed = {} THEN exposed
                           ELSE exposed \union {b}
             /\ UNCHANGED fds
     \/ /\ fds' = fds \ {job[t].fd}
        /\ UNCHANGED <<adsp, bufs, exposed>>
  /\ Return(t)
  /\ UNCHANGED <<master_fd, initFailed, mapped, stuck, leaked, hvars>>

\* free_pmem_buffer(): munmap() of a length computed once more; whether it
\* succeeds makes no difference to what follows.
FreeAdspBuffer(t, b) ==
  /\ pc[t] = "idle" /\ b.kind = "adsp"
  /\ bufs' = bufs \ {b}
  /\ exposed' = exposed \ {b}
  /\ job' = [job EXCEPT ![t] = b]
  /\ \/ adsp' = adsp \ Whole(b) /\ UNCHANGED leaked
     \/ /\ Cardinality(stuck) + Cardinality(leaked) < MaxStuck
        /\ leaked' = leaked \union {b} /\ UNCHANGED adsp
  /\ Goto(t, "terminate")
  /\ UNCHANGED <<master_fd, initFailed, fds, mapped, stuck, hvars>>

\* free_impl() calls terminateBuffer(), which has nothing to do for a buffer of
\* /dev/pmem of this process: munmap() once more, which may fail.
TerminateBuffer(t) ==
  /\ pc[t] = "terminate"
  /\ adsp' \in {adsp, adsp \ Part(job[t])}
  /\ Goto(t, "close")
  /\ UNCHANGED <<master_fd, initFailed, fds, mapped, leaked, exposed, stuck, bufs, job, hvars>>

-----------------------------------------------------------------------------

Step(t) ==
  \/ InitPmemArea(t)
  \/ AllocateRegion(t)
  \/ OpenSubHeap(t)
  \/ MapSubHeap(t)
  \/ UndoAllocate(t)
  \/ DeallocateRegion(t)
  \/ TerminateBuffer(t)
  \/ CloseFd(t)
  \/ MapAdsp(t)

Next ==
  \E t \in Threads :
    \/ \E size \in Requests : AllocPmemBuffer(t, size) \/ OpenAdsp(t, size)
    \/ \E b \in bufs : FreePmemBuffer(t, b) \/ FreeAdspBuffer(t, b)
    \/ Step(t)

Spec == Init /\ [][Next]_vars

FairSpec == Spec /\ \A t \in Threads : WF_vars(Step(t))

-----------------------------------------------------------------------------

TypeOK ==
  /\ master_fd \in 3..MaxFd \union {-1} \union {-e : e \in Errnos}
  /\ initFailed \in BOOLEAN
  /\ fds \subseteq 3..MaxFd
  /\ \A b \in bufs \union mapped : b.kind \in {"pmem", "adsp"} /\ b.fd \in 3..MaxFd
  /\ pc \in [Threads -> {"idle", "init", "allocate", "open", "map", "undo",
                         "deallocate", "terminate", "close", "mapadsp"}]

\* No two sub-heaps reach the same memory: free_pmem_buffer() "can't
\* deallocate the memory in case of UNMAP failure because it would give that
\* process access to someone else's surfaces".
MappedDisjoint ==
  \A a, b \in mapped : a # b => Heap!Disjoint(RegionOf(a), RegionOf(b))

\* The regions the heap has handed out are those of the buffers, of the calls
\* under way and of the failed PMEM_UNMAPs: no error path loses a region or
\* returns one that is in use.
RegionsAccounted ==
  LET inFlight == {job[t] : t \in {u \in Threads : pc[u] \in {"open", "map", "undo", "deallocate"}}}
      live == {b \in bufs \union inFlight \union stuck : b.kind = "pmem"}
  IN owned = {RegionOf(b) : b \in live}

\* A buffer of /dev/pmem_adsp stays mapped over the whole length that the free
\* will unmap, although every free unmaps twice, for as long as it was not put
\* where another thread was between its two munmap()s; and no page stays
\* mapped but for a buffer, or for one whose munmap() failed.
AdspAccounted ==
  /\ \A b \in AdspBufs \ exposed : Whole(b) \subseteq adsp
  /\ adsp \subseteq UNION {Whole(b) : b \in AdspBufs \union leaked}

\* Every open descriptor is that of the heap, of a buffer or of a call under
\* way: no path leaves a descriptor open, and none is closed twice, which
\* would close the descriptor of another thread.
FdsAccounted ==
  LET working == {t \in Threads : pc[t] \in {"map", "deallocate", "terminate", "close", "mapadsp"}}
      master == IF master_fd >= 0 THEN {master_fd} ELSE {}
  IN /\ fds = master \union {b.fd : b \in bufs} \union {job[t].fd : t \in working}
     /\ Cardinality(fds) = Cardinality(master) + Cardinality(bufs) + Cardinality(working)

\* No two sub-heaps reach the same part of /dev/pmem, whichever kernel calls fail.
\* Every region that the heap has handed out, and every open descriptor, belongs
\* to one buffer or to one call on its way: the error paths of
\* alloc_pmem_buffer() and free_pmem_buffer() lose none and give none back twice.
\* The same holds of the pages of /dev/pmem_adsp, but for the buffers that are
\* mapped between the two munmap()s of another thread's free_impl() and for a
\* munmap() that fails.
NothingLeaks ==
  TypeOK /\ MappedDisjoint /\ RegionsAccounted /\ AdspAccounted /\ FdsAccounted

\* gralloc_alloc_buffer(): "PMEM buffers are always mmapped".
AlwaysMapped == \A b \in AdspBufs : Whole(b) \subseteq adsp

\* Every call to allocate or free a buffer returns.
CallsReturn == \A t \in Threads : pc[t] # "idle" ~> pc[t] = "idle"

\* init_pmem_area(): "pmem couldn't be initialized, never use it".
NeverUsedAfterFailure == initFailed => master_fd < 0
=============================================================================

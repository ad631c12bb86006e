------------------------ MODULE PmemAllocator_proofs ------------------------
(***************************************************************************)
(* NothingLeaks, for every set of threads, every set of sizes and every    *)
(* number of descriptors.                                                  *)
(*                                                                         *)
(* What NothingLeaks says of sets of regions and of numbers of descriptors *)
(* is not inductive: an error path may give a region back only because     *)
(* nobody else holds one that overlaps it, and close a descriptor only     *)
(* because nobody else has it.  The invariant says so, holder by holder; a *)
(* holder is a buffer that callers own, one that could not be unmapped, or *)
(* a call under way.                                                       *)
(***************************************************************************)
EXTENDS PmemAllocator, WellFoundedInduction, TLAPS

-----------------------------------------------------------------------------
(* The inductive invariant.                                                *)

\* A buffer that is or was mapped, and what a call works on.
Buffer == [kind : {"pmem", "adsp"}, size : Requests, offset : Nat, base : Nat,
           fd : 3..MaxFd]

Job == [kind : {"none", "pmem", "adsp"}, size : Nat, offset : Nat, base : Nat, fd : Int]

\* The buffers and the calls that hold a region of the heap, and the calls
\* that have a descriptor open.
Kept == {b \in bufs : b.kind = "pmem"} \union stuck

Holding == {t \in Threads : pc[t] \in {"open", "map", "undo", "deallocate"}}

Working == {t \in Threads : pc[t] \in {"map", "deallocate", "terminate", "close", "mapadsp"}}

\* The calls that are between the two munmap()s of a free.
Terminating == {t \in Threads : pc[t] = "terminate"}

\* What each call works on.
Jobs ==
  /\ heap \in Nat
  /\ job \in [Threads -> Job]
  /\ bufs \subseteq Buffer
  /\ stuck \subseteq Buffer
  /\ \A b \in stuck : b.kind = "pmem"
  /\ \A t \in Threads : pc[t] \in {"init", "allocate"} \/ t \in Holding =>
       job[t].kind = "pmem" /\ job[t].size \in Requests
  /\ \A t \in Threads : pc[t] = "mapadsp" =>
       job[t].kind = "adsp" /\ job[t].size \in Requests
  /\ \A t \in Working : job[t].fd \in 3..MaxFd

\* Holders have regions of their own, which do not overlap.
RegionsApart ==
  /\ bufs \intersect stuck = {}
  /\ \A a, b \in Kept : a # b => Heap!Disjoint(RegionOf(a), RegionOf(b))
  /\ \A t \in Holding, b \in Kept : Heap!Disjoint(RegionOf(job[t]), RegionOf(b))
  /\ \A t, u \in Holding :
       t # u => Heap!Disjoint(RegionOf(job[t]), RegionOf(job[u]))

\* The heap has handed out what the holders have, and no more.
RegionsKnown ==
  /\ \A b \in Kept : RegionOf(b) \in owned
  /\ \A t \in Holding : RegionOf(job[t]) \in owned
  /\ \A r \in owned : \/ \E b \in Kept : r = RegionOf(b)
                      \/ \E t \in Holding : r = RegionOf(job[t])

\* The heap, the buffers and the calls have descriptors of their own.
FdsApart ==
  /\ \A a, b \in bufs : a.fd = b.fd => a = b
  /\ \A t \in Working, b \in bufs : job[t].fd # b.fd
  /\ \A t, u \in Working : job[t].fd = job[u].fd => t = u
  /\ \A b \in bufs : b.fd # master_fd
  /\ \A t \in Working : job[t].fd # master_fd

\* They are open, and no other is.
FdsKnown ==
  /\ master_fd >= 0 => master_fd \in fds
  /\ \A b \in bufs : b.fd \in fds
  /\ \A t \in Working : job[t].fd \in fds
  /\ \A f \in fds : \/ f = master_fd
                    \/ \E b \in bufs : f = b.fd
                    \/ \E t \in Working : f = job[t].fd

\* What is mapped of /dev/pmem belongs to the buffers, and to those that could
\* not be unmapped.
MappedKnown == mapped = Kept

\* A buffer of /dev/pmem_adsp that is not exposed shares no page with another,
\* nor with what a free is still to unmap.
AdspApart ==
  /\ \A a, b \in AdspBufs : a # b /\ a \notin exposed => Whole(a) \intersect Whole(b) = {}
  /\ \A a \in AdspBufs, t \in Terminating :
       a \notin exposed => Whole(a) \intersect Part(job[t]) = {}
  /\ \A a \in AdspBufs : a \notin exposed => Whole(a) \subseteq adsp
  /\ \A p \in adsp : \E b \in AdspBufs \union leaked : p \in Whole(b)

\* The inductive invariant.
IInv ==
  /\ TypeOK /\ Jobs /\ RegionsApart /\ RegionsKnown /\ FdsApart /\ FdsKnown /\ MappedKnown
    /\ AdspApart

-----------------------------------------------------------------------------
(* Facts on regions and descriptors.                                       *)

\* Every set of naturals has a least element.
LEMMA LeastNat ==
  ASSUME NEW T, T \subseteq Nat, T # {}
  PROVE  \E x \in T : \A y \in T : x <= y
  <1>1. PICK x \in T : \A y \in T : ~ (<<y, x>> \in OpToRel(<, Nat))
    BY NatLessThanWellFounded, WFMin, Zenon
  <1>2. \A y \in T : <<y, x>> \in Nat \X Nat
    OBVIOUS
  <1>3. \A y \in T : ~ (y < x)
    BY <1>1, <1>2 DEF OpToRel
  <1> QED
    BY <1>3

\* open() answers a descriptor that is not open.
LEMMA NewFdIsFree ==
  ASSUME FreeFds # {}
  PROVE  NewFd \in 3..MaxFd /\ NewFd \notin fds
  <1>1. FreeFds \subseteq Nat
    BY PmemAssumption DEF FreeFds
  <1>2. \E x \in FreeFds : \A y \in FreeFds : x <= y
    BY <1>1, LeastNat
  <1>3. NewFd \in FreeFds
    BY <1>2 DEF NewFd, Min
  <1> QED
    BY <1>3 DEF FreeFds

\* The region of a buffer is not empty.
Region == [start : Nat, size : Nat \ {0}]

LEMMA RegionIsRegion ==
  ASSUME NEW b, b.size \in Nat \ {0}, b.offset \in Nat
  PROVE  RegionOf(b) \in Region
  BY DEF RegionOf, Region

\* Regions that do not overlap are different.
LEMMA DisjointDiffer ==
  ASSUME NEW r \in Region, NEW s \in Region
  PROVE  /\ Heap!Disjoint(r, s) => r # s
         /\ Heap!Disjoint(r, s) => Heap!Disjoint(s, r)
  BY DEF Region, Heap!Disjoint

\* The region of every holder is one.
LEMMA HoldersHaveRegions ==
  ASSUME IInv
  PROVE  /\ \A b \in Kept : RegionOf(b) \in Region
         /\ \A t \in Holding : RegionOf(job[t]) \in Region
         /\ owned \subseteq Region
  <1>1. ASSUME NEW b \in Kept PROVE RegionOf(b) \in Region
    <2>1. b \in Buffer
      BY DEF IInv, Jobs, Kept
    <2>2. b.size \in Nat \ {0} /\ b.offset \in Nat
      BY <2>1, PmemAssumption DEF Buffer
    <2> QED
      BY <2>2, RegionIsRegion
  <1>2. ASSUME NEW t \in Holding PROVE RegionOf(job[t]) \in Region
    <2>1. job[t] \in Job /\ job[t].size \in Requests
      BY DEF IInv, Jobs, Holding
    <2>2. job[t].size \in Nat \ {0} /\ job[t].offset \in Nat
      BY <2>1, PmemAssumption DEF Job
    <2> QED
      BY <2>2, RegionIsRegion
  <1>3. owned \subseteq Region
    BY <1>1, <1>2 DEF IInv, RegionsKnown
  <1> QED
    BY <1>1, <1>2, <1>3

-----------------------------------------------------------------------------
(* The initial state, and the steps that hold neither more nor less.       *)

\* Before the first call.
LEMMA InitInv == Init => IInv
  <1> SUFFICES ASSUME Init PROVE IInv
    OBVIOUS
  <1>1. Kept = {} /\ Holding = {} /\ Working = {} /\ AdspBufs = {} /\ adsp = {}
    BY DEF Init, Kept, Holding, Working, AdspBufs
  <1>2. TypeOK
    BY DEF Init, TypeOK, MASTER_FD_INIT
  <1>3. Jobs
    BY <1>1 DEF Init, Jobs, Job, NoBuffer, Heap!Init
  <1>4. RegionsApart /\ RegionsKnown
    BY <1>1 DEF Init, RegionsApart, RegionsKnown, Heap!Init
  <1>5. FdsApart /\ FdsKnown
    BY <1>1 DEF Init, FdsApart, FdsKnown, MASTER_FD_INIT
  <1>6. MappedKnown /\ AdspApart
    BY <1>1 DEF Init, MappedKnown, AdspApart
  <1> QED
    BY <1>2, <1>3, <1>4, <1>5, <1>6 DEF IInv

\* The types, as facts on one thread.
LEMMA Types ==
  ASSUME IInv, NEW t \in Threads
  PROVE  /\ pc \in [Threads -> {"idle", "init", "allocate", "open", "map", "undo",
                                "deallocate", "terminate", "close", "mapadsp"}]
         /\ job \in [Threads -> Job]
         /\ job[t] \in Job
         /\ bufs \subseteq Buffer /\ stuck \subseteq Buffer
         /\ NoBuffer \in Job
         /\ master_fd \in Int
  BY PmemAssumption DEF IInv, TypeOK, Jobs, NoBuffer, Job

\* A step that leaves the holders and what they hold alone.
LEMMA SameHolders ==
  ASSUME IInv, Kept' = Kept, Holding' = Holding,
         bufs' = bufs, stuck' = stuck, owned' = owned,
         \A t \in Holding : job'[t] = job[t]
  PROVE  RegionsApart' /\ RegionsKnown'
  BY DEF IInv, RegionsApart, RegionsKnown

LEMMA SameFds ==
  ASSUME IInv, Working' = Working, bufs' = bufs, fds' = fds,
         master_fd \in Int, master_fd' \in Int,
         master_fd' = master_fd \/ (master_fd < 0 /\ master_fd' < 0),
         \A t \in Working : job'[t] = job[t]
  PROVE  FdsApart' /\ FdsKnown'
  <1>1. \A b \in bufs : b.fd \in 3..MaxFd
    BY DEF IInv, Jobs, Buffer
  <1>2. \A t \in Working : job[t].fd \in 3..MaxFd
    BY DEF IInv, Jobs
  <1>3. fds \subseteq 3..MaxFd
    BY DEF IInv, TypeOK
  <1>4. ASSUME master_fd < 0, master_fd' < 0 PROVE FdsApart' /\ FdsKnown'
    <2>1. /\ \A b \in bufs : b.fd # master_fd'
          /\ \A t \in Working : job[t].fd # master_fd'
          /\ \A f \in fds : f # master_fd
          /\ ~ (master_fd' >= 0)
      BY <1>1, <1>2, <1>3, <1>4
    <2> QED
      BY <2>1 DEF IInv, FdsApart, FdsKnown
  <1>5. ASSUME master_fd' = master_fd PROVE FdsApart' /\ FdsKnown'
    BY <1>5 DEF IInv, FdsApart, FdsKnown
  <1> QED
    BY <1>4, <1>5

LEMMA SameAdsp ==
  ASSUME IInv, NEW t \in Threads, pc[t] # "terminate", pc'[t] # "terminate",
         \A u \in Threads \ {t} : pc'[u] = pc[u] /\ job'[u] = job[u],
         AdspBufs' = AdspBufs, UNCHANGED avars
  PROVE  AdspApart'
  <1>1. Terminating' = Terminating /\ \A u \in Terminating : job'[u] = job[u]
    BY DEF Terminating
  <1> QED
    BY <1>1 DEF IInv, AdspApart, avars

\* alloc_pmem_buffer() is entered.
LEMMA AllocPmemBufferInv ==
  ASSUME IInv, NEW t \in Threads, NEW size \in Requests, AllocPmemBuffer(t, size)
  PROVE  IInv'
  <1>1. /\ pc[t] = "idle" /\ pc' = [pc EXCEPT ![t] = "init"]
        /\ job' = [job EXCEPT ![t] = [NoBuffer EXCEPT !.kind = "pmem", !.size = size]]
        /\ UNCHANGED <<master_fd, initFailed, fds, mapped, avars, stuck, bufs, heap, owned>>
    BY DEF AllocPmemBuffer, Goto, hvars
  <1>2. Kept' = Kept /\ Holding' = Holding /\ Working' = Working
    BY <1>1, Types DEF Kept, Holding, Working
  <1>3. /\ \A u \in Holding : job'[u] = job[u]
        /\ \A u \in Working : job'[u] = job[u]
    BY <1>1, Types DEF Holding, Working
  <1>4. TypeOK'
    BY <1>1 DEF IInv, TypeOK
  <1>5. Jobs'
    <2>1. job'[t] = [kind |-> "pmem", size |-> size, offset |-> 0, base |-> 0, fd |-> -1]
      BY <1>1, Types DEF NoBuffer
    <2>2. job' \in [Threads -> Job]
      BY <1>1, <2>1, Types, PmemAssumption DEF Job
    <2> QED
      BY <1>1, <1>2, <1>3, <2>1, <2>2 DEF IInv, Jobs, Holding, Working
  <1>6. RegionsApart' /\ RegionsKnown'
    BY <1>1, <1>2, <1>3, SameHolders
  <1>7. FdsApart' /\ FdsKnown'
    BY <1>1, <1>2, <1>3, Types, SameFds
  <1>8. MappedKnown' /\ AdspApart'
    <2>1. MappedKnown'
      BY <1>1, <1>2 DEF IInv, MappedKnown
    <2>2. /\ pc[t] # "terminate" /\ pc'[t] # "terminate"
          /\ \A u \in Threads \ {t} : pc'[u] = pc[u] /\ job'[u] = job[u]
      BY <1>1, <1>2, Types DEF Return, Goto
    <2>3. AdspBufs' = AdspBufs
      BY <1>1, <1>2 DEF AdspBufs
    <2> QED
      BY <1>1, <1>2, <2>1, <2>2, <2>3, SameAdsp
  <1> QED
    BY <1>4, <1>5, <1>6, <1>7, <1>8 DEF IInv

\* A call that ends, holding nothing.
LEMMA ReturnJobs ==
  ASSUME IInv, NEW t \in Threads, t \notin Holding, t \notin Working, Return(t),
         heap' \in Nat, UNCHANGED <<stuck, bufs>>
  PROVE  /\ Jobs'
         /\ pc' \in [Threads -> {"idle", "init", "allocate", "open", "map", "undo",
                                "deallocate", "terminate", "close", "mapadsp"}]
         /\ Kept' = Kept /\ Holding' = Holding /\ Working' = Working
         /\ \A u \in Holding : job'[u] = job[u]
         /\ \A u \in Working : job'[u] = job[u]
  <1>1. /\ pc' = [pc EXCEPT ![t] = "idle"]
        /\ job' = [job EXCEPT ![t] = NoBuffer]
    BY DEF Return, Goto
  <1>2. Kept' = Kept /\ Holding' = Holding /\ Working' = Working
    BY <1>1, Types DEF Kept, Holding, Working
  <1>3. /\ \A u \in Holding : job'[u] = job[u]
        /\ \A u \in Working : job'[u] = job[u]
    BY <1>1, Types DEF Holding, Working
  <1>4. job' \in [Threads -> Job]
    BY <1>1, Types
  <1>5. \A u \in Threads : pc'[u] # "idle" => pc'[u] = pc[u] /\ job'[u] = job[u]
    BY <1>1, Types
  <1>6. Jobs'
    BY <1>2, <1>3, <1>4, <1>5 DEF IInv, Jobs
  <1> QED
    BY <1>1, <1>2, <1>3, <1>6, Types

\* init_pmem_area(): the heap is opened once, or an error is kept.
LEMMA InitPmemAreaInv ==
  ASSUME IInv, NEW t \in Threads, InitPmemArea(t)
  PROVE  IInv'
  <1>1. pc[t] = "init" /\ UNCHANGED <<mapped, avars, stuck, bufs>>
    BY DEF InitPmemArea
  <1>2. t \notin Holding /\ t \notin Working
    BY <1>1 DEF Holding, Working
  <1>3. ASSUME SetSize PROVE heap' \in Nat /\ owned' = owned
    <2>1. CASE heap = 0
      BY <1>3, <2>1, PmemAssumption DEF SetSize, Heap!SetHeap,
           Heap!PageBytes, Heap!UnitsPerPage, Heap!AlignBytes
    <2>2. CASE heap # 0
      BY <1>3, <2>2 DEF SetSize, hvars, IInv, Jobs
    <2> QED
      BY <2>1, <2>2
  <1>4. ASSUME Return(t), heap' \in Nat, owned' = owned, fds' = fds,
               initFailed' \in BOOLEAN,
               \/ master_fd' = master_fd
               \/ master_fd < 0 /\ \E e \in Errnos : master_fd' = -e
        PROVE  IInv'
    <2>1. master_fd' \in Int
      BY <1>4, Types, PmemAssumption
    <2>2. master_fd' = master_fd \/ (master_fd < 0 /\ master_fd' < 0)
      BY <1>4, PmemAssumption
    <2>3. TypeOK'
      BY <1>1, <1>2, <1>4, ReturnJobs DEF IInv, TypeOK
    <2>4. RegionsApart' /\ RegionsKnown'
      BY <1>1, <1>2, <1>4, ReturnJobs, SameHolders
    <2>5. FdsApart' /\ FdsKnown'
      BY <1>1, <1>2, <1>4, <2>1, <2>2, Types, ReturnJobs, SameFds
    <2>6. MappedKnown' /\ AdspApart'
      <3>1. MappedKnown'
        BY <1>1, <1>2, <1>4, ReturnJobs DEF IInv, MappedKnown
      <3>2. /\ pc[t] # "terminate" /\ pc'[t] # "terminate"
            /\ \A u \in Threads \ {t} : pc'[u] = pc[u] /\ job'[u] = job[u]
        BY <1>1, <1>2, <1>4, Types DEF Return, Goto
      <3>3. AdspBufs' = AdspBufs
        BY <1>1, <1>2, <1>4 DEF AdspBufs
      <3> QED
        BY <1>1, <1>2, <1>4, <3>1, <3>2, <3>3, SameAdsp
    <2> QED
      BY <1>1, <1>2, <1>4, <2>3, <2>4, <2>5, <2>6, ReturnJobs DEF IInv
  <1>5. ASSUME Goto(t, "allocate"), job' = job, heap' \in Nat, owned' = owned,
               initFailed' = initFailed,
               \/ UNCHANGED <<master_fd, fds>>
               \/ /\ master_fd < 0 /\ FreeFds # {} /\ master_fd' = NewFd
                  /\ fds' = fds \union {NewFd}
        PROVE  IInv'
    <2>1. Kept' = Kept /\ Holding' = Holding /\ Working' = Working
      BY <1>1, <1>5, Types DEF Goto, Kept, Holding, Working
    <2>2. /\ \A u \in Threads : u # t => pc'[u] = pc[u]
          /\ pc'[t] = "allocate"
      BY <1>5, Types DEF Goto
    <2>3. FreeFds # {} => NewFd \in 3..MaxFd /\ NewFd \notin fds /\ NewFd >= 0
      BY NewFdIsFree
    <2>4. TypeOK'
      BY <1>1, <1>5, <2>3 DEF IInv, TypeOK, Goto
    <2>5. Jobs'
      BY <1>1, <1>5, <2>1, <2>2 DEF IInv, Jobs
    <2>6. RegionsApart' /\ RegionsKnown'
      BY <1>1, <1>5, <2>1, SameHolders
    <2>9. MappedKnown' /\ AdspApart'
      <3>1. MappedKnown'
        BY <1>1, <2>1 DEF IInv, MappedKnown
      <3>2. AdspBufs' = AdspBufs
        BY <1>1 DEF AdspBufs
      <3> QED
        BY <1>1, <1>5, <2>2, <3>1, <3>2, SameAdsp
    <2>7. CASE UNCHANGED <<master_fd, fds>>
      BY <1>1, <1>5, <2>1, <2>7, <2>4, <2>5, <2>6, <2>9, Types, SameFds DEF IInv
    <2>8. CASE /\ master_fd < 0 /\ FreeFds # {} /\ master_fd' = NewFd
               /\ fds' = fds \union {NewFd}
      <3>4. fds \subseteq 3..MaxFd
        BY DEF IInv, TypeOK
      <3>1. \A f \in fds : f # master_fd
        BY <2>8, <3>4
      <3>2. FdsApart'
        BY <1>1, <1>5, <2>1, <2>3, <2>8 DEF IInv, FdsApart, FdsKnown
      <3>3. FdsKnown'
        BY <1>1, <1>5, <2>1, <2>3, <2>8, <3>1 DEF IInv, FdsKnown
      <3> QED
        BY <2>4, <2>5, <2>6, <2>9, <3>2, <3>3 DEF IInv
    <2> QED
      BY <1>5, <2>7, <2>8
  <1>6. ASSUME master_fd = MASTER_FD_INIT, InitSucceeds(t) PROVE IInv'
    BY <1>3, <1>5, <1>6 DEF InitSucceeds, MASTER_FD_INIT
  <1>7. ASSUME master_fd = MASTER_FD_INIT, NEW e \in Errnos, InitOpenFails(t, e)
        PROVE  IInv'
    BY <1>4, <1>7 DEF InitOpenFails, MASTER_FD_INIT, hvars, IInv, Jobs
  <1>8. ASSUME master_fd = MASTER_FD_INIT, NEW e \in Errnos, InitMapFails(t, e)
        PROVE  IInv'
    BY <1>3, <1>4, <1>8 DEF InitMapFails, MASTER_FD_INIT
  <1>9. ASSUME Return(t), UNCHANGED <<master_fd, initFailed, fds, hvars>> PROVE IInv'
    BY <1>4, <1>9 DEF hvars, IInv, Jobs, TypeOK
  <1>10. ASSUME Goto(t, "allocate"), UNCHANGED <<master_fd, initFailed, fds, job, hvars>>
         PROVE  IInv'
    BY <1>5, <1>10 DEF hvars, IInv, Jobs
  <1> QED
    BY <1>6, <1>7, <1>8, <1>9, <1>10 DEF InitPmemArea

-----------------------------------------------------------------------------
(* The steps that take a region or give it back.                           *)

\* allocator.allocate(): the region granted overlaps none that is held.
LEMMA AllocateRegionInv ==
  ASSUME IInv, NEW t \in Threads, AllocateRegion(t)
  PROVE  IInv'
  <1>1. /\ pc[t] = "allocate"
        /\ UNCHANGED <<master_fd, initFailed, fds, mapped, avars, stuck, bufs>>
    BY DEF AllocateRegion
  <1>2. t \notin Holding /\ t \notin Working
    BY <1>1 DEF Holding, Working
  <1>3. CASE Heap!Refuse(job[t].size) /\ Return(t)
    <2>1. heap' \in Nat /\ owned' = owned
      BY <1>3 DEF Heap!Refuse, IInv, Jobs
    <2>2. TypeOK'
      BY <1>1, <1>2, <1>3, <2>1, ReturnJobs DEF IInv, TypeOK
    <2>3. RegionsApart' /\ RegionsKnown'
      BY <1>1, <1>2, <1>3, <2>1, ReturnJobs, SameHolders
    <2>4. FdsApart' /\ FdsKnown'
      BY <1>1, <1>2, <1>3, <2>1, Types, ReturnJobs, SameFds
    <2>5. MappedKnown' /\ AdspApart'
      <3>1. MappedKnown'
        BY <1>1, <1>2, <1>3, <2>1, ReturnJobs DEF IInv, MappedKnown
      <3>2. /\ pc[t] # "terminate" /\ pc'[t] # "terminate"
            /\ \A u \in Threads \ {t} : pc'[u] = pc[u] /\ job'[u] = job[u]
        BY <1>1, <1>2, <1>3, <2>1, Types DEF Return, Goto
      <3>3. AdspBufs' = AdspBufs
        BY <1>1, <1>2, <1>3, <2>1 DEF AdspBufs
      <3> QED
        BY <1>1, <1>2, <1>3, <2>1, <3>1, <3>2, <3>3, SameAdsp
    <2> QED
      BY <1>1, <1>2, <1>3, <2>1, <2>2, <2>3, <2>4, <2>5, ReturnJobs DEF IInv
  <1>4. CASE /\ Heap!Grant(job[t].size)
             /\ job' = [job EXCEPT ![t].offset = ret']
             /\ Goto(t, "open")
    <2> DEFINE n == Heap!UnitsFor(job[t].size)
               r == RegionOf(job'[t])
    <2>1. PICK p \in Heap!Room(n) :
            owned' = owned \union {Heap!Region(p, n)} /\ ret' = p * Heap!PageBytes
      BY <1>4 DEF Heap!Grant
    <2>2. p \in Nat /\ \A o \in owned : Heap!Disjoint(Heap!Region(p, n), o)
      BY <2>1 DEF Heap!Room, IInv, Jobs, Heap!UnitsPerPage, Heap!PageBytes, Heap!AlignBytes
    <2>3. heap' = heap /\ ret' \in Nat
      BY <1>4, <2>1, <2>2 DEF Heap!Grant, Heap!PageBytes
    <2>4. /\ pc' = [pc EXCEPT ![t] = "open"] /\ pc'[t] = "open"
          /\ \A u \in Threads : u # t => pc'[u] = pc[u] /\ job'[u] = job[u]
          /\ job'[t] = [job[t] EXCEPT !.offset = ret']
          /\ job' \in [Threads -> Job]
      <3>1. [job[t] EXCEPT !.offset = ret'] \in Job
        BY <2>3, Types DEF Job
      <3>2. job' = [job EXCEPT ![t] = [job[t] EXCEPT !.offset = ret']]
        BY <1>4
      <3> QED
        BY <1>4, <3>1, <3>2, Types DEF Goto
    <2>5. /\ job'[t].kind = "pmem" /\ job'[t].size = job[t].size
          /\ job[t].size \in Requests /\ job'[t].offset = p * Heap!PageBytes
      BY <1>1, <2>1, <2>4, Types DEF IInv, Jobs, Job
    <2>6. r = Heap!Region(p, n)
      BY <2>2, <2>5, PmemAssumption
         DEF RegionOf, Heap!Region, Heap!UnitsFor, Heap!UnitsPerPage,
             Heap!PageBytes, Heap!AlignBytes
    <2>7. r \in Region
      <3>1. job'[t].size \in Nat \ {0}
        BY <2>5, PmemAssumption
      <3>2. job'[t].offset \in Nat
        <4>1. p * 4096 \in Nat
          BY <2>2
        <4> QED
          BY <4>1, <2>5 DEF Heap!PageBytes
      <3> QED
        BY <3>1, <3>2, RegionIsRegion
    <2> HIDE DEF r, n
    <2>8. Kept' = Kept /\ Holding' = Holding \union {t} /\ Working' = Working
      BY <1>1, <2>4, Types DEF Kept, Holding, Working
    <2>9. /\ \A u \in Holding : job'[u] = job[u]
          /\ \A u \in Working : job'[u] = job[u]
      BY <1>2, <2>4 DEF Holding, Working
    <2>10. TypeOK'
      BY <1>1, <2>4, Types DEF IInv, TypeOK
    <2>11. Jobs'
      <3>1. \A u \in Threads : pc'[u] \in {"init", "allocate", "mapadsp"} =>
              pc'[u] = pc[u] /\ job'[u] = job[u]
        BY <2>4, Zenon
      <3>2. heap' \in Nat /\ job' \in [Threads -> Job]
        BY <2>3, <2>4 DEF IInv, Jobs
      <3> QED
        BY <1>1, <1>2, <2>5, <2>8, <2>9, <3>1, <3>2 DEF IInv, Jobs
    <2>12. /\ \A b \in Kept : Heap!Disjoint(r, RegionOf(b))
           /\ \A u \in Holding : /\ Heap!Disjoint(r, RegionOf(job[u]))
                                 /\ Heap!Disjoint(RegionOf(job[u]), r)
      <3>1. \A o \in owned : Heap!Disjoint(r, o) /\ Heap!Disjoint(o, r)
        BY <2>2, <2>6, <2>7, HoldersHaveRegions, DisjointDiffer
      <3> QED
        BY <3>1 DEF IInv, RegionsKnown
    <2>13. RegionsApart'
      BY <1>1, <1>2, <2>8, <2>9, <2>12 DEF IInv, RegionsApart, r
    <2>14. RegionsKnown'
      <3>1. owned' = owned \union {RegionOf(job'[t])}
        BY <2>1, <2>6 DEF r
      <3> QED
        BY <1>2, <2>8, <2>9, <3>1 DEF IInv, RegionsKnown
    <2>15. FdsApart' /\ FdsKnown'
      BY <1>1, <2>8, <2>9, Types, SameFds
    <2>16. MappedKnown' /\ AdspApart'
      <3>1. MappedKnown'
        BY <1>1, <2>8 DEF IInv, MappedKnown
      <3>2. /\ pc[t] # "terminate" /\ pc'[t] # "terminate"
            /\ \A u \in Threads \ {t} : pc'[u] = pc[u] /\ job'[u] = job[u]
        BY <1>1, <2>4
      <3>3. AdspBufs' = AdspBufs
        BY <1>1, <2>8 DEF AdspBufs
      <3> QED
        BY <1>1, <2>8, <3>1, <3>2, <3>3, SameAdsp
    <2> QED
      BY <2>10, <2>11, <2>13, <2>14, <2>15, <2>16 DEF IInv
  <1> QED
    BY <1>3, <1>4 DEF AllocateRegion

\* A region that one holder gives back is nobody else's.
LEMMA ReleaseRegion ==
  ASSUME IInv, NEW t \in Holding, Heap!Release(RegionOf(job[t])),
         Kept' = Kept, Holding' = Holding \ {t}, UNCHANGED <<bufs, stuck>>,
         \A u \in Holding \ {t} : job'[u] = job[u]
  PROVE  RegionsApart' /\ RegionsKnown'
  <1>1. owned' = owned \ {RegionOf(job[t])}
    BY DEF Heap!Release
  <1>2. \A b \in Kept : RegionOf(b) # RegionOf(job[t])
    BY HoldersHaveRegions, DisjointDiffer DEF IInv, RegionsApart
  <1>3. \A u \in Holding \ {t} : RegionOf(job[u]) # RegionOf(job[t])
    BY HoldersHaveRegions, DisjointDiffer DEF IInv, RegionsApart
  <1>4. RegionsApart'
    BY DEF IInv, RegionsApart
  <1>5. RegionsKnown'
    BY <1>1, <1>2, <1>3 DEF IInv, RegionsKnown
  <1> QED
    BY <1>4, <1>5

\* allocator.deallocate() on the error path.
LEMMA UndoAllocateInv ==
  ASSUME IInv, NEW t \in Threads, UndoAllocate(t)
  PROVE  IInv'
  <1>1. /\ pc[t] = "undo"
        /\ pc' = [pc EXCEPT ![t] = "idle"]
        /\ job' = [job EXCEPT ![t] = NoBuffer]
        /\ Heap!Release(RegionOf(job[t]))
        /\ UNCHANGED <<master_fd, initFailed, fds, mapped, avars, stuck, bufs>>
    BY DEF UndoAllocate, Return, Goto
  <1>2. /\ Kept' = Kept /\ Holding' = Holding \ {t} /\ Working' = Working
        /\ t \in Holding
    BY <1>1, Types DEF Kept, Holding, Working
  <1>3. /\ \A u \in Holding \ {t} : job'[u] = job[u]
        /\ \A u \in Working : job'[u] = job[u]
        /\ \A u \in Threads : pc'[u] # "idle" => pc'[u] = pc[u] /\ job'[u] = job[u]
    BY <1>1, Types DEF Holding, Working
  <1>4. TypeOK'
    BY <1>1, Types DEF IInv, TypeOK
  <1>5. Jobs'
    <2>1. job' \in [Threads -> Job] /\ heap' \in Nat
      BY <1>1, Types DEF Heap!Release, IInv, Jobs
    <2> QED
      BY <1>1, <1>2, <1>3, <2>1 DEF IInv, Jobs
  <1>6. RegionsApart' /\ RegionsKnown'
    BY <1>1, <1>2, <1>3, ReleaseRegion
  <1>7. FdsApart' /\ FdsKnown'
    BY <1>1, <1>2, <1>3, Types, SameFds
  <1>8. MappedKnown' /\ AdspApart'
    <2>1. MappedKnown'
      BY <1>1, <1>2 DEF IInv, MappedKnown
    <2>2. /\ pc[t] # "terminate" /\ pc'[t] # "terminate"
          /\ \A u \in Threads \ {t} : pc'[u] = pc[u] /\ job'[u] = job[u]
      BY <1>1, <1>2, Types DEF Return, Goto
    <2>3. AdspBufs' = AdspBufs
      BY <1>1, <1>2 DEF AdspBufs
    <2> QED
      BY <1>1, <1>2, <2>1, <2>2, <2>3, SameAdsp
  <1> QED
    BY <1>4, <1>5, <1>6, <1>7, <1>8 DEF IInv

\* free_pmem_buffer() after PMEM_UNMAP.
LEMMA DeallocateRegionInv ==
  ASSUME IInv, NEW t \in Threads, DeallocateRegion(t)
  PROVE  IInv'
  <1>1. /\ pc[t] = "deallocate"
        /\ pc' = [pc EXCEPT ![t] = "close"]
        /\ Heap!Release(RegionOf(job[t]))
        /\ UNCHANGED <<master_fd, initFailed, fds, mapped, avars, stuck, bufs, job>>
    BY DEF DeallocateRegion, Goto
  <1>2. /\ Kept' = Kept /\ Holding' = Holding \ {t} /\ Working' = Working
        /\ t \in Holding
    BY <1>1, Types DEF Kept, Holding, Working
  <1>3. \A u \in Threads : pc'[u] # "close" => pc'[u] = pc[u]
    BY <1>1, Types
  <1>4. TypeOK'
    BY <1>1, Types DEF IInv, TypeOK
  <1>5. Jobs'
    <2>1. heap' \in Nat
      BY <1>1 DEF Heap!Release, IInv, Jobs
    <2> QED
      BY <1>1, <1>2, <1>3, <2>1 DEF IInv, Jobs
  <1>6. RegionsApart' /\ RegionsKnown'
    BY <1>1, <1>2, ReleaseRegion
  <1>7. FdsApart' /\ FdsKnown'
    BY <1>1, <1>2, Types, SameFds
  <1>8. MappedKnown' /\ AdspApart'
    <2>1. MappedKnown'
      BY <1>1, <1>2 DEF IInv, MappedKnown
    <2>2. /\ pc[t] # "terminate" /\ pc'[t] # "terminate"
          /\ \A u \in Threads \ {t} : pc'[u] = pc[u] /\ job'[u] = job[u]
      BY <1>1, <1>2, Types DEF Return, Goto
    <2>3. AdspBufs' = AdspBufs
      BY <1>1, <1>2 DEF AdspBufs
    <2> QED
      BY <1>1, <1>2, <2>1, <2>2, <2>3, SameAdsp
  <1> QED
    BY <1>4, <1>5, <1>6, <1>7, <1>8 DEF IInv

-----------------------------------------------------------------------------
(* What happens to descriptors: opened and closed by a call, handed to the *)
(* caller with a buffer, and taken back.                                   *)

\* open() by a call.
LEMMA OpenedFd ==
  ASSUME IInv, NEW t, t \notin Working, FreeFds # {},
         fds' = fds \union {NewFd}, Working' = Working \union {t},
         job'[t].fd = NewFd, \A u \in Working : job'[u] = job[u],
         UNCHANGED <<bufs, master_fd>>
  PROVE  FdsApart' /\ FdsKnown'
  <1>1. NewFd \in 3..MaxFd /\ NewFd \notin fds
    BY NewFdIsFree
  <1>2. master_fd # NewFd
    BY <1>1 DEF IInv, FdsKnown
  <1>3. FdsApart'
    BY <1>1, <1>2 DEF IInv, FdsApart, FdsKnown
  <1>4. FdsKnown'
    BY <1>1 DEF IInv, FdsKnown
  <1> QED
    BY <1>3, <1>4

\* close() by a call.
LEMMA ClosedFd ==
  ASSUME IInv, NEW t \in Working,
         fds' = fds \ {job[t].fd}, Working' = Working \ {t},
         \A u \in Working \ {t} : job'[u] = job[u],
         UNCHANGED <<bufs, master_fd>>
  PROVE  FdsApart' /\ FdsKnown'
  <1>1. FdsApart'
    BY DEF IInv, FdsApart
  <1>2. FdsKnown'
    BY DEF IInv, FdsApart, FdsKnown
  <1> QED
    BY <1>1, <1>2

\* A buffer goes to the caller, with its descriptor.
LEMMA GivenFd ==
  ASSUME IInv, NEW t \in Working, NEW b, b.fd = job[t].fd,
         fds' = fds, Working' = Working \ {t}, bufs' = bufs \union {b},
         \A u \in Working \ {t} : job'[u] = job[u],
         master_fd' = master_fd
  PROVE  FdsApart' /\ FdsKnown'
  <1>1. FdsApart'
    BY DEF IInv, FdsApart
  <1>2. FdsKnown'
    BY DEF IInv, FdsKnown
  <1> QED
    BY <1>1, <1>2

\* A buffer comes back from the caller.
LEMMA TakenFd ==
  ASSUME IInv, NEW t, t \notin Working, NEW b \in bufs,
         fds' = fds, Working' = Working \union {t}, bufs' = bufs \ {b},
         job'[t] = b, \A u \in Working : job'[u] = job[u],
         master_fd' = master_fd
  PROVE  FdsApart' /\ FdsKnown'
  <1>1. FdsApart'
    BY DEF IInv, FdsApart
  <1>2. FdsKnown'
    BY DEF IInv, FdsKnown
  <1> QED
    BY <1>1, <1>2

\* open() of the sub-heap.
LEMMA OpenSubHeapInv ==
  ASSUME IInv, NEW t \in Threads, OpenSubHeap(t)
  PROVE  IInv'
  <1>1. /\ pc[t] = "open"
        /\ UNCHANGED <<master_fd, initFailed, mapped, avars, stuck, bufs, heap, owned>>
    BY DEF OpenSubHeap, hvars
  <1>2. t \in Holding /\ t \notin Working
    BY <1>1 DEF Holding, Working
  <1>3. CASE /\ FreeFds # {} /\ fds' = fds \union {NewFd}
             /\ job' = [job EXCEPT ![t].fd = NewFd] /\ Goto(t, "map")
    <2>1. NewFd \in 3..MaxFd
      BY <1>3, NewFdIsFree
    <2>2. [job[t] EXCEPT !.fd = NewFd] \in Job
      BY <2>1, Types DEF Job
    <2>3. job' = [job EXCEPT ![t] = [job[t] EXCEPT !.fd = NewFd]]
      BY <1>3
    <2>4. /\ job' \in [Threads -> Job]
          /\ job'[t].kind = job[t].kind /\ job'[t].size = job[t].size
          /\ job'[t].offset = job[t].offset /\ job'[t].fd = NewFd
          /\ \A u \in Threads : u # t => job'[u] = job[u]
      BY <2>2, <2>3, Types DEF Job
    <2>5. /\ pc' \in [Threads -> {"idle", "init", "allocate", "open", "map", "undo",
                                 "deallocate", "terminate", "close", "mapadsp"}]
          /\ pc'[t] = "map" /\ \A u \in Threads : u # t => pc'[u] = pc[u]
      BY <1>3, Types DEF Goto
    <2>6. Kept' = Kept /\ Holding' = Holding /\ Working' = Working \union {t}
      BY <1>1, <2>5 DEF Kept, Holding, Working
    <2>7. \A u \in Working : job'[u] = job[u]
      BY <1>2, <2>4 DEF Working
    <2>8. \A u \in Holding : RegionOf(job'[u]) = RegionOf(job[u])
      BY <2>4 DEF Holding, RegionOf
    <2>9. TypeOK'
      BY <1>1, <1>3, <2>1, <2>5 DEF IInv, TypeOK
    <2>10. Jobs'
      <3>1. \A u \in Threads : pc'[u] \in {"init", "allocate", "mapadsp"} =>
              pc'[u] = pc[u] /\ job'[u] = job[u]
        BY <2>4, <2>5
      <3>2. \A u \in Holding : job'[u].kind = job[u].kind /\ job'[u].size = job[u].size
        BY <2>4 DEF Holding
      <3> QED
        BY <1>1, <2>1, <2>4, <2>6, <2>7, <3>1, <3>2 DEF IInv, Jobs
    <2>11. RegionsApart' /\ RegionsKnown'
      BY <1>1, <2>6, <2>8 DEF IInv, RegionsApart, RegionsKnown
    <2>12. FdsApart' /\ FdsKnown'
      BY <1>1, <1>2, <1>3, <2>4, <2>6, <2>7, OpenedFd
    <2>13. MappedKnown' /\ AdspApart'
      <3>1. MappedKnown'
        BY <1>1, <2>6 DEF IInv, MappedKnown
      <3>2. /\ pc[t] # "terminate" /\ pc'[t] # "terminate"
            /\ \A u \in Threads \ {t} : pc'[u] = pc[u] /\ job'[u] = job[u]
        BY <1>1, <2>4, <2>5
      <3>3. AdspBufs' = AdspBufs
        BY <1>1, <2>6 DEF AdspBufs
      <3> QED
        BY <1>1, <2>6, <3>1, <3>2, <3>3, SameAdsp
    <2> QED
      BY <2>9, <2>10, <2>11, <2>12, <2>13 DEF IInv
  <1>4. CASE Goto(t, "undo") /\ UNCHANGED <<fds, job>>
    <2>1. /\ pc' \in [Threads -> {"idle", "init", "allocate", "open", "map", "undo",
                                 "deallocate", "terminate", "close", "mapadsp"}]
          /\ pc'[t] = "undo" /\ \A u \in Threads : u # t => pc'[u] = pc[u]
      BY <1>4, Types DEF Goto
    <2>2. Kept' = Kept /\ Holding' = Holding /\ Working' = Working
      BY <1>1, <2>1 DEF Kept, Holding, Working
    <2>3. TypeOK'
      BY <1>1, <1>4, <2>1 DEF IInv, TypeOK
    <2>4. Jobs'
      BY <1>1, <1>4, <2>1, <2>2 DEF IInv, Jobs
    <2>5. RegionsApart' /\ RegionsKnown'
      BY <1>1, <1>4, <2>2, SameHolders
    <2>6. FdsApart' /\ FdsKnown'
      BY <1>1, <1>4, <2>2, Types, SameFds
    <2>7. MappedKnown' /\ AdspApart'
      <3>1. MappedKnown'
        BY <1>1, <2>2 DEF IInv, MappedKnown
      <3>2. /\ pc[t] # "terminate" /\ pc'[t] # "terminate"
            /\ \A u \in Threads \ {t} : pc'[u] = pc[u] /\ job'[u] = job[u]
        BY <1>1, <1>4, <2>1
      <3>3. AdspBufs' = AdspBufs
        BY <1>1, <2>2 DEF AdspBufs
      <3> QED
        BY <1>1, <2>2, <3>1, <3>2, <3>3, SameAdsp
    <2> QED
      BY <2>3, <2>4, <2>5, <2>6, <2>7 DEF IInv
  <1> QED
    BY <1>3, <1>4 DEF OpenSubHeap

\* PMEM_CONNECT and PMEM_MAP: the buffer goes to the caller, or its
\* descriptor is closed.
LEMMA MapSubHeapInv ==
  ASSUME IInv, NEW t \in Threads, MapSubHeap(t)
  PROVE  IInv'
  <1>1. /\ pc[t] = "map"
        /\ UNCHANGED <<master_fd, initFailed, avars, stuck, heap, owned>>
    BY DEF MapSubHeap, hvars
  <1>2. t \in Holding /\ t \in Working
    BY <1>1 DEF Holding, Working
  <1>3. /\ job[t] \in Buffer /\ job[t].kind = "pmem"
        /\ job[t].fd \in 3..MaxFd
    <2>1. job[t].kind = "pmem" /\ job[t].size \in Requests /\ job[t].fd \in 3..MaxFd
      BY <1>2 DEF IInv, Jobs
    <2> QED
      BY <2>1, Types DEF Job, Buffer
  <1>4. CASE /\ mapped' = mapped \union {job[t]} /\ bufs' = bufs \union {job[t]}
             /\ Return(t) /\ fds' = fds
    <2>1. /\ pc' \in [Threads -> {"idle", "init", "allocate", "open", "map", "undo",
                                 "deallocate", "terminate", "close", "mapadsp"}]
          /\ pc'[t] = "idle" /\ job' \in [Threads -> Job]
          /\ \A u \in Threads : u # t => pc'[u] = pc[u] /\ job'[u] = job[u]
      BY <1>4, Types DEF Return, Goto
    <2>2. /\ Kept' = Kept \union {job[t]} /\ Holding' = Holding \ {t}
          /\ Working' = Working \ {t}
      BY <1>1, <1>3, <1>4, <2>1 DEF Kept, Holding, Working
    <2>3. /\ \A u \in Holding \ {t} : job'[u] = job[u]
          /\ \A u \in Working \ {t} : job'[u] = job[u]
      BY <2>1 DEF Holding, Working
    <2>4. TypeOK'
      BY <1>1, <1>3, <1>4, <2>1 DEF IInv, TypeOK, Buffer
    <2>5. Jobs'
      <3>1. \A u \in Threads : pc'[u] \in {"init", "allocate", "mapadsp"} =>
              pc'[u] = pc[u] /\ job'[u] = job[u]
        BY <2>1
      <3> QED
        BY <1>1, <1>3, <1>4, <2>1, <2>2, <2>3, <3>1 DEF IInv, Jobs
    <2>6. RegionsApart'
      <3>1. job[t] \notin Kept
        BY <1>2, HoldersHaveRegions, DisjointDiffer DEF IInv, RegionsApart
      <3>2. job[t] \notin stuck
        BY <3>1 DEF Kept
      <3>3. \A b \in Kept : /\ Heap!Disjoint(RegionOf(job[t]), RegionOf(b))
                            /\ Heap!Disjoint(RegionOf(b), RegionOf(job[t]))
        BY <1>2, HoldersHaveRegions, DisjointDiffer DEF IInv, RegionsApart
      <3> QED
        BY <1>1, <1>2, <1>4, <2>2, <2>3, <3>2, <3>3 DEF IInv, RegionsApart
    <2>7. RegionsKnown'
      BY <1>1, <1>2, <2>2, <2>3 DEF IInv, RegionsKnown
    <2>8. FdsApart' /\ FdsKnown'
      BY <1>1, <1>2, <1>4, <2>2, <2>3, GivenFd
    <2>9. MappedKnown' /\ AdspApart'
      <3>1. MappedKnown'
        BY <1>4, <2>2 DEF IInv, MappedKnown
      <3>2. AdspBufs' = AdspBufs
        BY <1>3, <1>4 DEF AdspBufs
      <3> QED
        BY <1>1, <2>1, <3>1, <3>2, SameAdsp
    <2> QED
      BY <2>4, <2>5, <2>6, <2>7, <2>8, <2>9 DEF IInv
  <1>5. CASE /\ fds' = fds \ {job[t].fd} /\ job' = [job EXCEPT ![t].fd = -1]
             /\ Goto(t, "undo") /\ UNCHANGED <<mapped, bufs>>
    <2>1. [job[t] EXCEPT !.fd = -1] \in Job
      BY Types DEF Job
    <2>2. job' = [job EXCEPT ![t] = [job[t] EXCEPT !.fd = -1]]
      BY <1>5
    <2>3. /\ job' \in [Threads -> Job]
          /\ job'[t].kind = job[t].kind /\ job'[t].size = job[t].size
          /\ job'[t].offset = job[t].offset
          /\ \A u \in Threads : u # t => job'[u] = job[u]
      BY <2>1, <2>2, Types DEF Job
    <2>4. /\ pc' \in [Threads -> {"idle", "init", "allocate", "open", "map", "undo",
                                 "deallocate", "terminate", "close", "mapadsp"}]
          /\ pc'[t] = "undo" /\ \A u \in Threads : u # t => pc'[u] = pc[u]
      BY <1>5, Types DEF Goto
    <2>5. Kept' = Kept /\ Holding' = Holding /\ Working' = Working \ {t}
      BY <1>1, <1>5, <2>4 DEF Kept, Holding, Working
    <2>6. \A u \in Working \ {t} : job'[u] = job[u]
      BY <2>3 DEF Working
    <2>7. \A u \in Holding : RegionOf(job'[u]) = RegionOf(job[u])
      BY <2>3 DEF Holding, RegionOf
    <2>8. TypeOK'
      BY <1>1, <1>5, <2>4 DEF IInv, TypeOK
    <2>9. Jobs'
      <3>1. \A u \in Threads : pc'[u] \in {"init", "allocate", "mapadsp"} =>
              pc'[u] = pc[u] /\ job'[u] = job[u]
        BY <2>3, <2>4
      <3>2. \A u \in Holding : job'[u].kind = job[u].kind /\ job'[u].size = job[u].size
        BY <2>3 DEF Holding
      <3> QED
        BY <1>1, <1>5, <2>3, <2>5, <2>6, <3>1, <3>2 DEF IInv, Jobs
    <2>10. RegionsApart' /\ RegionsKnown'
      BY <1>1, <1>5, <2>5, <2>7 DEF IInv, RegionsApart, RegionsKnown
    <2>11. FdsApart' /\ FdsKnown'
      BY <1>1, <1>2, <1>5, <2>5, <2>6, ClosedFd
    <2>12. MappedKnown' /\ AdspApart'
      <3>1. MappedKnown'
        BY <1>1, <1>5, <2>5 DEF IInv, MappedKnown
      <3>2. /\ pc[t] # "terminate" /\ pc'[t] # "terminate"
            /\ \A u \in Threads \ {t} : pc'[u] = pc[u] /\ job'[u] = job[u]
        BY <1>1, <1>5, <2>5, Types DEF Return, Goto
      <3>3. AdspBufs' = AdspBufs
        BY <1>1, <1>5, <2>5 DEF AdspBufs
      <3> QED
        BY <1>1, <1>5, <2>5, <3>1, <3>2, <3>3, SameAdsp
    <2> QED
      BY <2>8, <2>9, <2>10, <2>11, <2>12 DEF IInv
  <1> QED
    BY <1>4, <1>5 DEF MapSubHeap

\* The end of free_impl(): the descriptor is closed.
LEMMA CloseFdInv ==
  ASSUME IInv, NEW t \in Threads, CloseFd(t)
  PROVE  IInv'
  <1>1. /\ pc[t] = "close" /\ fds' = fds \ {job[t].fd}
        /\ pc' = [pc EXCEPT ![t] = "idle"] /\ job' = [job EXCEPT ![t] = NoBuffer]
        /\ UNCHANGED <<master_fd, initFailed, mapped, avars, stuck, bufs, heap, owned>>
    BY DEF CloseFd, Return, Goto, hvars
  <1>2. /\ Kept' = Kept /\ Holding' = Holding /\ Working' = Working \ {t}
        /\ t \in Working
    BY <1>1, Types DEF Kept, Holding, Working
  <1>3. /\ \A u \in Holding : job'[u] = job[u]
        /\ \A u \in Working \ {t} : job'[u] = job[u]
        /\ \A u \in Threads : pc'[u] # "idle" => pc'[u] = pc[u] /\ job'[u] = job[u]
        /\ job' \in [Threads -> Job]
    BY <1>1, Types DEF Holding, Working
  <1>4. TypeOK'
    BY <1>1, Types DEF IInv, TypeOK
  <1>5. Jobs'
    BY <1>1, <1>2, <1>3 DEF IInv, Jobs
  <1>6. RegionsApart' /\ RegionsKnown'
    BY <1>1, <1>2, <1>3, SameHolders
  <1>7. FdsApart' /\ FdsKnown'
    BY <1>1, <1>2, <1>3, ClosedFd
  <1>8. MappedKnown' /\ AdspApart'
    <2>1. MappedKnown'
      BY <1>1, <1>2 DEF IInv, MappedKnown
    <2>2. /\ pc[t] # "terminate" /\ pc'[t] # "terminate"
          /\ \A u \in Threads \ {t} : pc'[u] = pc[u] /\ job'[u] = job[u]
      BY <1>1, <1>2, Types DEF Return, Goto
    <2>3. AdspBufs' = AdspBufs
      BY <1>1, <1>2 DEF AdspBufs
    <2> QED
      BY <1>1, <1>2, <2>1, <2>2, <2>3, SameAdsp
  <1> QED
    BY <1>4, <1>5, <1>6, <1>7, <1>8 DEF IInv

\* A buffer is something a call can work on.
LEMMA BufferIsJob ==
  ASSUME NEW b \in Buffer
  PROVE  b \in Job /\ b.size \in Requests /\ b.fd \in 3..MaxFd
  <1>1. /\ b = [kind |-> b.kind, size |-> b.size, offset |-> b.offset, base |-> b.base, fd |-> b.fd]
        /\ b.kind \in {"pmem", "adsp"} /\ b.size \in Requests
        /\ b.offset \in Nat /\ b.base \in Nat /\ b.fd \in 3..MaxFd
    BY DEF Buffer
  <1>2. b.size \in Nat /\ b.fd \in Int
    BY <1>1, PmemAssumption
  <1> QED
    BY <1>1, <1>2 DEF Job

\* free_pmem_buffer(): PMEM_UNMAP.
LEMMA FreePmemBufferInv ==
  ASSUME IInv, NEW t \in Threads, NEW b \in bufs, FreePmemBuffer(t, b)
  PROVE  IInv'
  <1>1. /\ pc[t] = "idle" /\ b.kind = "pmem" /\ bufs' = bufs \ {b}
        /\ job' = [job EXCEPT ![t] = b]
        /\ UNCHANGED <<master_fd, initFailed, fds, avars, heap, owned>>
    BY DEF FreePmemBuffer, hvars
  <1>2. /\ t \notin Holding /\ t \notin Working /\ b \in Kept /\ b \notin stuck
    BY <1>1 DEF Holding, Working, Kept, IInv, RegionsApart
  <1>3. /\ b \in Buffer /\ b \in Job /\ b.size \in Requests /\ b.fd \in 3..MaxFd
    BY BufferIsJob DEF IInv, Jobs
  <1>4. /\ job' \in [Threads -> Job] /\ job'[t] = b
        /\ \A u \in Threads : u # t => job'[u] = job[u]
    BY <1>1, <1>3, Types
  <1>5. /\ \A u \in Holding : job'[u] = job[u]
        /\ \A u \in Working : job'[u] = job[u]
    BY <1>2, <1>4 DEF Holding, Working
  <1>6. AdspBufs' = AdspBufs
    BY <1>1 DEF AdspBufs
  <1>7. CASE mapped' = mapped \ {b} /\ Goto(t, "deallocate") /\ stuck' = stuck
    <2>1. /\ pc' \in [Threads -> {"idle", "init", "allocate", "open", "map", "undo",
                                 "deallocate", "terminate", "close", "mapadsp"}]
          /\ pc'[t] = "deallocate" /\ \A u \in Threads : u # t => pc'[u] = pc[u]
      BY <1>7, Types DEF Goto
    <2>2. /\ Kept' = Kept \ {b} /\ Holding' = Holding \union {t}
          /\ Working' = Working \union {t}
      BY <1>1, <1>2, <1>7, <2>1 DEF Kept, Holding, Working
    <2>3. TypeOK'
      BY <1>1, <1>7, <2>1 DEF IInv, TypeOK
    <2>4. Jobs'
      <3>1. \A u \in Threads : pc'[u] \in {"init", "allocate", "mapadsp"} =>
              pc'[u] = pc[u] /\ job'[u] = job[u]
        BY <1>4, <2>1
      <3> QED
        BY <1>1, <1>3, <1>4, <1>5, <1>7, <2>2, <3>1 DEF IInv, Jobs
    <2>5. RegionsApart'
      <3>1. \A c \in Kept \ {b} : Heap!Disjoint(RegionOf(b), RegionOf(c))
        BY <1>2 DEF IInv, RegionsApart
      <3>2. \A u \in Holding : /\ Heap!Disjoint(RegionOf(job[u]), RegionOf(b))
                               /\ Heap!Disjoint(RegionOf(b), RegionOf(job[u]))
        BY <1>2, HoldersHaveRegions, DisjointDiffer DEF IInv, RegionsApart
      <3> QED
        BY <1>1, <1>2, <1>4, <1>5, <1>7, <2>2, <3>1, <3>2 DEF IInv, RegionsApart
    <2>6. RegionsKnown'
      BY <1>1, <1>2, <1>4, <1>5, <2>2 DEF IInv, RegionsKnown
    <2>7. FdsApart' /\ FdsKnown'
      BY <1>1, <1>2, <1>4, <1>5, <2>2, TakenFd
    <2>8. MappedKnown' /\ AdspApart'
      <3>1. MappedKnown'
        BY <1>7, <2>2 DEF IInv, MappedKnown
      <3> QED
        BY <1>1, <1>4, <1>6, <2>1, <3>1, SameAdsp
    <2> QED
      BY <2>3, <2>4, <2>5, <2>6, <2>7, <2>8 DEF IInv
  <1>8. CASE stuck' = stuck \union {b} /\ Goto(t, "close") /\ mapped' = mapped
    <2>1. /\ pc' \in [Threads -> {"idle", "init", "allocate", "open", "map", "undo",
                                 "deallocate", "terminate", "close", "mapadsp"}]
          /\ pc'[t] = "close" /\ \A u \in Threads : u # t => pc'[u] = pc[u]
      BY <1>8, Types DEF Goto
    <2>2. /\ Kept' = Kept /\ Holding' = Holding
          /\ Working' = Working \union {t}
      BY <1>1, <1>2, <1>8, <2>1 DEF Kept, Holding, Working
    <2>3. TypeOK'
      BY <1>1, <1>8, <2>1 DEF IInv, TypeOK
    <2>4. Jobs'
      <3>1. \A u \in Threads : pc'[u] \in {"init", "allocate", "mapadsp"} =>
              pc'[u] = pc[u] /\ job'[u] = job[u]
        BY <1>4, <2>1
      <3> QED
        BY <1>1, <1>3, <1>4, <1>5, <1>8, <2>2, <3>1 DEF IInv, Jobs
    <2>5. RegionsApart'
      BY <1>1, <1>5, <1>8, <2>2 DEF IInv, RegionsApart
    <2>6. RegionsKnown'
      <3>1. owned' = owned /\ \A u \in Holding : job'[u] = job[u]
        BY <1>1, <1>5
      <3>2. RegionsKnown
        BY DEF IInv
      <3> QED
        BY <2>2, <3>1, <3>2 DEF RegionsKnown
    <2>7. FdsApart' /\ FdsKnown'
      BY <1>1, <1>2, <1>4, <1>5, <2>2, TakenFd
    <2>8. MappedKnown' /\ AdspApart'
      <3>1. MappedKnown'
        BY <1>8, <2>2 DEF IInv, MappedKnown
      <3> QED
        BY <1>1, <1>4, <1>6, <2>1, <3>1, SameAdsp
    <2> QED
      BY <2>3, <2>4, <2>5, <2>6, <2>7, <2>8 DEF IInv
  <1> QED
    BY <1>7, <1>8 DEF FreePmemBuffer

-----------------------------------------------------------------------------
(* PmemKernelAllocator.                                                    *)

\* open() of /dev/pmem_adsp.
LEMMA OpenAdspInv ==
  ASSUME IInv, NEW t \in Threads, NEW size \in Requests, OpenAdsp(t, size)
  PROVE  IInv'
  <1> DEFINE NewJob ==
        [kind |-> "adsp", size |-> size, offset |-> 0, base |-> 0, fd |-> NewFd]
  <1>1. /\ pc[t] = "idle" /\ FreeFds # {} /\ fds' = fds \union {NewFd}
        /\ job' = [job EXCEPT ![t] = NewJob]
        /\ pc' = [pc EXCEPT ![t] = "mapadsp"]
        /\ UNCHANGED <<master_fd, initFailed, mapped, avars, stuck, bufs, heap, owned>>
    BY DEF OpenAdsp, Goto, hvars
  <1>2. NewFd \in 3..MaxFd
    BY <1>1, NewFdIsFree
  <1>3. NewJob \in Job
    BY <1>2, PmemAssumption DEF Job
  <1>4. /\ job' \in [Threads -> Job]
        /\ job'[t] = NewJob
        /\ \A u \in Threads : u # t => job'[u] = job[u] /\ pc'[u] = pc[u]
        /\ pc'[t] = "mapadsp"
    BY <1>1, <1>3, Types
  <1>5. /\ Kept' = Kept /\ Holding' = Holding /\ Working' = Working \union {t}
        /\ t \notin Working /\ t \notin Holding
    BY <1>1, Types DEF Kept, Holding, Working
  <1>6. /\ \A u \in Holding : job'[u] = job[u]
        /\ \A u \in Working : job'[u] = job[u]
    BY <1>4, <1>5 DEF Holding, Working
  <1>7. TypeOK'
    BY <1>1, <1>2, Types DEF IInv, TypeOK
  <1>8. Jobs'
    BY <1>1, <1>2, <1>4, <1>5, <1>6 DEF IInv, Jobs
  <1>9. RegionsApart' /\ RegionsKnown'
    BY <1>1, <1>5, <1>6, SameHolders
  <1>10. FdsApart' /\ FdsKnown'
    BY <1>1, <1>4, <1>5, <1>6, OpenedFd
  <1>11. MappedKnown' /\ AdspApart'
    <2>1. MappedKnown'
      BY <1>1, <1>5 DEF IInv, MappedKnown
    <2>2. /\ pc[t] # "terminate" /\ pc'[t] # "terminate"
          /\ \A u \in Threads \ {t} : pc'[u] = pc[u] /\ job'[u] = job[u]
      BY <1>1, <1>5, Types DEF Return, Goto
    <2>3. AdspBufs' = AdspBufs
      BY <1>1, <1>5 DEF AdspBufs
    <2> QED
      BY <1>1, <1>5, <2>1, <2>2, <2>3, SameAdsp
  <1> QED
    BY <1>7, <1>8, <1>9, <1>10, <1>11 DEF IInv

\* What terminateBuffer() unmaps is part of what free_pmem_buffer() unmaps.
LEMMA PartOfWhole ==
  ASSUME NEW b, b.size \in Requests, b.base \in Nat
  PROVE  Part(b) \subseteq Whole(b)
  <1>1. b.size \in Nat /\ Clp2[b.size] \in Nat /\ Clp2[b.size] >= b.size
    BY PmemAssumption
  <1> HIDE DEF Clp2
  <1>2. (b.size + 4095) \div 4096 <= (Clp2[b.size] + 4095) \div 4096
    BY <1>1
  <1> QED
    BY <1>1, <1>2 DEF Part, Whole, PagesOf

\* mmap() of /dev/pmem_adsp.
LEMMA MapAdspInv ==
  ASSUME IInv, NEW t \in Threads, MapAdsp(t)
  PROVE  IInv'
  <1>1. /\ pc[t] = "mapadsp"
        /\ pc' = [pc EXCEPT ![t] = "idle"] /\ job' = [job EXCEPT ![t] = NoBuffer]
        /\ UNCHANGED <<master_fd, initFailed, mapped, stuck, leaked, heap, owned>>
    BY DEF MapAdsp, Return, Goto, hvars
  <1>2. /\ Holding' = Holding /\ Working' = Working \ {t} /\ t \in Working
        /\ \A u \in Holding : job'[u] = job[u]
        /\ \A u \in Working \ {t} : job'[u] = job[u]
        /\ \A u \in Threads : pc'[u] # "idle" => pc'[u] = pc[u] /\ job'[u] = job[u]
        /\ job' \in [Threads -> Job]
    BY <1>1, Types DEF Holding, Working
  <1>3. /\ job[t].kind = "adsp" /\ job[t].size \in Requests /\ job[t].fd \in 3..MaxFd
        /\ job[t] \in Job
    BY <1>1, <1>2, Types DEF IInv, Jobs
  <1>4. Terminating' = Terminating /\ \A u \in Terminating : job'[u] = job[u]
    BY <1>1, <1>2, Types DEF Terminating, Working
  <1>5. ASSUME NEW base \in 0..MaxPage, NEW b, b = [job[t] EXCEPT !.base = base],
               Whole(b) \subseteq (0..MaxPage) \ adsp, adsp' = adsp \union Whole(b),
               bufs' = bufs \union {b},
               exposed' = IF Whole(b) \intersect Claimed = {} THEN exposed
                          ELSE exposed \union {b},
               fds' = fds
        PROVE  IInv'
    <2>1. b \in Buffer /\ b.kind = "adsp" /\ b.fd = job[t].fd
      BY <1>3, <1>5 DEF Job, Buffer
    <2>2. Kept' = Kept
      BY <1>1, <1>5, <2>1 DEF Kept
    <2>3. TypeOK'
      BY <1>1, <1>3, <1>5, <2>1, Types DEF IInv, TypeOK
    <2>4. Jobs'
      BY <1>1, <1>2, <1>5, <2>1 DEF IInv, Jobs
    <2>5. RegionsApart'
      <3>1. b \notin stuck
        BY <2>1 DEF IInv, Jobs
      <3> QED
        BY <1>1, <1>2, <1>5, <2>2, <3>1 DEF IInv, RegionsApart
    <2>6. RegionsKnown'
      BY <1>1, <1>2, <2>2 DEF IInv, RegionsKnown
    <2>7. FdsApart' /\ FdsKnown'
      BY <1>1, <1>2, <1>5, <2>1, GivenFd
    <2>8. MappedKnown'
      BY <1>1, <2>2 DEF IInv, MappedKnown
    <2>9. AdspBufs' = AdspBufs \union {b}
      BY <1>5, <2>1 DEF AdspBufs
    <2>10. \A a \in AdspBufs : a \notin exposed => Whole(a) \intersect Whole(b) = {}
      BY <1>5 DEF IInv, AdspApart
    <2>11. ASSUME b \notin exposed'
           PROVE  /\ \A a \in AdspBufs : Whole(b) \intersect Whole(a) = {}
                  /\ \A u \in Terminating : Whole(b) \intersect Part(job[u]) = {}
      <3>1. Whole(b) \intersect Claimed = {}
        BY <1>5, <2>11
      <3>2. \A a \in AdspBufs : Whole(a) \subseteq Claimed
        BY DEF Claimed
      <3>3. \A u \in Terminating : Part(job[u]) \subseteq Claimed
        <4>1. ASSUME NEW u \in Terminating
              PROVE  Part(job[u]) \in {Part(job[v]) : v \in Terminating}
          BY Zenon
        <4>2. Claimed = UNION ({Whole(c) : c \in AdspBufs}
                                 \union {Part(job[v]) : v \in Terminating})
          BY Zenon DEF Claimed, Terminating
        <4> QED
          BY <4>1, <4>2
      <3> QED
        BY <3>1, <3>2, <3>3
    <2>12. exposed \subseteq exposed'
      BY <1>5
    <2>13. AdspApart'
      <3>1. \A a, c \in AdspBufs' : a # c /\ a \notin exposed' => Whole(a) \intersect Whole(c) = {}
        BY <2>9, <2>10, <2>11, <2>12 DEF IInv, AdspApart
      <3>2. \A a \in AdspBufs', u \in Terminating :
              a \notin exposed' => Whole(a) \intersect Part(job[u]) = {}
        BY <2>9, <2>11, <2>12 DEF IInv, AdspApart
      <3>3. \A a \in AdspBufs' : a \notin exposed' => Whole(a) \subseteq adsp'
        BY <1>5, <2>9, <2>12 DEF IInv, AdspApart
      <3>4. \A p \in adsp' : \E c \in AdspBufs' \union leaked : p \in Whole(c)
        BY <1>5, <2>9 DEF IInv, AdspApart
      <3> QED
        BY <1>1, <1>4, <3>1, <3>2, <3>3, <3>4 DEF AdspApart
    <2> QED
      BY <2>3, <2>4, <2>5, <2>6, <2>7, <2>8, <2>13 DEF IInv
  <1>6. CASE fds' = fds \ {job[t].fd} /\ UNCHANGED <<adsp, bufs, exposed>>
    <2>1. Kept' = Kept /\ AdspBufs' = AdspBufs
      BY <1>1, <1>6 DEF Kept, AdspBufs
    <2>2. TypeOK'
      BY <1>1, <1>6, Types DEF IInv, TypeOK
    <2>3. Jobs'
      BY <1>1, <1>2, <1>6 DEF IInv, Jobs
    <2>4. RegionsApart' /\ RegionsKnown'
      BY <1>1, <1>2, <1>6, <2>1, SameHolders
    <2>5. FdsApart' /\ FdsKnown'
      BY <1>1, <1>2, <1>6, ClosedFd
    <2>6. MappedKnown'
      BY <1>1, <2>1 DEF IInv, MappedKnown
    <2>7. AdspApart'
      BY <1>1, <1>4, <1>6, <2>1 DEF IInv, AdspApart
    <2> QED
      BY <2>2, <2>3, <2>4, <2>5, <2>6, <2>7 DEF IInv
  <1> QED
    BY <1>5, <1>6 DEF MapAdsp

\* free_pmem_buffer(): munmap() of the length that was mapped, or its failure.
LEMMA FreeAdspBufferInv ==
  ASSUME IInv, NEW t \in Threads, NEW b \in bufs, FreeAdspBuffer(t, b)
  PROVE  IInv'
  <1>1. /\ pc[t] = "idle" /\ b.kind = "adsp" /\ bufs' = bufs \ {b}
        /\ exposed' = exposed \ {b}
        /\ job' = [job EXCEPT ![t] = b]
        /\ \/ adsp' = adsp \ Whole(b) /\ leaked' = leaked
           \/ leaked' = leaked \union {b} /\ adsp' = adsp
        /\ pc' = [pc EXCEPT ![t] = "terminate"]
        /\ UNCHANGED <<master_fd, initFailed, fds, mapped, stuck, heap, owned>>
    BY DEF FreeAdspBuffer, Goto, hvars
  <1>2. b \in Job /\ b.size \in Requests /\ b.fd \in 3..MaxFd /\ b.base \in Nat
    BY BufferIsJob DEF IInv, Jobs, Buffer
  <1>3. /\ job' \in [Threads -> Job] /\ job'[t] = b
        /\ \A u \in Threads : u # t => job'[u] = job[u] /\ pc'[u] = pc[u]
        /\ pc'[t] = "terminate"
    BY <1>1, <1>2, Types
  <1>4. /\ Kept' = Kept /\ Holding' = Holding /\ Working' = Working \union {t}
        /\ t \notin Working /\ t \notin Holding
    BY <1>1, Types DEF Kept, Holding, Working
  <1>5. /\ \A u \in Holding : job'[u] = job[u]
        /\ \A u \in Working : job'[u] = job[u]
    BY <1>3, <1>4 DEF Holding, Working
  <1>6. TypeOK'
    BY <1>1, Types DEF IInv, TypeOK
  <1>7. Jobs'
    <2>1. \A u \in Threads : pc'[u] \in {"init", "allocate", "mapadsp"} =>
            pc'[u] = pc[u] /\ job'[u] = job[u]
      BY <1>3
    <2> QED
      BY <1>1, <1>2, <1>3, <1>4, <1>5, <2>1 DEF IInv, Jobs
  <1>8. RegionsApart'
    BY <1>1, <1>4, <1>5 DEF IInv, RegionsApart
  <1>9. RegionsKnown'
    BY <1>1, <1>4, <1>5 DEF IInv, RegionsKnown
  <1>10. FdsApart' /\ FdsKnown'
    BY <1>1, <1>3, <1>4, <1>5, TakenFd
  <1>11. MappedKnown'
    BY <1>1, <1>4 DEF IInv, MappedKnown
  <1>12. AdspBufs' = AdspBufs \ {b} /\ b \in AdspBufs
    BY <1>1 DEF AdspBufs
  <1>13. /\ Terminating' = Terminating \union {t} /\ t \notin Terminating
         /\ \A u \in Terminating : job'[u] = job[u]
    BY <1>1, <1>3 DEF Terminating
  <1>14. Part(b) \subseteq Whole(b)
    BY <1>2, PartOfWhole
  <1>15. AdspApart'
    <2>1. \A a \in AdspBufs' : a \notin exposed' =>
            a \in AdspBufs /\ a \notin exposed /\ Whole(a) \intersect Whole(b) = {}
      BY <1>1, <1>12 DEF IInv, AdspApart
    <2>2. \A a, c \in AdspBufs' : a # c /\ a \notin exposed' => Whole(a) \intersect Whole(c) = {}
      BY <1>12, <2>1 DEF IInv, AdspApart
    <2>3. \A a \in AdspBufs', u \in Terminating' :
            a \notin exposed' => Whole(a) \intersect Part(job'[u]) = {}
      BY <1>3, <1>13, <1>14, <2>1 DEF IInv, AdspApart
    <2>4. \A a \in AdspBufs' : a \notin exposed' => Whole(a) \subseteq adsp'
      BY <1>1, <2>1 DEF IInv, AdspApart
    <2>5. \A p \in adsp' : \E c \in AdspBufs' \union leaked' : p \in Whole(c)
      BY <1>1, <1>12 DEF IInv, AdspApart
    <2> QED
      BY <2>2, <2>3, <2>4, <2>5 DEF AdspApart
  <1> QED
    BY <1>6, <1>7, <1>8, <1>9, <1>10, <1>11, <1>15 DEF IInv

\* terminateBuffer(): the second munmap() hits no buffer that is not exposed.
LEMMA TerminateBufferInv ==
  ASSUME IInv, NEW t \in Threads, TerminateBuffer(t)
  PROVE  IInv'
  <1>1. /\ pc[t] = "terminate" /\ pc' = [pc EXCEPT ![t] = "close"]
        /\ adsp' = adsp \/ adsp' = adsp \ Part(job[t])
        /\ UNCHANGED <<master_fd, initFailed, fds, mapped, leaked, exposed, stuck, bufs, job,
                       heap, owned>>
    BY DEF TerminateBuffer, Goto, hvars
  <1>2. /\ Kept' = Kept /\ Holding' = Holding /\ Working' = Working
        /\ AdspBufs' = AdspBufs /\ Terminating' = Terminating \ {t} /\ t \in Terminating
    BY <1>1, Types DEF Kept, Holding, Working, AdspBufs, Terminating
  <1>3. \A u \in Threads : pc'[u] # "close" => pc'[u] = pc[u]
    BY <1>1, Types
  <1>4. TypeOK'
    BY <1>1, Types DEF IInv, TypeOK
  <1>5. Jobs'
    BY <1>1, <1>2, <1>3 DEF IInv, Jobs
  <1>6. RegionsApart' /\ RegionsKnown'
    BY <1>1, <1>2, SameHolders
  <1>7. FdsApart' /\ FdsKnown'
    BY <1>1, <1>2, Types, SameFds
  <1>8. MappedKnown'
    BY <1>1, <1>2 DEF IInv, MappedKnown
  <1>9. AdspApart'
    <2>1. \A a \in AdspBufs : a \notin exposed => Whole(a) \subseteq adsp'
      BY <1>1, <1>2 DEF IInv, AdspApart
    <2>2. \A p \in adsp' : p \in adsp
      BY <1>1
    <2> QED
      BY <1>1, <1>2, <2>1, <2>2 DEF IInv, AdspApart
  <1> QED
    BY <1>4, <1>5, <1>6, <1>7, <1>8, <1>9 DEF IInv

-----------------------------------------------------------------------------
(* The theorems.                                                           *)

\* Every step keeps the invariant.
LEMMA NextInv ==
  ASSUME IInv, [Next]_vars
  PROVE  IInv'
  <1>1. CASE UNCHANGED vars
    <2>1. UNCHANGED <<master_fd, initFailed, fds, mapped, adsp, leaked, exposed, stuck, bufs,
                      pc, job, heap, owned>>
      BY <1>1 DEF vars, avars, hvars
    <2>2. Kept' = Kept /\ Holding' = Holding /\ Working' = Working
      BY <2>1 DEF Kept, Holding, Working
    <2>3. TypeOK' /\ Jobs'
      BY <2>1, <2>2 DEF IInv, TypeOK, Jobs
    <2>4. RegionsApart' /\ RegionsKnown'
      BY <2>1, <2>2 DEF IInv, RegionsApart, RegionsKnown
    <2>6. AdspBufs' = AdspBufs /\ Terminating' = Terminating
      BY <2>1 DEF AdspBufs, Terminating
    <2>5. FdsApart' /\ FdsKnown' /\ MappedKnown' /\ AdspApart'
      BY <2>1, <2>2, <2>6 DEF IInv, FdsApart, FdsKnown, MappedKnown, AdspApart
    <2> QED
      BY <2>3, <2>4, <2>5 DEF IInv
  <1>2. ASSUME NEW t \in Threads, NEW size \in Requests,
               AllocPmemBuffer(t, size) \/ OpenAdsp(t, size)
        PROVE  IInv'
    BY <1>2, AllocPmemBufferInv, OpenAdspInv
  <1>3. ASSUME NEW t \in Threads, NEW b \in bufs,
               FreePmemBuffer(t, b) \/ FreeAdspBuffer(t, b)
        PROVE  IInv'
    BY <1>3, FreePmemBufferInv, FreeAdspBufferInv
  <1>4. ASSUME NEW t \in Threads, Step(t) PROVE IInv'
    BY <1>4, InitPmemAreaInv, AllocateRegionInv, OpenSubHeapInv, MapSubHeapInv,
       UndoAllocateInv, DeallocateRegionInv, TerminateBufferInv, CloseFdInv, MapAdspInv DEF Step
  <1> QED
    BY <1>1, <1>2, <1>3, <1>4 DEF Next

\* IInv holds in every state of every run.
THEOREM Invariance == Spec => []IInv
  BY InitInv, NextInv, PTL DEF Spec

-----------------------------------------------------------------------------
(* Counting descriptors *)

INSTANCE FiniteSetTheorems

\* Holders with descriptors of their own have as many descriptors as there
\* are holders.
LEMMA AsManyFds ==
  ASSUME NEW S, NEW T, IsFiniteSet(T), NEW f \in [S -> T],
         \A x, y \in S : f[x] = f[y] => x = y,
         \A y \in T : \E x \in S : f[x] = y
  PROVE  IsFiniteSet(S) /\ Cardinality(S) = Cardinality(T)
  <1>1. f \in Injection(S, T)
    BY DEF Injection, IsInjective
  <1>2. f \in Surjection(S, T)
    BY DEF Surjection
  <1> QED
    BY <1>1, <1>2, FS_Injection

\* The number of descriptors: no path leaves one open or closes one twice.
LEMMA FdsCounted == IInv => FdsAccounted
  <1> SUFFICES ASSUME IInv PROVE FdsAccounted
    OBVIOUS
  <1> DEFINE master == IF master_fd >= 0 THEN {master_fd} ELSE {}
             given == {b.fd : b \in bufs}
             taken == {job[t].fd : t \in Working}
             other == given \union taken
  <1>1. fds = master \union given \union taken
    <2>1. \A f \in fds : f >= 0
      BY DEF IInv, TypeOK
    <2> QED
      BY <2>1 DEF IInv, FdsKnown
  <1>2. /\ master \intersect other = {}
        /\ given \intersect taken = {}
    BY DEF IInv, FdsApart
  <1>3. IsFiniteSet(fds)
    <2>1. IsFiniteSet(3..MaxFd)
      BY FS_Interval, PmemAssumption
    <2> QED
      BY <2>1, FS_Subset DEF IInv, TypeOK
  <1>4. IsFiniteSet(master) /\ IsFiniteSet(given) /\ IsFiniteSet(taken) /\ IsFiniteSet(other)
    <2>1. master \subseteq fds /\ given \subseteq fds /\ taken \subseteq fds /\ other \subseteq fds
      BY <1>1
    <2> QED
      BY <2>1, <1>3, FS_Subset
  <1>5. Cardinality(given) = Cardinality(bufs)
    <2> DEFINE f == [b \in bufs |-> b.fd]
    <2>1. f \in [bufs -> given]
      OBVIOUS
    <2>2. \A a, b \in bufs : f[a] = f[b] => a = b
      BY DEF IInv, FdsApart
    <2>3. \A y \in given : \E b \in bufs : f[b] = y
      OBVIOUS
    <2> HIDE DEF f, given
    <2> QED
      BY <2>1, <2>2, <2>3, <1>4, AsManyFds
  <1>6. Cardinality(taken) = Cardinality(Working)
    <2> DEFINE f == [t \in Working |-> job[t].fd]
    <2>1. f \in [Working -> taken]
      OBVIOUS
    <2>2. \A t, u \in Working : f[t] = f[u] => t = u
      BY DEF IInv, FdsApart
    <2>3. \A y \in taken : \E t \in Working : f[t] = y
      OBVIOUS
    <2> HIDE DEF f, taken
    <2> QED
      BY <2>1, <2>2, <2>3, <1>4, AsManyFds
  <1> HIDE DEF master, given, taken
  <1>7. /\ Cardinality(other) = Cardinality(given) + Cardinality(taken)
        /\ Cardinality(other) \in Nat
    <2>1. Cardinality(other) =
            Cardinality(given) + Cardinality(taken) - Cardinality(given \intersect taken)
      BY <1>4, FS_Union
    <2>2. Cardinality(given \intersect taken) = 0
      BY <1>2, FS_EmptySet
    <2>3. Cardinality(given) \in Nat /\ Cardinality(taken) \in Nat
      BY <1>4, FS_CardinalityType
    <2> QED
      BY <2>1, <2>2, <2>3
  <1>8. Cardinality(fds) = Cardinality(master) + Cardinality(other)
    <2>1. fds = master \union other
      BY <1>1
    <2> HIDE DEF other
    <2>2. Cardinality(fds) =
            Cardinality(master) + Cardinality(other) - Cardinality(master \intersect other)
      BY <2>1, <1>4, FS_Union
    <2>3. Cardinality(master \intersect other) = 0
      BY <1>2, FS_EmptySet
    <2>4. Cardinality(master) \in Nat
      BY <1>4, FS_CardinalityType
    <2> QED
      BY <2>2, <2>3, <2>4, <1>7
  <1>9. Cardinality(fds) = Cardinality(master) + Cardinality(bufs) + Cardinality(Working)
    <2>1. /\ Cardinality(master) \in Nat
          /\ Cardinality(bufs) \in Nat /\ Cardinality(Working) \in Nat
      BY <1>4, <1>5, <1>6, FS_CardinalityType
    <2> QED
      BY <2>1, <1>5, <1>6, <1>7, <1>8
  <1> QED
    BY <1>1, <1>9 DEF FdsAccounted, Working, master, given, taken

\* What the invariant says of the holders is what NothingLeaks says of sets.
LEMMA InvNothingLeaks == IInv => NothingLeaks
  <1> SUFFICES ASSUME IInv PROVE NothingLeaks
    OBVIOUS
  <1>1. MappedDisjoint
    BY DEF IInv, MappedDisjoint, MappedKnown, RegionsApart
  <1>2. RegionsAccounted
    <2> DEFINE inFlight == {job[t] : t \in Holding}
               live == {b \in bufs \union inFlight \union stuck : b.kind = "pmem"}
    <2>1. \A b : b \in live <=> b \in Kept \/ \E t \in Holding : b = job[t]
      BY DEF IInv, Jobs, Kept, Holding
    <2> HIDE DEF live
    <2>2. owned = {RegionOf(b) : b \in live}
      BY <2>1 DEF IInv, RegionsKnown
    <2> QED
      BY <2>2 DEF RegionsAccounted, live, Holding
  <1>3. TypeOK
    BY DEF IInv
  <1>4. AdspAccounted
    BY DEF IInv, AdspApart, AdspAccounted
  <1> QED
    BY <1>1, <1>2, <1>3, <1>4, FdsCounted DEF NothingLeaks

\* Whichever kernel calls fail and however the threads interleave, no two
\* sub-heaps reach the same memory, and every region and every descriptor
\* belongs to one buffer or to one call: alloc_pmem_buffer(),
\* free_pmem_buffer() and free_impl() lose none and give none back twice, for
\* every number of threads, sizes and descriptors.  Although terminateBuffer()
\* unmaps a buffer of /dev/pmem_adsp once more, every other one stays mapped
\* that was not put where another call was between its two munmap()s.
THEOREM NothingLeaksAlways == Spec => []NothingLeaks
  BY Invariance, InvNothingLeaks, PTL

=============================================================================

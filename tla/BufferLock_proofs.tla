------------------------- MODULE BufferLock_proofs -------------------------
(***************************************************************************)
(* The safety properties of BufferLock for any number of threads: mutual   *)
(* exclusion, the exactness of lockState, the mapping of what is handed    *)
(* out and the cleaning of the cache.                                      *)
(*                                                                         *)
(* The argument: a writer's exchange succeeds only on a lockState without  *)
(* readers or writer, and lockState counts the locks, so there are none;   *)
(* while it has the buffer no other exchange succeeds, so lockState is     *)
(* still what it read when it gives the lock back, and it is the one that  *)
(* clears LOCK_STATE_WRITE.                                                *)
(*                                                                         *)
(* The second part is about FramebufferPost, which posts such a buffer:    *)
(* the bound on the queue to the display, and the locks of a post.         *)
(***************************************************************************)
EXTENDS BufferLock, Sequences, FiniteSetTheorems, TLAPS

\* The threads on their way through the slow path that maps the buffer.
Mapping(t) == pc[t] \in {"map_lock", "map", "map_flag"}

\* What a thread relies on between two steps of gralloc_lock().
LockInv(t) ==
  /\ pc[t] = "lock_cas" => MayLock(usage[t], snap[t])
  /\ Mapping(t) => Software(usage[t])
  /\ pc[t] \in {"map", "map_flag"} => mapLock = t
  /\ pc[t] = "map_flag" => base
  /\ pc[t] = "lock_owner" /\ snap[t][2] => mapped
  /\ pc[t] = "held" /\ Software(usage[t]) => mapped

\* What a writer has stored, and what it finds again in gralloc_unlock().
WriterInv(t) ==
  /\ /\ t \in Locked /\ Writes(usage[t])
     /\ pc[t] \notin {"lock_owner", "unlock_cas"}
     => writeOwner = t
  /\ pc[t] = "unlock_cas" /\ Writes(usage[t]) => drop[t] /\ snap[t] = lockState
  /\ pc[t] = "unlock_cas" /\ ~Writes(usage[t]) => ~drop[t]

FlushInv(t) ==
  usage[t] = "sw_write" /\ (Mapping(t) \/ pc[t] = "held") /\ kind # "fb" => needsFlush

\* A failed mmap() of a writer leaves a buffer that nobody can lock.
OrphansInv == orphans["sw_write"] > 0 => Locked = {}

DirtyInv == dirty /\ kind # "adsp" => kind # "fb" /\ FlushedBeforeReuse

\* The inductive invariant.
IInv ==
  /\ TypeOK
  /\ kind \in Kinds
  /\ LockStateExact
  /\ MutualExclusion
  /\ OrphansInv
  /\ ~registered => Locked = {} /\ \A t \in Threads : pc[t] = "idle"
  /\ mapped => base
  /\ \A t \in Threads : LockInv(t)
  /\ \A t \in Threads : WriterInv(t)
  /\ \A t \in Threads : FlushInv(t)
  /\ DirtyInv

-----------------------------------------------------------------------------

\* The set of locks is finite, and lockState is zero when it is empty.
LEMMA LockedFinite ==
  /\ IsFiniteSet(Locked)
  /\ Cardinality(Locked) \in Nat
  /\ Cardinality(Locked) = 0 <=> Locked = {}
<1>1. Locked \subseteq Threads
  BY DEF Locked
<1>2. IsFiniteSet(Locked)
  BY <1>1, ThreadsAreFinite, FS_Subset
<1> QED
  BY <1>2, FS_CardinalityType, FS_EmptySet

\* The count of lockState and what it is made of are natural numbers.
LEMMA CountIsSum ==
  ASSUME IInv
  PROVE  /\ count \in Nat /\ orphans["sw_read"] \in Nat /\ orphans["sw_write"] \in Nat
         /\ Cardinality(Locked) \in Nat
         /\ count = Cardinality(Locked) + orphans["sw_read"] + orphans["sw_write"]
<1>1. count \in Nat /\ orphans \in [Usages -> Nat]
  BY DEF IInv, TypeOK
<1>2. "sw_read" \in Usages /\ "sw_write" \in Usages
  BY DEF Usages
<1>3. count = Cardinality(Locked) + orphans["sw_read"] + orphans["sw_write"]
  BY DEF IInv, LockStateExact
<1> QED
  BY <1>1, <1>2, <1>3, LockedFinite

\* A step that leaves the writer of a dirty buffer where it is keeps DirtyInv.
LEMMA DirtyKept ==
  ASSUME IInv, kind' = kind, dirty' = dirty,
         \A w \in Locked : usage[w] = "sw_write" /\ pc[w] = "held"
           => w \in Locked' /\ usage'[w] = usage[w] /\ pc'[w] = pc[w]
  PROVE  DirtyInv'
<1> SUFFICES ASSUME dirty, kind # "adsp"
             PROVE  kind # "fb" /\ FlushedBeforeReuse'
  BY DEF DirtyInv
<1>1. kind # "fb" /\ FlushedBeforeReuse
  BY DEF IInv, DirtyInv
<1>2. PICK w \in Locked : usage[w] = "sw_write" /\ pc[w] = "held"
  BY <1>1 DEF FlushedBeforeReuse
<1> QED
  BY <1>1, <1>2 DEF FlushedBeforeReuse

\* Two threads that have the buffer locked are two readers.
LEMMA Exclusive ==
  ASSUME MutualExclusion, NEW t \in Locked, NEW u \in Locked, Writes(usage[t])
  PROVE  u = t
BY DEF MutualExclusion

\* A thread that holds a lock for reading keeps LOCK_STATE_WRITE clear.
LEMMA ReaderExcludes ==
  ASSUME LockStateExact, MutualExclusion, OrphansInv, TypeOK,
         NEW t \in Locked, ~Writes(usage[t])
  PROVE  ~write
<1>1. ~(orphans["sw_write"] > 0)
  BY DEF OrphansInv
<1>2. \A u \in Locked : ~Writes(usage[u])
  BY DEF MutualExclusion
<1> QED
  BY <1>1, <1>2 DEF LockStateExact

\* The buffer is not locked when a process gets its handle.
LEMMA InitInv == Init => IInv
<1> SUFFICES ASSUME Init PROVE IInv
  OBVIOUS
<1>1. Locked = {}
  BY DEF Init, Locked
<1>2. Cardinality(Locked) = 0
  BY <1>1, LockedFinite
<1>3. TypeOK
  BY KindsOfMemory, ZenonT(60) DEF Init, TypeOK, Labels, Usages, NoValue
<1>4. LockStateExact
  BY <1>1, <1>2 DEF Init, LockStateExact, Usages
<1> QED
  BY <1>1, <1>3, <1>4 DEF Init, IInv, MutualExclusion, OrphansInv, LockInv, WriterInv,
     FlushInv, DirtyInv, Mapping, Usages

\* The call of gralloc_lock().
LEMMA LockCallInv ==
  ASSUME IInv, NEW t \in Threads, NEW u \in Usages, Lock(t, u)
  PROVE  IInv'
<1>1. TypeOK'
  BY DEF IInv, Lock, TypeOK, Labels, Goto, Return, NoValue, handle, lockState
<1>2. Locked' = Locked /\ t \notin Locked
  BY DEF IInv, Lock, TypeOK, Locked, Goto, Return
<1>3. LockStateExact'
  BY <1>2, ZenonT(60) DEF IInv, Lock, LockStateExact, lockState, TypeOK, Locked, Goto
<1>4. MutualExclusion' /\ OrphansInv'
  BY <1>2 DEF IInv, Lock, MutualExclusion, OrphansInv, TypeOK, Locked, Goto
<1>5. ASSUME NEW v \in Threads PROVE LockInv(v)'
  BY <1>2 DEF IInv, Lock, LockInv, TypeOK, Goto, Return, Mapping, lockState
<1>6. ASSUME NEW v \in Threads PROVE WriterInv(v)'
  <2>1. CASE v = t
    BY <2>1, <1>2 DEF IInv, Lock, WriterInv, TypeOK, Goto, Return, lockState
  <2>2. CASE v # t
    BY <2>2, <1>2, Exclusive DEF IInv, Lock, WriterInv, TypeOK, Goto, Return, lockState
  <2> QED
    BY <2>1, <2>2
<1>7. ASSUME NEW v \in Threads PROVE FlushInv(v)'
  BY <1>2, Exclusive DEF IInv, Lock, FlushInv, TypeOK, Goto, Return, Mapping, handle
<1>8. DirtyInv'
  BY <1>2 DEF IInv, Lock, DirtyInv, FlushedBeforeReuse, TypeOK, Goto, Return, handle, Software
<1> QED
  BY <1>1, <1>2, <1>3, <1>4, <1>5, <1>6, <1>7, <1>8
  DEF IInv, Lock, handle, lockState, Locked, Goto, Return

\* The read of lockState, and -EBUSY.
LEMMA LockReadInv ==
  ASSUME IInv, NEW t \in Threads, LockRead(t)
  PROVE  IInv'
<1>0. /\ pc' \in [Threads -> Labels] /\ usage' \in [Threads -> Usages]
      /\ drop' \in [Threads -> BOOLEAN]
      /\ pc'[t] \in {"idle", "lock_cas"}
      /\ \A v \in Threads : v # t => pc'[v] = pc[v] /\ usage'[v] = usage[v]
  <2>1. CASE MayLock(usage[t], lockState)
    <3>1. Goto(t, "lock_cas") /\ UNCHANGED <<usage, drop>>
      BY <2>1 DEF LockRead
    <3> QED
      BY <3>1 DEF IInv, TypeOK, Labels, Goto
  <2>2. CASE ~MayLock(usage[t], lockState)
    <3>1. Return(t)
      BY <2>2 DEF LockRead
    <3> QED
      BY <3>1 DEF IInv, TypeOK, Labels, Usages, Goto, Return
  <2> QED
    BY <2>1, <2>2
<1>1. TypeOK'
  <2>1. lockState \in BOOLEAN \X BOOLEAN \X Nat /\ NoValue \in BOOLEAN \X BOOLEAN \X Nat
    BY ZenonT(60) DEF IInv, TypeOK, lockState, NoValue
  <2>2. snap' \in [Threads -> BOOLEAN \X BOOLEAN \X Nat]
    BY <2>1 DEF IInv, LockRead, TypeOK, Return
  <2> QED
    BY <1>0, <2>2 DEF IInv, LockRead, TypeOK, handle, lockState
<1>2. Locked' = Locked /\ t \notin Locked
  BY DEF IInv, LockRead, TypeOK, Locked, Goto, Return
<1>3. LockStateExact'
  <2>1. \A v \in Locked : usage'[v] = usage[v]
    BY <1>0, <1>2 DEF Locked
  <2> QED
    BY <1>2, <2>1 DEF IInv, LockRead, LockStateExact, lockState
<1>4. MutualExclusion' /\ OrphansInv'
  BY <1>2 DEF IInv, LockRead, MutualExclusion, OrphansInv, TypeOK, Locked, Goto, Return
<1>5. ASSUME NEW v \in Threads PROVE LockInv(v)'
  BY <1>2, ZenonT(60) DEF IInv, LockRead, LockInv, TypeOK, Goto, Return, Mapping, lockState
<1>6. ASSUME NEW v \in Threads PROVE WriterInv(v)'
  <2>1. CASE v = t
    BY <2>1, <1>2 DEF IInv, LockRead, WriterInv, TypeOK, Goto, Return, lockState
  <2>2. CASE v # t
    BY <2>2, <1>2, Exclusive DEF IInv, LockRead, WriterInv, TypeOK, Goto, Return, lockState
  <2> QED
    BY <2>1, <2>2
<1>7. ASSUME NEW v \in Threads PROVE FlushInv(v)'
  BY <1>2, Exclusive DEF IInv, LockRead, FlushInv, TypeOK, Goto, Return, Mapping, handle
<1>8. DirtyInv'
  BY <1>0, <1>2 DEF IInv, LockRead, DirtyInv, FlushedBeforeReuse, Locked, handle
<1> QED
  BY <1>1, <1>2, <1>3, <1>4, <1>5, <1>6, <1>7, <1>8
  DEF IInv, LockRead, handle, lockState, Goto, Return

\* The store of writeOwner.
LEMMA LockOwnerInv ==
  ASSUME IInv, NEW t \in Threads, LockOwner(t)
  PROVE  IInv'
<1>1. TypeOK'
  BY DEF IInv, LockOwner, TypeOK, Labels, Goto, Return, NoValue, handle, lockState
<1>2. Locked' = Locked /\ t \in Locked
  BY DEF IInv, LockOwner, TypeOK, Locked, Goto, Return
<1>3. LockStateExact'
  BY <1>2 DEF IInv, LockOwner, LockStateExact, lockState
<1>4. MutualExclusion' /\ OrphansInv'
  BY <1>2 DEF IInv, LockOwner, MutualExclusion, OrphansInv
<1>5. ASSUME NEW v \in Threads PROVE LockInv(v)'
  BY <1>2 DEF IInv, LockOwner, LockInv, TypeOK, Goto, Return, Mapping, lockState
<1>6. ASSUME NEW v \in Threads PROVE WriterInv(v)'
  <2>1. CASE v = t
    BY <2>1, <1>2 DEF IInv, LockOwner, WriterInv, TypeOK, Goto, Return, lockState
  <2>2. CASE v # t
    BY <2>2, <1>2, Exclusive DEF IInv, LockOwner, WriterInv, TypeOK, Goto, Return, lockState
  <2> QED
    BY <2>1, <2>2
<1>7. ASSUME NEW v \in Threads PROVE FlushInv(v)'
  BY <1>2, Exclusive DEF IInv, LockOwner, FlushInv, TypeOK, Goto, Return, Mapping, handle
<1>8. DirtyInv'
  BY <1>2 DEF IInv, LockOwner, DirtyInv, FlushedBeforeReuse, TypeOK, Goto, Return, handle, Software
<1> QED
  BY <1>1, <1>2, <1>3, <1>4, <1>5, <1>6, <1>7, <1>8
  DEF IInv, LockOwner, handle, lockState, Locked, Goto, Return

\* sMapLock is taken.
LEMMA MapLockInv ==
  ASSUME IInv, NEW t \in Threads, MapLock(t)
  PROVE  IInv'
<1>1. TypeOK'
  BY DEF IInv, MapLock, TypeOK, Labels, Goto, Return, NoValue, handle, lockState
<1>2. Locked' = Locked /\ t \in Locked
  BY DEF IInv, MapLock, TypeOK, Locked, Goto, Return
<1>3. LockStateExact'
  BY <1>2 DEF IInv, MapLock, LockStateExact, lockState
<1>4. MutualExclusion' /\ OrphansInv'
  BY <1>2 DEF IInv, MapLock, MutualExclusion, OrphansInv
<1>5. ASSUME NEW v \in Threads PROVE LockInv(v)'
  BY <1>2, ThreadsAreFinite DEF IInv, MapLock, LockInv, TypeOK, Goto, Return, Mapping, lockState
<1>6. ASSUME NEW v \in Threads PROVE WriterInv(v)'
  <2>1. CASE v = t
    BY <2>1, <1>2 DEF IInv, MapLock, WriterInv, TypeOK, Goto, Return, lockState
  <2>2. CASE v # t
    BY <2>2, <1>2, Exclusive DEF IInv, MapLock, WriterInv, TypeOK, Goto, Return, lockState
  <2> QED
    BY <2>1, <2>2
<1>7. ASSUME NEW v \in Threads PROVE FlushInv(v)'
  BY <1>2, Exclusive DEF IInv, MapLock, FlushInv, TypeOK, Goto, Return, Mapping, handle
<1>8. DirtyInv'
  BY <1>2 DEF IInv, MapLock, DirtyInv, FlushedBeforeReuse, TypeOK, Goto, Return, handle, Software
<1> QED
  BY <1>1, <1>2, <1>3, <1>4, <1>5, <1>6, <1>7, <1>8
  DEF IInv, MapLock, handle, lockState, Locked, Goto, Return

\* The flag of a buffer that has been mapped.
LEMMA MapFlagInv ==
  ASSUME IInv, NEW t \in Threads, MapFlag(t)
  PROVE  IInv'
<1>1. TypeOK'
  BY DEF IInv, MapFlag, TypeOK, Labels, Goto, Return, NoValue, handle, lockState
<1>2. Locked' = Locked /\ t \in Locked
  BY DEF IInv, MapFlag, TypeOK, Locked, Goto, Return
<1>3. LockStateExact'
  BY <1>2 DEF IInv, MapFlag, LockStateExact, lockState
<1>4. MutualExclusion' /\ OrphansInv'
  BY <1>2 DEF IInv, MapFlag, MutualExclusion, OrphansInv
<1>5. ASSUME NEW v \in Threads PROVE LockInv(v)'
  BY <1>2 DEF IInv, MapFlag, LockInv, TypeOK, Goto, Return, Mapping, lockState
<1>6. ASSUME NEW v \in Threads PROVE WriterInv(v)'
  <2>1. CASE v = t
    BY <2>1, <1>2 DEF IInv, MapFlag, WriterInv, TypeOK, Goto, Return, lockState
  <2>2. CASE v # t
    <3>1. ~(v \in Locked /\ Writes(usage[v]))
      BY <2>2, <1>2, Exclusive DEF IInv
    <3>2. pc[v] = "unlock_cas" => v \in Locked
      BY DEF Locked
    <3> QED BY <3>1, <3>2, <2>2, <1>2, Exclusive, ZenonT(60)
    DEF IInv, MapFlag, WriterInv, TypeOK, Goto, Return, lockState
  <2> QED
    BY <2>1, <2>2
<1>7. ASSUME NEW v \in Threads PROVE FlushInv(v)'
  BY <1>2, Exclusive DEF IInv, MapFlag, FlushInv, TypeOK, Goto, Return, Mapping, handle
<1>8. DirtyInv'
  BY <1>2 DEF IInv, MapFlag, DirtyInv, FlushedBeforeReuse, TypeOK, Goto, Return, handle, Software
<1> QED
  BY <1>1, <1>2, <1>3, <1>4, <1>5, <1>6, <1>7, <1>8
  DEF IInv, MapFlag, LockInv, handle, lockState

\* The cache is cleaned.
LEMMA UnlockFlushInv ==
  ASSUME IInv, NEW t \in Threads, UnlockFlush(t)
  PROVE  IInv'
<1>1. TypeOK'
  BY ZenonT(60) DEF IInv, UnlockFlush, TypeOK, Labels, Goto, Return, NoValue, handle, lockState
<1>2. Locked' = Locked /\ t \in Locked
  BY DEF IInv, UnlockFlush, TypeOK, Locked, Goto, Return
<1>3. LockStateExact'
  BY <1>2 DEF IInv, UnlockFlush, LockStateExact, lockState
<1>4. MutualExclusion' /\ OrphansInv'
  BY <1>2 DEF IInv, UnlockFlush, MutualExclusion, OrphansInv
<1>5. ASSUME NEW v \in Threads PROVE LockInv(v)'
  BY <1>2 DEF IInv, UnlockFlush, LockInv, TypeOK, Goto, Return, Mapping, lockState
<1>6. ASSUME NEW v \in Threads PROVE WriterInv(v)'
  <2>1. CASE v = t
    BY <2>1, <1>2 DEF IInv, UnlockFlush, WriterInv, TypeOK, Goto, Return, lockState
  <2>2. CASE v # t
    BY <2>2, <1>2, Exclusive DEF IInv, UnlockFlush, WriterInv, TypeOK, Goto, Return, lockState
  <2> QED
    BY <2>1, <2>2
<1>7. ASSUME NEW v \in Threads PROVE FlushInv(v)'
  <2>1. Mapping(v) \/ pc[v] = "held" => v \in Locked
    BY DEF Mapping, Locked
  <2>2. CASE v = t
    BY <2>2 DEF IInv, UnlockFlush, FlushInv, TypeOK, Goto, Mapping
  <2>3. CASE v # t
    <3>1. ~(v \in Locked /\ usage[v] = "sw_write")
      BY <2>3, <1>2, Exclusive DEF IInv, Writes
    <3> QED
      BY <2>1, <2>3, <3>1 DEF IInv, UnlockFlush, FlushInv, TypeOK, Goto, Mapping, handle
  <2> QED
    BY <2>2, <2>3
<1>8. DirtyInv'
  <2> SUFFICES ASSUME dirty, kind # "adsp" PROVE ~dirty'
    BY ZenonT(60) DEF UnlockFlush, DirtyInv, handle
  <2>1. PICK w \in Locked : usage[w] = "sw_write" /\ pc[w] = "held"
    BY DEF IInv, DirtyInv, FlushedBeforeReuse
  <2>2. w = t
    BY <1>2, <2>1, Exclusive DEF IInv, Writes
  <2>3. needsFlush /\ kind \in {"pmem", "ashmem"}
    BY <2>1, <2>2 DEF IInv, FlushInv, DirtyInv, TypeOK
  <2> QED
    BY <2>3, ZenonT(60) DEF UnlockFlush
<1> QED
  BY <1>1, <1>2, <1>3, <1>4, <1>5, <1>6, <1>7, <1>8
  DEF IInv, UnlockFlush, handle, lockState, Locked, Goto, Return

\* The read of lockState in gralloc_unlock().
LEMMA UnlockReadInv ==
  ASSUME IInv, NEW t \in Threads, UnlockRead(t)
  PROVE  IInv'
<1>1. TypeOK'
  BY DEF IInv, UnlockRead, TypeOK, Labels, Goto, Return, NoValue, handle, lockState
<1>2. Locked' = Locked /\ t \in Locked
  BY DEF IInv, UnlockRead, TypeOK, Locked, Goto, Return
<1>3. LockStateExact'
  BY <1>2 DEF IInv, UnlockRead, LockStateExact, lockState
<1>4. MutualExclusion' /\ OrphansInv'
  BY <1>2 DEF IInv, UnlockRead, MutualExclusion, OrphansInv
<1>5. ASSUME NEW v \in Threads PROVE LockInv(v)'
  BY <1>2 DEF IInv, UnlockRead, LockInv, TypeOK, Goto, Return, Mapping, lockState
<1>6. ASSUME NEW v \in Threads PROVE WriterInv(v)'
  <2>1. CASE v = t
    <3>1. pc'[t] = "unlock_cas" /\ usage' = usage
      BY DEF IInv, UnlockRead, TypeOK, Goto
    <3>2. drop'[t] = (write /\ writeOwner = t) /\ snap'[t] = lockState'
      BY DEF IInv, UnlockRead, TypeOK, lockState
    <3>3. CASE Writes(usage[t])
      <4>1. write /\ writeOwner = t
        BY <1>2, <3>3 DEF IInv, LockStateExact, WriterInv, UnlockRead
      <4> QED
        BY <2>1, <3>1, <3>2, <3>3, <4>1, ZenonT(60) DEF WriterInv
    <3>4. CASE ~Writes(usage[t])
      <4>1. ~write
        BY <1>2, <3>4, ReaderExcludes DEF IInv
      <4> QED
        BY <2>1, <3>1, <3>2, <3>4, <4>1, ZenonT(60) DEF WriterInv
    <3> QED
      BY <3>3, <3>4
  <2>2. CASE v # t
    BY <2>2, <1>2, Exclusive DEF IInv, UnlockRead, WriterInv, TypeOK, Goto, Return, lockState
  <2> QED
    BY <2>1, <2>2
<1>7. ASSUME NEW v \in Threads PROVE FlushInv(v)'
  BY <1>2, Exclusive DEF IInv, UnlockRead, FlushInv, TypeOK, Goto, Return, Mapping, handle
<1>8. DirtyInv'
  BY <1>2 DEF IInv, UnlockRead, DirtyInv, FlushedBeforeReuse, TypeOK, Goto, Return, handle, Software
<1> QED
  BY <1>1, <1>2, <1>3, <1>4, <1>5, <1>6, <1>7, <1>8
  DEF IInv, UnlockRead, handle, lockState, Locked, Goto, Return

\* The exchange of gralloc_lock(): one more lock, or the loop goes round.
LEMMA LockExchangeInv ==
  ASSUME IInv, NEW t \in Threads, LockExchange(t)
  PROVE  IInv'
<1> USE DEF Goto
<1>0. pc[t] = "lock_cas" /\ t \notin Locked
  BY DEF LockExchange, Locked
<1>1. CASE lockState # snap[t]
  <2>1. /\ pc' = [pc EXCEPT ![t] = "lock_read"]
        /\ UNCHANGED <<handle, lockState, writeOwner, base, needsFlush, dirty, mapLock,
                       usage, snap, drop, orphans>>
    BY <1>1 DEF LockExchange, lockState
  <2>2. TypeOK'
    BY <2>1 DEF IInv, TypeOK, Labels, handle, lockState
  <2>3. Locked' = Locked
    BY <1>0, <2>1 DEF IInv, TypeOK, Locked
  <2>4. \A v \in Threads : pc'[v] = pc[v] \/ (v = t /\ pc'[v] = "lock_read")
    BY <2>1 DEF IInv, TypeOK
  <2>5. LockStateExact' /\ MutualExclusion' /\ OrphansInv'
    BY <2>1, <2>3 DEF IInv, LockStateExact, MutualExclusion, OrphansInv, lockState
  <2>6. ASSUME NEW v \in Threads PROVE LockInv(v)' /\ WriterInv(v)' /\ FlushInv(v)'
    <3>1. CASE v = t
      BY <2>1, <2>3, <1>0, <3>1 DEF IInv, TypeOK, LockInv, WriterInv, FlushInv, Mapping
    <3>2. CASE v # t
      <4>1. pc'[v] = pc[v]
        BY <2>4, <3>2
      <4> QED
        BY <2>1, <2>3, <4>1 DEF IInv, LockInv, WriterInv, FlushInv, Mapping, handle, lockState
    <3> QED
      BY <3>1, <3>2
  <2>7. DirtyInv'
    <3>1. kind' = kind /\ dirty' = dirty /\ usage' = usage
      BY <2>1 DEF handle
    <3>2. \A w \in Locked : pc[w] = "held" => w \in Locked' /\ pc'[w] = pc[w]
      BY <1>0, <2>3, <2>4 DEF Locked
    <3> QED
      BY <3>1, <3>2, DirtyKept
  <2>8. registered
    BY <1>0 DEF IInv
  <2> QED
    BY <2>1, <2>2, <2>3, <2>5, <2>6, <2>7, <2>8 DEF IInv, handle, lockState
<1>2. CASE lockState = snap[t]
  <2>1. /\ write' = (write \/ Writes(usage[t]))
        /\ count' = count + 1
        /\ pc' = [pc EXCEPT ![t] = "lock_owner"]
        /\ UNCHANGED <<handle, mapped, writeOwner, base, needsFlush, dirty, mapLock,
                       usage, snap, drop, orphans>>
    BY <1>2 DEF LockExchange
  <2>2. TypeOK'
    BY <2>1 DEF IInv, TypeOK, Labels, handle
  <2>3. Locked' = Locked \union {t}
    BY <1>0, <2>1 DEF IInv, TypeOK, Locked
  <2>4. \A v \in Threads : v # t => pc'[v] = pc[v]
    BY <2>1 DEF IInv, TypeOK
  <2>5. ~write /\ (count = 0 \/ ~Writes(usage[t])) /\ (snap[t][2] => mapped)
    BY <1>0, <1>2 DEF IInv, LockInv, MayLock, lockState
  <2>6. Cardinality(Locked') = Cardinality(Locked) + 1
    BY <1>0, <2>3, LockedFinite, FS_AddElement
  <2>7. orphans["sw_write"] = 0 /\ \A v \in Locked : ~Writes(usage[v])
    <3>1. ~(\E v \in Locked : Writes(usage[v])) /\ ~(orphans["sw_write"] > 0)
      BY <2>5 DEF IInv, LockStateExact
    <3> QED
      BY <3>1, CountIsSum
  <2>8. LockStateExact'
    <3>1. count' = Cardinality(Locked') + orphans'["sw_read"] + orphans'["sw_write"]
      BY <2>1, <2>6, CountIsSum
    <3>2. write' <=> Writes(usage[t])
      BY <2>1, <2>5, ZenonT(60)
    <3>3. Writes(usage[t]) <=> \E v \in Locked' : Writes(usage'[v])
      BY <2>1, <2>3, <2>7
    <3>4. ~(orphans'["sw_write"] > 0)
      BY <2>1, <2>7
    <3> QED
      BY <3>1, <3>2, <3>3, <3>4 DEF LockStateExact
  <2>9. MutualExclusion'
    <3> SUFFICES ASSUME NEW v \in Locked', Writes(usage'[v]) PROVE Locked' = {v}
      BY DEF MutualExclusion
    <3>1. v = t
      BY <2>1, <2>3, <2>7
    <3>2. count = 0
      BY <2>1, <2>5, <3>1
    <3>3. Cardinality(Locked) = 0
      BY <3>2, CountIsSum
    <3> QED
      BY <2>3, <3>1, <3>3, LockedFinite
  <2>10. OrphansInv'
    BY <2>1, <2>7 DEF OrphansInv
  <2>11. ASSUME NEW v \in Threads PROVE LockInv(v)' /\ WriterInv(v)' /\ FlushInv(v)'
    <3>1. CASE v = t
      <4>1. pc'[t] = "lock_owner"
        BY <2>1 DEF IInv, TypeOK
      <4> QED
        BY <2>1, <2>5, <3>1, <4>1 DEF LockInv, WriterInv, FlushInv, Mapping
    <3>2. CASE v # t
      <4>1. pc'[v] = pc[v] /\ (v \in Locked' <=> v \in Locked)
        BY <2>3, <2>4, <3>2
      <4>2. pc[v] = "unlock_cas" => v \in Locked
        BY DEF Locked
      <4>3. WriterInv(v)'
        BY <2>1, <2>7, <4>1, <4>2 DEF IInv, WriterInv
      <4> QED
        BY <2>1, <4>1, <4>3 DEF IInv, LockInv, FlushInv, Mapping, handle
    <3> QED
      BY <3>1, <3>2
  <2>12. DirtyInv'
    <3>1. kind' = kind /\ dirty' = dirty /\ usage' = usage
      BY <2>1 DEF handle
    <3>2. \A w \in Locked : pc[w] = "held" => w \in Locked' /\ pc'[w] = pc[w]
      BY <1>0, <2>3, <2>4 DEF Locked
    <3> QED
      BY <3>1, <3>2, DirtyKept
  <2>13. registered
    BY <1>0 DEF IInv
  <2> QED
    BY <2>1, <2>2, <2>8, <2>9, <2>10, <2>11, <2>12, <2>13 DEF IInv, handle
<1> QED
  BY <1>1, <1>2

\* The exchange of gralloc_unlock(): one lock less, or the loop goes round.
LEMMA UnlockExchangeInv ==
  ASSUME IInv, NEW t \in Threads, UnlockExchange(t)
  PROVE  IInv'
<1> USE DEF Goto
<1>0. pc[t] = "unlock_cas" /\ t \in Locked /\ registered
  BY DEF UnlockExchange, Locked, IInv
<1>1. CASE lockState # snap[t]
  <2>0. ~Writes(usage[t])
    BY <1>0, <1>1 DEF IInv, WriterInv
  <2>1. /\ pc' = [pc EXCEPT ![t] = "unlock_read"]
        /\ UNCHANGED <<handle, lockState, writeOwner, base, needsFlush, dirty, mapLock,
                       usage, snap, drop, orphans>>
    BY <1>1 DEF UnlockExchange, lockState
  <2>2. TypeOK'
    BY <2>1 DEF IInv, TypeOK, Labels, handle, lockState
  <2>3. Locked' = Locked
    BY <1>0, <2>1 DEF IInv, TypeOK, Locked
  <2>4. \A v \in Threads : pc'[v] = pc[v] \/ (v = t /\ pc'[v] = "unlock_read")
    BY <2>1 DEF IInv, TypeOK
  <2>5. LockStateExact' /\ MutualExclusion' /\ OrphansInv'
    BY <2>1, <2>3 DEF IInv, LockStateExact, MutualExclusion, OrphansInv, lockState
  <2>6. ASSUME NEW v \in Threads PROVE LockInv(v)' /\ WriterInv(v)' /\ FlushInv(v)'
    <3>1. CASE v = t
      BY <2>0, <2>1, <2>3, <1>0, <3>1 DEF IInv, TypeOK, LockInv, WriterInv, FlushInv, Mapping
    <3>2. CASE v # t
      <4>1. pc'[v] = pc[v]
        BY <2>4, <3>2
      <4> QED
        BY <2>1, <2>3, <4>1 DEF IInv, LockInv, WriterInv, FlushInv, Mapping, handle, lockState
    <3> QED
      BY <3>1, <3>2
  <2>7. DirtyInv'
    <3>1. kind' = kind /\ dirty' = dirty /\ usage' = usage
      BY <2>1 DEF handle
    <3>2. \A w \in Locked : pc[w] = "held" => w \in Locked' /\ pc'[w] = pc[w]
      BY <1>0, <2>3, <2>4 DEF Locked
    <3> QED
      BY <3>1, <3>2, DirtyKept
  <2> QED
    BY <1>0, <2>1, <2>2, <2>5, <2>6, <2>7 DEF IInv, handle, lockState
<1>2. CASE lockState = snap[t]
  <2>1. /\ write' = (write /\ ~drop[t])
        /\ count' = count - 1
        /\ Return(t)
        /\ UNCHANGED <<handle, mapped, writeOwner, base, needsFlush, dirty, mapLock, orphans>>
    BY <1>2 DEF UnlockExchange
  <2>2. /\ Locked' = Locked \ {t}
        /\ pc'[t] = "idle"
        /\ \A v \in Threads : v # t => /\ pc'[v] = pc[v] /\ usage'[v] = usage[v]
                                       /\ snap'[v] = snap[v] /\ drop'[v] = drop[v]
    BY <1>0, <2>1 DEF IInv, TypeOK, Locked, Return
  <2>3. Cardinality(Locked') = Cardinality(Locked) - 1 /\ Cardinality(Locked) # 0
    <3>1. Cardinality(Locked \ {t}) = Cardinality(Locked) - 1
      BY <1>0, LockedFinite, FS_RemoveElement
    <3> QED
      BY <1>0, <2>2, <3>1, LockedFinite
  <2>4. TypeOK'
    <3>1. count' \in Nat
      BY <2>1, <2>3, CountIsSum
    <3> QED
      BY <2>1, <3>1, ZenonT(60) DEF IInv, TypeOK, Labels, Usages, NoValue, Return, handle
  <2>5. orphans["sw_write"] = 0
    BY <1>0 DEF IInv, OrphansInv, TypeOK, Usages
  <2>6. \A v \in Locked : v # t => ~Writes(usage[t]) /\ ~Writes(usage[v])
    BY <1>0, Exclusive DEF IInv
  <2>7. write' = FALSE
    <3>1. CASE Writes(usage[t])
      BY <1>0, <2>1, <3>1 DEF IInv, WriterInv
    <3>2. CASE ~Writes(usage[t])
      <4>1. ~write
        BY <1>0, <3>2, ReaderExcludes DEF IInv
      <4> QED
        BY <2>1, <4>1, ZenonT(60)
    <3> QED
      BY <3>1, <3>2, ZenonT(60)
  <2>8. LockStateExact'
    <3>1. count' = Cardinality(Locked') + orphans'["sw_read"] + orphans'["sw_write"]
      BY <2>1, <2>3, CountIsSum
    <3>2. \A v \in Locked' : v \in Threads /\ v # t /\ v \in Locked
      BY <2>2 DEF Locked
    <3>3. ~ \E v \in Locked' : Writes(usage'[v])
      BY <2>2, <2>6, <3>2
    <3>4. ~(orphans'["sw_write"] > 0)
      BY <2>1, <2>5
    <3> QED
      BY <2>7, <3>1, <3>3, <3>4 DEF LockStateExact
  <2>9. MutualExclusion'
    <3>1. \A v \in Locked' : ~Writes(usage'[v])
      BY <2>7, <2>8 DEF LockStateExact
    <3> QED
      BY <3>1 DEF MutualExclusion
  <2>10. OrphansInv'
    BY <2>1, <2>5 DEF OrphansInv
  <2>11. ASSUME NEW v \in Threads PROVE LockInv(v)' /\ WriterInv(v)' /\ FlushInv(v)'
    <3>1. CASE v = t
      BY <2>2, <3>1 DEF LockInv, WriterInv, FlushInv, Mapping
    <3>2. CASE v # t
      <4>1. pc[v] = "unlock_cas" => v \in Locked
        BY DEF Locked
      <4>2. WriterInv(v)'
        BY <2>1, <2>2, <2>6, <3>2, <4>1 DEF IInv, WriterInv
      <4> QED
        BY <2>1, <2>2, <3>2, <4>2 DEF IInv, LockInv, FlushInv, Mapping, handle
    <3> QED
      BY <3>1, <3>2
  <2>12. DirtyInv'
    <3> SUFFICES ASSUME dirty, kind # "adsp"
                 PROVE  kind # "fb" /\ FlushedBeforeReuse'
      BY <2>1 DEF DirtyInv, handle
    <3>1. PICK w \in Locked : usage[w] = "sw_write" /\ pc[w] = "held"
      BY DEF IInv, DirtyInv, FlushedBeforeReuse
    <3>2. w # t
      BY <1>0, <3>1
    <3> QED
      BY <2>6, <3>1, <3>2 DEF Writes
  <2> QED
    BY <1>0, <2>1, <2>4, <2>8, <2>9, <2>10, <2>11, <2>12 DEF IInv, handle
<1> QED
  BY <1>1, <1>2

\* gralloc_map(): it succeeds, it was done by another thread, or it fails and
\* the lock is left behind.
LEMMA MapInv ==
  ASSUME IInv, NEW t \in Threads, Map(t)
  PROVE  IInv'
<1> USE DEF Goto
<1>0. pc[t] = "map" /\ t \in Locked /\ registered /\ mapLock = t
  BY DEF Map, Locked, IInv, LockInv
<1>1. ASSUME NEW v \in Threads, v # t, pc[v] \in {"map", "map_flag"} PROVE FALSE
  BY <1>0, <1>1 DEF IInv, LockInv
<1>2. ASSUME NEW v \in Locked, v # t PROVE ~Writes(usage[t]) /\ ~Writes(usage[v])
  BY <1>0, <1>2, Exclusive DEF IInv
<1>3. ASSUME NEW v \in Threads PROVE pc[v] = "unlock_cas" => v \in Locked
  BY DEF Locked
<1>4. CASE ~mapped /\ base' = TRUE /\ pc' = [pc EXCEPT ![t] = "map_flag"]
           /\ UNCHANGED <<mapLock, dirty, usage, snap, drop, orphans>>
  <2>1. UNCHANGED <<handle, lockState, writeOwner, needsFlush>>
    BY DEF Map
  <2>2. pc'[t] = "map_flag" /\ (\A v \in Threads : v # t => pc'[v] = pc[v])
    BY <1>4 DEF IInv, TypeOK
  <2>3. Locked' = Locked
    BY <1>0, <2>2 DEF Locked
  <2>4. TypeOK'
    <3>1. base' \in BOOLEAN
      BY <1>4
    <3> QED
      BY <1>4, <2>1, <3>1 DEF IInv, TypeOK, Labels, handle, lockState
  <2>5. LockStateExact' /\ MutualExclusion' /\ OrphansInv'
    BY <1>4, <2>1, <2>3 DEF IInv, LockStateExact, MutualExclusion, OrphansInv, lockState
  <2>6. ASSUME NEW v \in Threads PROVE LockInv(v)' /\ WriterInv(v)' /\ FlushInv(v)'
    <3>1. CASE v = t
      BY <1>0, <1>4, <2>1, <2>2, <2>3, <3>1
      DEF IInv, LockInv, WriterInv, FlushInv, Mapping, handle, lockState
    <3>2. CASE v # t
      BY <1>4, <2>1, <2>2, <2>3, <3>2
      DEF IInv, LockInv, WriterInv, FlushInv, Mapping, handle, lockState
    <3> QED
      BY <3>1, <3>2
  <2>7. DirtyInv'
    <3>1. kind' = kind /\ dirty' = dirty /\ usage' = usage
      BY <1>4, <2>1 DEF handle
    <3>2. \A w \in Locked : pc[w] = "held" => w \in Locked' /\ pc'[w] = pc[w]
      BY <1>0, <2>2, <2>3 DEF Locked
    <3> QED
      BY <3>1, <3>2, DirtyKept
  <2> QED
    BY <1>0, <1>4, <2>1, <2>4, <2>5, <2>6, <2>7 DEF IInv, handle, lockState
<1>5. CASE /\ mapped /\ mapLock' = NoThread
           /\ dirty' = (dirty \/ (usage[t] = "sw_write" /\ kind # "fb"))
           /\ pc' = [pc EXCEPT ![t] = "held"]
           /\ UNCHANGED <<base, usage, snap, drop, orphans>>
  <2>1. UNCHANGED <<handle, lockState, writeOwner, needsFlush>>
    BY DEF Map
  <2>2. pc'[t] = "held" /\ (\A v \in Threads : v # t => pc'[v] = pc[v])
    BY <1>5 DEF IInv, TypeOK
  <2>3. Locked' = Locked
    BY <1>0, <2>2 DEF Locked
  <2>4. TypeOK'
    BY <1>5, <2>1 DEF IInv, TypeOK, Labels, handle, lockState
  <2>5. LockStateExact' /\ MutualExclusion' /\ OrphansInv'
    BY <1>5, <2>1, <2>3 DEF IInv, LockStateExact, MutualExclusion, OrphansInv, lockState
  <2>6. ASSUME NEW v \in Threads PROVE LockInv(v)' /\ WriterInv(v)' /\ FlushInv(v)'
    <3>1. CASE v = t
      BY <1>0, <1>5, <2>1, <2>2, <2>3, <3>1
      DEF IInv, LockInv, WriterInv, FlushInv, Mapping, handle, lockState
    <3>2. CASE v # t
      BY <1>1, <1>5, <2>1, <2>2, <2>3, <3>2, ZenonT(60)
      DEF IInv, LockInv, WriterInv, FlushInv, Mapping, handle, lockState
    <3> QED
      BY <3>1, <3>2
  <2>7. DirtyInv'
    <3>1. t \in Locked' /\ kind' = kind /\ usage' = usage
      BY <1>0, <1>5, <2>1, <2>3 DEF handle
    <3>2. CASE usage[t] = "sw_write" /\ kind # "fb"
      BY <2>2, <3>1, <3>2 DEF DirtyInv, FlushedBeforeReuse
    <3>3. CASE ~(usage[t] = "sw_write" /\ kind # "fb")
      <4>1. dirty' = dirty
        BY <1>5, <3>3 DEF IInv, TypeOK
      <4>2. \A w \in Locked : pc[w] = "held" => w \in Locked' /\ pc'[w] = pc[w]
        BY <1>0, <2>2, <2>3 DEF Locked
      <4> QED
        BY <3>1, <4>1, <4>2, DirtyKept
    <3> QED
      BY <3>2, <3>3
  <2> QED
    BY <1>0, <1>5, <2>1, <2>4, <2>5, <2>6, <2>7 DEF IInv, handle, lockState
<1>6. CASE /\ ~mapped /\ kind # "fb" /\ base' = FALSE /\ mapLock' = NoThread
           /\ orphans' = [orphans EXCEPT ![usage[t]] = @ + 1]
           /\ Return(t)
           /\ UNCHANGED dirty
  <2>1. UNCHANGED <<handle, lockState, writeOwner, needsFlush>>
    BY DEF Map
  <2>2. /\ Locked' = Locked \ {t}
        /\ pc'[t] = "idle"
        /\ \A v \in Threads : v # t => /\ pc'[v] = pc[v] /\ usage'[v] = usage[v]
                                       /\ snap'[v] = snap[v] /\ drop'[v] = drop[v]
    BY <1>0, <1>6 DEF IInv, TypeOK, Locked, Return
  <2>3. Cardinality(Locked') = Cardinality(Locked) - 1 /\ Cardinality(Locked) # 0
    <3>1. Cardinality(Locked \ {t}) = Cardinality(Locked) - 1
      BY <1>0, LockedFinite, FS_RemoveElement
    <3> QED
      BY <1>0, <2>2, <3>1, LockedFinite
  <2>4. TypeOK'
    <3>1. base' \in BOOLEAN
      BY <1>6, ZenonT(60)
    <3>2. orphans' \in [Usages -> Nat]
      BY <1>6, SMTT(30) DEF IInv, TypeOK
    <3> QED
      BY <1>6, <2>1, <3>1, <3>2, ZenonT(60)
      DEF IInv, TypeOK, Labels, Usages, NoValue, Return, handle, lockState
  <2>5. orphans["sw_write"] = 0 /\ orphans["sw_read"] \in Nat
    BY <1>0 DEF IInv, OrphansInv, TypeOK, Usages
  <2>6. usage[t] \in {"sw_read", "sw_write"}
    BY <1>0 DEF IInv, LockInv, Mapping, Software
  <2>7. \A v \in Locked' : v \in Threads /\ v # t /\ v \in Locked
    BY <2>2 DEF Locked
  <2>8. ~ \E v \in Locked' : Writes(usage'[v])
    BY <1>2, <2>2, <2>7
  <2>9. Writes(usage[t]) => Locked' = {}
    BY <1>2, <2>7
  <2>10. Writes(usage[t]) <=> usage[t] = "sw_write"
    BY <2>6 DEF Writes
  <2>11. /\ orphans'["sw_write"] = IF Writes(usage[t]) THEN 1 ELSE 0
         /\ orphans'["sw_read"] + orphans'["sw_write"] = orphans["sw_read"] + 1
    BY <1>6, <2>5, <2>6, <2>10 DEF IInv, TypeOK, Usages
  <2>12. LockStateExact'
    <3>1. count' = Cardinality(Locked') + orphans'["sw_read"] + orphans'["sw_write"]
      <4>1. count = Cardinality(Locked) + orphans["sw_read"]
        BY <2>5, CountIsSum
      <4>2. orphans'["sw_read"] \in Nat /\ orphans'["sw_write"] \in Nat
        BY <2>4 DEF TypeOK, Usages
      <4> QED
        BY <2>1, <2>3, <2>5, <2>11, <4>1, <4>2, LockedFinite DEF lockState
    <3>2. write <=> Writes(usage[t])
      <4>1. CASE Writes(usage[t])
        BY <1>0, <4>1 DEF IInv, LockStateExact
      <4>2. CASE ~Writes(usage[t])
        BY <1>0, <4>2, ReaderExcludes DEF IInv
      <4> QED
        BY <4>1, <4>2
    <3> QED
      BY <2>1, <2>8, <2>11, <3>1, <3>2 DEF LockStateExact, lockState
  <2>13. MutualExclusion' /\ OrphansInv'
    BY <2>8, <2>9, <2>11 DEF MutualExclusion, OrphansInv
  <2>14. ASSUME NEW v \in Threads PROVE LockInv(v)' /\ WriterInv(v)' /\ FlushInv(v)'
    <3>1. CASE v = t
      BY <2>2, <3>1 DEF LockInv, WriterInv, FlushInv, Mapping
    <3>2. CASE v # t
      <4>1. WriterInv(v)'
        BY <1>2, <1>3, <2>1, <2>2, <3>2 DEF IInv, WriterInv
      <4> QED
        BY <1>1, <2>1, <2>2, <3>2, <4>1 DEF IInv, LockInv, FlushInv, Mapping, handle, lockState
    <3> QED
      BY <3>1, <3>2
  <2>15. DirtyInv'
    <3> SUFFICES ASSUME dirty, kind # "adsp" PROVE FALSE
      BY <1>6, <2>1 DEF DirtyInv, handle
    <3>1. PICK w \in Locked : usage[w] = "sw_write" /\ pc[w] = "held"
      BY DEF IInv, DirtyInv, FlushedBeforeReuse
    <3> QED
      BY <1>0, <1>2, <3>1 DEF Writes
  <2> QED
    BY <1>0, <1>6, <2>1, <2>4, <2>12, <2>13, <2>14, <2>15 DEF IInv, handle, lockState
<1> QED
  BY <1>4, <1>5, <1>6 DEF Map

\* registerBuffer and unregisterBuffer come when no thread is in a call.
LEMMA RegistrationInv ==
  ASSUME IInv, RegisterBuffer \/ UnregisterBuffer
  PROVE  IInv'
<1>1. /\ \A t \in Threads : pc[t] = "idle"
      /\ registered' \in BOOLEAN
      /\ UNCHANGED <<kind, own, needsFlush, dirty, mapLock, pc, usage, snap, drop>>
      /\ UNCHANGED <<lockState, writeOwner, base, orphans>> \/ Reset
  BY DEF IInv, RegisterBuffer, UnregisterBuffer
<1>2. Locked = {} /\ Locked' = {}
  BY <1>1 DEF Locked
<1>3. Cardinality(Locked) = 0 /\ Cardinality(Locked') = 0
  BY <1>2, FS_EmptySet
<1>4. TypeOK'
  <2>1. CASE UNCHANGED <<lockState, writeOwner, base, orphans>>
    BY <1>1, <2>1 DEF IInv, TypeOK, lockState
  <2>2. CASE Reset
    <3>1. orphans' \in [Usages -> Nat]
      BY <2>2 DEF Reset
    <3> QED
      BY <1>1, <2>2, <3>1, ZenonT(60) DEF IInv, TypeOK, Reset
  <2> QED
    BY <1>1, <2>1, <2>2
<1>5. LockStateExact'
  <2>1. CASE UNCHANGED <<lockState, writeOwner, base, orphans>>
    BY <1>1, <1>2, <1>3, <2>1 DEF IInv, LockStateExact, lockState
  <2>2. CASE Reset
    BY <1>2, <1>3, <2>2 DEF Reset, LockStateExact, Usages
  <2> QED
    BY <1>1, <2>1, <2>2
<1>6. mapped' => base'
  <2>1. CASE UNCHANGED <<lockState, writeOwner, base, orphans>>
    BY <2>1 DEF IInv, lockState
  <2>2. CASE Reset
    BY <2>2 DEF Reset
  <2> QED
    BY <1>1, <2>1, <2>2
<1>7. MutualExclusion' /\ OrphansInv'
  BY <1>2 DEF MutualExclusion, OrphansInv
<1>8. ASSUME NEW v \in Threads PROVE LockInv(v)' /\ WriterInv(v)' /\ FlushInv(v)'
  BY <1>1, <1>2 DEF LockInv, WriterInv, FlushInv, Mapping
<1>9. DirtyInv'
  BY <1>1, <1>2 DEF IInv, DirtyInv, FlushedBeforeReuse
<1> QED
  BY <1>1, <1>2, <1>4, <1>5, <1>6, <1>7, <1>8, <1>9 DEF IInv

\* A step that changes no variable keeps the invariant.
LEMMA StutterInv ==
  ASSUME IInv, UNCHANGED vars
  PROVE  IInv'
<1>1. TypeOK' /\ Locked' = Locked
  BY DEF IInv, TypeOK, Locked, vars, handle, lockState
<1>2. LockStateExact' /\ MutualExclusion' /\ OrphansInv' /\ DirtyInv'
  BY <1>1 DEF IInv, LockStateExact, MutualExclusion, OrphansInv, DirtyInv,
     FlushedBeforeReuse, vars, handle, lockState
<1>3. ASSUME NEW v \in Threads PROVE LockInv(v)' /\ WriterInv(v)' /\ FlushInv(v)'
  BY <1>1 DEF IInv, LockInv, WriterInv, FlushInv, Mapping, vars, handle, lockState
<1> QED
  BY <1>1, <1>2, <1>3 DEF IInv, vars, handle, lockState

-----------------------------------------------------------------------------

\* Every interleaving of gralloc_lock(), gralloc_unlock(), registerBuffer and
\* unregisterBuffer keeps the inductive invariant.
THEOREM Invariance == Spec => []IInv
<1>1. IInv /\ [Next]_vars => IInv'
  <2> SUFFICES ASSUME IInv, [Next]_vars PROVE IInv'
    OBVIOUS
  <2>1. ASSUME NEW t \in Threads, NEW u \in Usages, Lock(t, u) PROVE IInv'
    BY <2>1, LockCallInv
  <2>2. ASSUME NEW t \in Threads, LockStep(t) PROVE IInv'
    BY <2>2, LockReadInv, LockExchangeInv, LockOwnerInv, MapLockInv, MapInv, MapFlagInv
    DEF LockStep
  <2>3. ASSUME NEW t \in Threads, UnlockStep(t) PROVE IInv'
    BY <2>3, UnlockFlushInv, UnlockReadInv, UnlockExchangeInv DEF UnlockStep
  <2>4. CASE RegisterBuffer \/ UnregisterBuffer
    BY <2>4, RegistrationInv
  <2>5. CASE UNCHANGED vars
    BY <2>5, StutterInv
  <2> QED
    BY <2>1, <2>2, <2>3, <2>4, <2>5 DEF Next
<1> QED
  BY InitInv, <1>1, PTL DEF Spec

\* The fields of the handle and the locals of the calls keep their types.
THEOREM TypeCorrect == Spec => []TypeOK
<1>1. IInv => TypeOK
  BY DEF IInv
<1> QED
  BY Invariance, <1>1, PTL

\* A thread that has the buffer locked for writing has it to itself, whatever
\* the number of threads: the promise of gralloc_lock().
THEOREM MutualExclusionAlways == Spec => []MutualExclusion
<1>1. IInv => MutualExclusion
  BY DEF IInv
<1> QED
  BY Invariance, <1>1, PTL

\* The count in lockState is the number of locks, and LOCK_STATE_WRITE says
\* whether there is a writer: no exchange loses or keeps one.
THEOREM LockStateExactAlways == Spec => []LockStateExact
<1>1. IInv => LockStateExact
  BY DEF IInv
<1> QED
  BY Invariance, <1>1, PTL

\* A software lock that gralloc_lock() returned without an error is one of a
\* buffer that is mapped.
THEOREM HeldIsMappedAlways == Spec => []HeldIsMapped
<1>1. IInv => HeldIsMapped
  BY DEF IInv, HeldIsMapped, LockInv, Locked
<1> QED
  BY Invariance, <1>1, PTL

\* With no buffer in pmem_adsp, what software wrote is out of the cache before
\* the buffer is anybody else's: gralloc_unlock() cleans it.
THEOREM FlushedAlways ==
  ASSUME "adsp" \notin Kinds
  PROVE  Spec => []FlushedBeforeReuse
<1>1. IInv => FlushedBeforeReuse
  BY DEF IInv, DirtyInv, FlushedBeforeReuse
<1> QED
  BY Invariance, <1>1, PTL

-----------------------------------------------------------------------------
(* FramebufferPost: fb_post() and disp_loop()                              *)

CONSTANTS PageFlips, SwapIntervals, MaxChanges, IoctlFails

VARIABLES
  pageFlip, swapInterval, changes, currentBuffer, currentIdx, is_avail, disp, locks,
  post_pc, buffer, nxtIdx, waited, dpc, nxtBuf, cur_buf, screen

Post == INSTANCE FramebufferPost WITH pc <- post_pc, Spurious <- FALSE

\* The slot that fb_post() takes next.
NextSlot == IF currentIdx = 0 THEN 1 ELSE 0

One(b) == IF b THEN 1 ELSE 0

PostTypes ==
  /\ Post!TypeOK
  /\ pageFlip \in BOOLEAN /\ changes \in Nat
  /\ buffer \in {10, 11} /\ nxtIdx \in {0, 1} /\ cur_buf \in {-1, 0, 1}
  /\ dpc \in {"show", "mark"} => nxtBuf \in [buf : {10, 11}, idx : {0, 1}]
  /\ dpc = "dequeue" => disp # <<>>

\* The slots are taken in turn; before the first post nothing is queued or taken.
PostOrder ==
  /\ post_pc # "idle" => nxtIdx = NextSlot
  /\ post_pc \in {"try", "reuse"} => swapInterval = 0
  /\ currentBuffer = -1 <=> currentIdx = -1
  /\ post_pc = "woken" => is_avail[currentIdx]
  /\ currentIdx = -1 =>
       /\ is_avail[1]
       /\ post_pc \notin {"reuse", "wait", "waiting", "woken", "unlock"}
       /\ post_pc \in {"idle", "try", "lock", "take"} => is_avail[0]
       /\ post_pc # "done" => disp = <<>> /\ dpc \in {"loop", "sleep"}

\* Frames that are posted, or about to be, and that disp_loop() has not finished.
Frames == Len(disp) + One(dpc \in {"show", "mark"}) + One(post_pc = "queue")

\* Slots that are not available.
Taken == One(~is_avail[0]) + One(~is_avail[1])

\* The next slot will be taken although it is not available: fb_post() tests it
\* only if the interval is 0, and waits for it in the post before if it is 1.
Blind ==
  \/ post_pc \in {"lock", "take"} /\ ~is_avail[nxtIdx]
  \/ post_pc = "idle" /\ swapInterval = 1 /\ ~is_avail[NextSlot]
  \/ post_pc \in {"unlock", "done"} /\ swapInterval = 1 /\ ~is_avail[1 - nxtIdx]

\* Every frame that is under way holds a slot, or was taken blindly after a
\* change of the interval.
FramesBounded == Frames + One(Blind) <= Taken + changes

\* The locks that fb_post() holds on a buffer.
PostLocked(b) ==
  IF post_pc \in {"idle", "try", "lock", "reuse"} THEN One(b = currentBuffer)
  ELSE IF post_pc = "done" THEN One(b = buffer)
  ELSE One(b = currentBuffer) + One(b = buffer)

PostLocks ==
  /\ \A b \in {10, 11} : locks[b] = PostLocked(b)
  /\ post_pc # "idle" => currentBuffer # buffer
  /\ post_pc = "idle" /\ pageFlip => currentBuffer \in {-1, buffer}
  /\ ~pageFlip => post_pc = "idle" /\ currentBuffer = -1

PostInv == PostTypes /\ PostOrder /\ FramesBounded /\ PostLocks

\* The counts are natural numbers.
LEMMA CountsAreNumbers ==
  ASSUME PostTypes
  PROVE  Frames \in Nat /\ Frames >= Len(disp) /\ Taken \in 0..2 /\ changes \in Nat
<1>1. Len(disp) \in Nat /\ changes \in Nat
  BY DEF PostTypes, Post!TypeOK
<1>2. One(dpc \in {"show", "mark"}) \in {0, 1} /\ One(post_pc = "queue") \in {0, 1}
  BY DEF One
<1>3. One(~is_avail[0]) \in {0, 1} /\ One(~is_avail[1]) \in {0, 1}
  BY DEF One
<1> QED
  BY <1>1, <1>2, <1>3 DEF Frames, Taken

\* The first element of a sequence and the rest.
LEMMA HeadAndTail ==
  ASSUME NEW S, NEW s \in Seq(S), s # <<>>
  PROVE  Head(s) \in S /\ Tail(s) \in Seq(S) /\ Len(Tail(s)) = Len(s) - 1
  OBVIOUS

\* fb_setSwapInterval() may make the next post blind, and counts.
LEMMA Post_SetSwapInterval ==
  ASSUME PostInv, NEW i \in SwapIntervals, Post!SetSwapInterval(i)
  PROVE  PostInv'
<1> USE DEF Post!Buffers, Post!NoBuffer, Post!Idx, Post!NUM_BUFFERS
<1>0. PostTypes /\ PostOrder /\ FramesBounded /\ PostLocks
  BY DEF PostInv
<1>a. /\ post_pc = "idle" /\ swapInterval' \in {0, 1} /\ changes' = changes + 1
      /\ UNCHANGED <<pageFlip, currentBuffer, currentIdx, is_avail, disp, locks,
                     post_pc, buffer, nxtIdx, dpc, nxtBuf, cur_buf>>
  BY <1>0 DEF Post!SetSwapInterval, Post!shared, Post!poster, Post!display, PostTypes,
     Post!TypeOK, PostOrder
<1>1. PostTypes'
  BY <1>0, <1>a DEF PostTypes, Post!TypeOK, PostOrder
<1>2. PostOrder'
  BY <1>0, <1>a DEF PostTypes, Post!TypeOK, PostOrder, NextSlot
<1>3. FramesBounded'
  <2>0. Frames \in Nat /\ Frames >= Len(disp) /\ Taken \in 0..2 /\ changes \in Nat
    BY <1>0, CountsAreNumbers
  <2>1. Frames' = Frames
    BY <1>0, <1>a DEF PostTypes, Post!TypeOK, Frames, One
  <2>2. Taken' = Taken
    BY <1>0, <1>a DEF PostTypes, Post!TypeOK, Taken, One
  <2>3. changes' = changes + 1
    BY <1>0, <1>a DEF PostTypes, Post!TypeOK, PostOrder, Blind, NextSlot
  <2> QED
    BY <1>0, <1>a, <2>0, <2>1, <2>2, <2>3 DEF FramesBounded, One
<1>4. PostLocks'
  BY <1>0, <1>a DEF PostTypes, Post!TypeOK, PostOrder, PostLocks, PostLocked, One
<1> QED
  BY <1>1, <1>2, <1>3, <1>4 DEF PostInv

\* A post begins.
LEMMA Post_Post ==
  ASSUME PostInv, Post!Post
  PROVE  PostInv'
<1> USE DEF Post!Buffers, Post!NoBuffer, Post!Idx, Post!NUM_BUFFERS
<1>0. PostTypes /\ PostOrder /\ FramesBounded /\ PostLocks
  BY DEF PostInv
<1>a. /\ pageFlip /\ post_pc = "idle" /\ buffer' = (IF buffer = 10 THEN 11 ELSE 10)
      /\ nxtIdx' = NextSlot
      /\ post_pc' = IF swapInterval = 0 THEN "try" ELSE "lock"
      /\ UNCHANGED <<pageFlip, swapInterval, changes, currentBuffer, currentIdx,
                     is_avail, disp, locks, dpc, nxtBuf, cur_buf>>
  <2>1. 0 % 2 = 0 /\ 1 % 2 = 1 /\ 2 % 2 = 0
    OBVIOUS
  <2>2. (currentIdx + 1) % 2 = NextSlot
    BY <1>0, <2>1 DEF PostTypes, Post!TypeOK, NextSlot
  <2> QED
    BY <2>2 DEF Post!Post, Post!OtherBuffer, Post!shared, Post!display
<1>1. PostTypes'
  <2>1. buffer' \in {10, 11} /\ nxtIdx' \in {0, 1}
    BY <1>0, <1>a DEF PostTypes, NextSlot
  <2> QED
    BY <1>0, <1>a, <2>1 DEF PostTypes, Post!TypeOK
<1>2. PostOrder'
  BY <1>0, <1>a DEF PostTypes, Post!TypeOK, PostOrder, NextSlot
<1>3. FramesBounded'
  BY <1>0, <1>a DEF PostTypes, Post!TypeOK, PostOrder, FramesBounded, Frames, Taken,
     Blind, One, NextSlot
<1>4. PostLocks'
  BY <1>0, <1>a DEF PostTypes, Post!TypeOK, PostOrder, PostLocks, PostLocked, One
<1> QED
  BY <1>1, <1>2, <1>3, <1>4 DEF PostInv

\* With an interval of 0 it goes on only with a slot that is available.
LEMMA Post_TryAvail ==
  ASSUME PostInv, Post!TryAvail
  PROVE  PostInv'
<1> USE DEF Post!Buffers, Post!NoBuffer, Post!Idx, Post!NUM_BUFFERS
<1>0. PostTypes /\ PostOrder /\ FramesBounded /\ PostLocks
  BY DEF PostInv
<1>a. /\ post_pc = "try" /\ swapInterval = 0
      /\ \/ post_pc' = "lock" /\ is_avail[nxtIdx]
         \/ post_pc' = "reuse" /\ currentIdx # -1
      /\ UNCHANGED <<pageFlip, swapInterval, changes, currentBuffer, currentIdx,
                     is_avail, disp, locks, buffer, nxtIdx, dpc, nxtBuf, cur_buf>>
  <2>1. Post!TryLockFails => dpc = "mark"
    BY DEF Post!TryLockFails
  <2>2. post_pc = "try" /\ swapInterval = 0 /\ nxtIdx = NextSlot
    BY <1>0 DEF Post!TryAvail, PostOrder
  <2>3. currentIdx = -1 => is_avail[nxtIdx] /\ dpc # "mark"
    BY <1>0, <2>2 DEF PostOrder, NextSlot
  <2>4. \/ Post!TryLockFails /\ post_pc' = "reuse"
        \/ post_pc' = IF is_avail[nxtIdx] THEN "lock" ELSE "reuse"
    BY DEF Post!TryAvail
  <2>5. \/ post_pc' = "lock" /\ is_avail[nxtIdx]
        \/ post_pc' = "reuse" /\ currentIdx # -1
    BY <2>1, <2>3, <2>4
  <2>6. UNCHANGED <<Post!shared, buffer, nxtIdx, Post!display>>
    BY DEF Post!TryAvail
  <2> QED
    BY <2>2, <2>5, <2>6 DEF Post!shared, Post!display
<1>1. PostTypes'
  BY <1>0, <1>a DEF PostTypes, Post!TypeOK, PostOrder
<1>2. PostOrder'
  BY <1>0, <1>a DEF PostTypes, Post!TypeOK, PostOrder, NextSlot
<1>3. FramesBounded'
  BY <1>0, <1>a DEF PostTypes, Post!TypeOK, PostOrder, FramesBounded, Frames, Taken,
     Blind, One, NextSlot
<1>4. PostLocks'
  BY <1>0, <1>a DEF PostTypes, Post!TypeOK, PostOrder, PostLocks, PostLocked, One
<1> QED
  BY <1>1, <1>2, <1>3, <1>4 DEF PostInv

\* The buffer is locked for the post.
LEMMA Post_LockBuffer ==
  ASSUME PostInv, Post!LockBuffer
  PROVE  PostInv'
<1> USE DEF Post!Buffers, Post!NoBuffer, Post!Idx, Post!NUM_BUFFERS
<1>0. PostTypes /\ PostOrder /\ FramesBounded /\ PostLocks
  BY DEF PostInv
<1>a. /\ post_pc = "lock" /\ post_pc' = "take"
      /\ locks' = [locks EXCEPT ![buffer] = locks[buffer] + 1]
      /\ UNCHANGED <<pageFlip, swapInterval, changes, currentBuffer, currentIdx,
                     is_avail, disp, buffer, nxtIdx, dpc, nxtBuf, cur_buf>>
  BY <1>0 DEF Post!LockBuffer, Post!shared, Post!poster, Post!display, PostTypes,
     Post!TypeOK, PostOrder
<1>1. PostTypes'
  BY <1>0, <1>a DEF PostTypes, Post!TypeOK, PostOrder
<1>2. PostOrder'
  BY <1>0, <1>a DEF PostTypes, Post!TypeOK, PostOrder, NextSlot
<1>3. FramesBounded'
  BY <1>0, <1>a DEF PostTypes, Post!TypeOK, PostOrder, FramesBounded, Frames, Taken,
     Blind, One, NextSlot
<1>4. PostLocks'
  BY <1>0, <1>a DEF PostTypes, Post!TypeOK, PostOrder, PostLocks, PostLocked, One
<1> QED
  BY <1>1, <1>2, <1>3, <1>4 DEF PostInv

\* The slot is taken, blindly or not.
LEMMA Post_TakeAvail ==
  ASSUME PostInv, Post!TakeAvail
  PROVE  PostInv'
<1> USE DEF Post!Buffers, Post!NoBuffer, Post!Idx, Post!NUM_BUFFERS
<1>0. PostTypes /\ PostOrder /\ FramesBounded /\ PostLocks
  BY DEF PostInv
<1>a. /\ post_pc = "take" /\ post_pc' = "queue"
      /\ is_avail' = [is_avail EXCEPT ![nxtIdx] = FALSE]
      /\ UNCHANGED <<pageFlip, swapInterval, changes, currentBuffer, currentIdx, disp,
                     locks, buffer, nxtIdx, dpc, nxtBuf, cur_buf>>
  BY <1>0 DEF Post!TakeAvail, Post!shared, Post!poster, Post!display, PostTypes,
     Post!TypeOK, PostOrder
<1>1. PostTypes'
  BY <1>0, <1>a DEF PostTypes, Post!TypeOK, PostOrder
<1>2. PostOrder'
  BY <1>0, <1>a DEF PostTypes, Post!TypeOK, PostOrder, NextSlot
<1>3. FramesBounded'
  <2>0. Frames \in Nat /\ Frames >= Len(disp) /\ Taken \in 0..2 /\ changes \in Nat
    BY <1>0, CountsAreNumbers
  <2>1. Frames' = Frames + 1
    BY <1>0, <1>a DEF PostTypes, Post!TypeOK, Frames, One
  <2>2. Taken' = Taken + (IF is_avail[nxtIdx] THEN 1 ELSE 0)
    BY <1>0, <1>a DEF PostTypes, Post!TypeOK, Taken, One
  <2>3. ~Blind' /\ (~is_avail[nxtIdx] => Blind)
    BY <1>0, <1>a DEF PostTypes, Post!TypeOK, PostOrder, Blind, NextSlot
  <2>4. One(Blind') = 0 /\ One(Blind) >= 0 /\ One(Blind) \in Int
    BY <2>3 DEF One
  <2>5. ~is_avail[nxtIdx] => One(Blind) = 1
    BY <2>3 DEF One
  <2> QED
    BY <1>0, <1>a, <2>0, <2>1, <2>2, <2>4, <2>5 DEF FramesBounded
<1>4. PostLocks'
  BY <1>0, <1>a DEF PostTypes, Post!TypeOK, PostOrder, PostLocks, PostLocked, One
<1> QED
  BY <1>1, <1>2, <1>3, <1>4 DEF PostInv

\* The frame is queued, and disp_loop() woken up.
LEMMA Post_QueueBuffer ==
  ASSUME PostInv, Post!QueueBuffer
  PROVE  PostInv'
<1> USE DEF Post!Buffers, Post!NoBuffer, Post!Idx, Post!NUM_BUFFERS
<1>0. PostTypes /\ PostOrder /\ FramesBounded /\ PostLocks
  BY DEF PostInv
<1>a. /\ post_pc = "queue" /\ disp' = Append(disp, [buf |-> buffer, idx |-> nxtIdx])
      /\ dpc' = IF dpc = "sleep" THEN "dequeue" ELSE dpc
      /\ post_pc' = IF currentBuffer = -1 THEN "done"
                   ELSE IF swapInterval # 0 THEN "wait" ELSE "unlock"
      /\ Len(disp') = Len(disp) + 1 /\ disp' # <<>>
      /\ UNCHANGED <<pageFlip, swapInterval, changes, currentBuffer, currentIdx,
                     is_avail, locks, buffer, nxtIdx, nxtBuf, cur_buf>>
  BY <1>0 DEF Post!QueueBuffer, Post!shared, Post!poster, Post!display, PostTypes,
     Post!TypeOK, PostOrder
<1>1. PostTypes'
  BY <1>0, <1>a DEF PostTypes, Post!TypeOK, PostOrder
<1>2. PostOrder'
  BY <1>0, <1>a DEF PostTypes, Post!TypeOK, PostOrder, NextSlot
<1>3. FramesBounded'
  BY <1>0, <1>a DEF PostTypes, Post!TypeOK, PostOrder, FramesBounded, Frames, Taken,
     Blind, One, NextSlot
<1>4. PostLocks'
  BY <1>0, <1>a DEF PostTypes, Post!TypeOK, PostOrder, PostLocks, PostLocked, One
<1> QED
  BY <1>1, <1>2, <1>3, <1>4 DEF PostInv

\* The post waits for the slot that the next one takes.
LEMMA Post_WaitAvail ==
  ASSUME PostInv, Post!WaitAvail
  PROVE  PostInv'
<1> USE DEF Post!Buffers, Post!NoBuffer, Post!Idx, Post!NUM_BUFFERS
<1>0. PostTypes /\ PostOrder /\ FramesBounded /\ PostLocks
  BY DEF PostInv
<1>a. /\ post_pc = "wait" /\ currentIdx # -1
      /\ post_pc' = IF is_avail[currentIdx] THEN "unlock" ELSE "waiting"
      /\ UNCHANGED <<pageFlip, swapInterval, changes, currentBuffer, currentIdx,
                     is_avail, disp, locks, buffer, nxtIdx, dpc, nxtBuf, cur_buf>>
  BY <1>0 DEF Post!WaitAvail, Post!shared, Post!poster, Post!display, PostTypes,
     Post!TypeOK, PostOrder
<1>1. PostTypes'
  BY <1>0, <1>a DEF PostTypes, Post!TypeOK, PostOrder
<1>2. PostOrder'
  BY <1>0, <1>a DEF PostTypes, Post!TypeOK, PostOrder, NextSlot
<1>3. FramesBounded'
  <2>0. Frames \in Nat /\ Frames >= Len(disp) /\ Taken \in 0..2 /\ changes \in Nat
    BY <1>0, CountsAreNumbers
  <2>1. Frames' = Frames
    BY <1>0, <1>a DEF PostTypes, Post!TypeOK, Frames, One
  <2>2. Taken' = Taken
    BY <1>0, <1>a DEF PostTypes, Post!TypeOK, Taken, One
  <2>3. ~Blind'
    BY <1>0, <1>a DEF PostTypes, Post!TypeOK, PostOrder, Blind, NextSlot
  <2> QED
    BY <1>0, <1>a, <2>0, <2>1, <2>2, <2>3 DEF FramesBounded, One
<1>4. PostLocks'
  BY <1>0, <1>a DEF PostTypes, Post!TypeOK, PostOrder, PostLocks, PostLocked, One
<1> QED
  BY <1>1, <1>2, <1>3, <1>4 DEF PostInv

\* It is woken up when the slot is available.
LEMMA Post_Woken ==
  ASSUME PostInv, Post!Woken
  PROVE  PostInv'
<1> USE DEF Post!Buffers, Post!NoBuffer, Post!Idx, Post!NUM_BUFFERS
<1>0. PostTypes /\ PostOrder /\ FramesBounded /\ PostLocks
  BY DEF PostInv
<1>a. /\ post_pc = "woken" /\ currentIdx # -1 /\ is_avail[currentIdx] /\ post_pc' = "unlock"
      /\ is_avail' = [is_avail EXCEPT ![currentIdx] = TRUE]
      /\ UNCHANGED <<pageFlip, swapInterval, changes, currentBuffer, currentIdx, disp,
                     locks, buffer, nxtIdx, dpc, nxtBuf, cur_buf>>
  BY <1>0 DEF Post!Woken, Post!shared, Post!poster, Post!display, PostTypes,
     Post!TypeOK, PostOrder
<1>1. PostTypes'
  BY <1>0, <1>a DEF PostTypes, Post!TypeOK, PostOrder
<1>2. PostOrder'
  BY <1>0, <1>a DEF PostTypes, Post!TypeOK, PostOrder, NextSlot
<1>3. FramesBounded'
  <2>0. Frames \in Nat /\ Frames >= Len(disp) /\ Taken \in 0..2 /\ changes \in Nat
    BY <1>0, CountsAreNumbers
  <2>1. Frames' = Frames
    BY <1>0, <1>a DEF PostTypes, Post!TypeOK, Frames, One
  <2>2. Taken' = Taken
    BY <1>0, <1>a DEF PostTypes, Post!TypeOK, Taken, One
  <2>3. ~Blind'
    BY <1>0, <1>a DEF PostTypes, Post!TypeOK, PostOrder, Blind, NextSlot
  <2> QED
    BY <1>0, <1>a, <2>0, <2>1, <2>2, <2>3 DEF FramesBounded, One
<1>4. PostLocks'
  BY <1>0, <1>a DEF PostTypes, Post!TypeOK, PostOrder, PostLocks, PostLocked, One
<1> QED
  BY <1>1, <1>2, <1>3, <1>4 DEF PostInv

\* The buffer before is unlocked.
LEMMA Post_UnlockCurrent ==
  ASSUME PostInv, Post!UnlockCurrent
  PROVE  PostInv'
<1> USE DEF Post!Buffers, Post!NoBuffer, Post!Idx, Post!NUM_BUFFERS
<1>0. PostTypes /\ PostOrder /\ FramesBounded /\ PostLocks
  BY DEF PostInv
<1>a. /\ post_pc = "unlock" /\ post_pc' = "done" /\ currentBuffer \in {10, 11}
      /\ locks' = [locks EXCEPT ![currentBuffer] = locks[currentBuffer] - 1]
      /\ UNCHANGED <<pageFlip, swapInterval, changes, currentBuffer, currentIdx,
                     is_avail, disp, buffer, nxtIdx, dpc, nxtBuf, cur_buf>>
  BY <1>0 DEF Post!UnlockCurrent, Post!shared, Post!poster, Post!display, PostTypes,
     Post!TypeOK, PostOrder
<1>1. PostTypes'
  <2>1. locks[currentBuffer] - 1 \in Nat
    BY <1>0, <1>a DEF PostTypes, Post!TypeOK, PostOrder, PostLocks, PostLocked, One
  <2> QED
    BY <1>0, <1>a, <2>1 DEF PostTypes, Post!TypeOK
<1>2. PostOrder'
  BY <1>0, <1>a DEF PostTypes, Post!TypeOK, PostOrder, NextSlot
<1>3. FramesBounded'
  BY <1>0, <1>a DEF PostTypes, Post!TypeOK, PostOrder, FramesBounded, Frames, Taken,
     Blind, One, NextSlot
<1>4. PostLocks'
  BY <1>0, <1>a DEF PostTypes, Post!TypeOK, PostOrder, PostLocks, PostLocked, One
<1> QED
  BY <1>1, <1>2, <1>3, <1>4 DEF PostInv

\* The post ends.
LEMMA Post_Done ==
  ASSUME PostInv, Post!Done
  PROVE  PostInv'
<1> USE DEF Post!Buffers, Post!NoBuffer, Post!Idx, Post!NUM_BUFFERS
<1>0. PostTypes /\ PostOrder /\ FramesBounded /\ PostLocks
  BY DEF PostInv
<1>a. /\ post_pc = "done" /\ post_pc' = "idle" /\ currentBuffer' = buffer /\ currentIdx' = nxtIdx
      /\ UNCHANGED <<pageFlip, swapInterval, changes, is_avail, disp, locks, buffer,
                     nxtIdx, dpc, nxtBuf, cur_buf>>
  BY <1>0 DEF Post!Done, Post!shared, Post!poster, Post!display, PostTypes,
     Post!TypeOK, PostOrder
<1>1. PostTypes'
  BY <1>0, <1>a DEF PostTypes, Post!TypeOK, PostOrder
<1>2. PostOrder'
  BY <1>0, <1>a DEF PostTypes, Post!TypeOK, PostOrder, NextSlot
<1>3. FramesBounded'
  <2>0. Frames \in Nat /\ Frames >= Len(disp) /\ Taken \in 0..2 /\ changes \in Nat
    BY <1>0, CountsAreNumbers
  <2>1. Frames' = Frames
    BY <1>0, <1>a DEF PostTypes, Post!TypeOK, Frames, One
  <2>2. Taken' = Taken
    BY <1>0, <1>a DEF PostTypes, Post!TypeOK, Taken, One
  <2>3. Blind' => Blind
    BY <1>0, <1>a DEF PostTypes, Post!TypeOK, PostOrder, Blind, NextSlot
  <2> QED
    BY <1>0, <1>a, <2>0, <2>1, <2>2, <2>3 DEF FramesBounded, One
<1>4. PostLocks'
  BY <1>0, <1>a DEF PostTypes, Post!TypeOK, PostOrder, PostLocks, PostLocked, One
<1> QED
  BY <1>1, <1>2, <1>3, <1>4 DEF PostInv

\* The buffer is not posted and takes over the lock.
LEMMA Post_Reuse ==
  ASSUME PostInv, Post!Reuse
  PROVE  PostInv'
<1> USE DEF Post!Buffers, Post!NoBuffer, Post!Idx, Post!NUM_BUFFERS
<1>0. PostTypes /\ PostOrder /\ FramesBounded /\ PostLocks
  BY DEF PostInv
<1>a. /\ post_pc = "reuse" /\ swapInterval = 0 /\ currentIdx # -1
      /\ post_pc' = "idle" /\ currentBuffer' = buffer
      /\ locks' = [b \in {10, 11} |-> locks[b] + (IF b = buffer THEN 1 ELSE 0)
                                             - (IF b = currentBuffer THEN 1 ELSE 0)]
      /\ UNCHANGED <<pageFlip, swapInterval, changes, currentIdx, is_avail, disp,
                     buffer, nxtIdx, dpc, nxtBuf, cur_buf>>
  BY <1>0 DEF Post!Reuse, Post!shared, Post!poster, Post!display, PostTypes,
     Post!TypeOK, PostOrder
<1>1. PostTypes'
  <2>1. \A b \in {10, 11} : locks'[b] \in Nat
    BY <1>0, <1>a DEF PostTypes, Post!TypeOK, PostOrder, PostLocks, PostLocked, One
  <2> QED
    BY <1>0, <1>a, <2>1 DEF PostTypes, Post!TypeOK
<1>2. PostOrder'
  BY <1>0, <1>a DEF PostTypes, Post!TypeOK, PostOrder, NextSlot
<1>3. FramesBounded'
  BY <1>0, <1>a DEF PostTypes, Post!TypeOK, PostOrder, FramesBounded, Frames, Taken,
     Blind, One, NextSlot
<1>4. PostLocks'
  BY <1>0, <1>a DEF PostTypes, Post!TypeOK, PostOrder, PostLocks, PostLocked, One
<1> QED
  BY <1>1, <1>2, <1>3, <1>4 DEF PostInv

\* A regular buffer is copied.
LEMMA Post_PostCopy ==
  ASSUME PostInv, Post!PostCopy
  PROVE  PostInv'
<1> USE DEF Post!Buffers, Post!NoBuffer, Post!Idx, Post!NUM_BUFFERS
<1>0. PostTypes /\ PostOrder /\ FramesBounded /\ PostLocks
  BY DEF PostInv
<1>a. /\ ~pageFlip /\ post_pc = "idle" /\ buffer' = (IF buffer = 10 THEN 11 ELSE 10)
      /\ UNCHANGED <<pageFlip, swapInterval, changes, currentBuffer, currentIdx,
                     is_avail, disp, locks, post_pc, nxtIdx, dpc, nxtBuf, cur_buf>>
  BY <1>0 DEF Post!PostCopy, Post!OtherBuffer, Post!shared
<1>1. PostTypes'
  BY <1>0, <1>a DEF PostTypes, Post!TypeOK, PostOrder
<1>2. PostOrder'
  BY <1>0, <1>a DEF PostTypes, Post!TypeOK, PostOrder, NextSlot
<1>3. FramesBounded'
  BY <1>0, <1>a DEF PostTypes, Post!TypeOK, PostOrder, FramesBounded, Frames, Taken,
     Blind, One, NextSlot
<1>4. PostLocks'
  BY <1>0, <1>a DEF PostTypes, Post!TypeOK, PostOrder, PostLocks, PostLocked, One
<1> QED
  BY <1>1, <1>2, <1>3, <1>4 DEF PostInv

\* disp_loop() sleeps only if the queue is empty.
LEMMA Post_LoopHead ==
  ASSUME PostInv, Post!LoopHead
  PROVE  PostInv'
<1> USE DEF Post!Buffers, Post!NoBuffer, Post!Idx, Post!NUM_BUFFERS
<1>0. PostTypes /\ PostOrder /\ FramesBounded /\ PostLocks
  BY DEF PostInv
<1>a. /\ dpc = "loop" /\ dpc' = IF disp = <<>> THEN "sleep" ELSE "dequeue"
      /\ UNCHANGED <<pageFlip, swapInterval, changes, currentBuffer, currentIdx,
                     is_avail, disp, locks, post_pc, buffer, nxtIdx, nxtBuf, cur_buf>>
  BY <1>0 DEF Post!LoopHead, Post!shared, Post!poster, Post!display, PostTypes,
     Post!TypeOK, PostOrder
<1>1. PostTypes'
  BY <1>0, <1>a DEF PostTypes, Post!TypeOK, PostOrder
<1>2. PostOrder'
  BY <1>0, <1>a DEF PostTypes, Post!TypeOK, PostOrder, NextSlot
<1>3. FramesBounded'
  BY <1>0, <1>a DEF PostTypes, Post!TypeOK, PostOrder, FramesBounded, Frames, Taken,
     Blind, One, NextSlot
<1>4. PostLocks'
  BY <1>0, <1>a DEF PostTypes, Post!TypeOK, PostOrder, PostLocks, PostLocked, One
<1> QED
  BY <1>1, <1>2, <1>3, <1>4 DEF PostInv

\* A frame is taken off the queue.
LEMMA Post_Dequeue ==
  ASSUME PostInv, Post!Dequeue
  PROVE  PostInv'
<1> USE DEF Post!Buffers, Post!NoBuffer, Post!Idx, Post!NUM_BUFFERS
<1>0. PostTypes /\ PostOrder /\ FramesBounded /\ PostLocks
  BY DEF PostInv
<1>a. /\ dpc = "dequeue" /\ dpc' = "show" /\ disp # <<>>
      /\ nxtBuf' = Head(disp) /\ disp' = Tail(disp)
      /\ Head(disp) \in [buf : {10, 11}, idx : {0, 1}]
      /\ Tail(disp) \in Seq([buf : {10, 11}, idx : {0, 1}]) /\ Len(Tail(disp)) = Len(disp) - 1
      /\ UNCHANGED <<pageFlip, swapInterval, changes, currentBuffer, currentIdx,
                     is_avail, locks, post_pc, buffer, nxtIdx, cur_buf>>
  <2>1. dpc = "dequeue" /\ disp # <<>> /\ disp \in Seq([buf : {10, 11}, idx : {0, 1}])
    BY <1>0 DEF Post!Dequeue, PostTypes, Post!TypeOK
  <2>2. /\ Head(disp) \in [buf : {10, 11}, idx : {0, 1}]
        /\ Tail(disp) \in Seq([buf : {10, 11}, idx : {0, 1}])
        /\ Len(Tail(disp)) = Len(disp) - 1
    BY <2>1, HeadAndTail
  <2> QED
    BY <2>1, <2>2 DEF Post!Dequeue, Post!poster
<1>1. PostTypes'
  BY <1>0, <1>a DEF PostTypes, Post!TypeOK, PostOrder
<1>2. PostOrder'
  BY <1>0, <1>a DEF PostTypes, Post!TypeOK, PostOrder, NextSlot
<1>3. FramesBounded'
  <2>0. Frames \in Nat /\ Frames >= Len(disp) /\ Taken \in 0..2 /\ changes \in Nat
    BY <1>0, CountsAreNumbers
  <2>1. Frames' = Frames
    BY <1>0, <1>a DEF PostTypes, Post!TypeOK, Frames, One
  <2>2. Taken' = Taken
    BY <1>0, <1>a DEF PostTypes, Post!TypeOK, Taken, One
  <2>3. Blind' => Blind
    BY <1>0, <1>a DEF PostTypes, Post!TypeOK, PostOrder, Blind, NextSlot
  <2> QED
    BY <1>0, <1>a, <2>0, <2>1, <2>2, <2>3 DEF FramesBounded, One
<1>4. PostLocks'
  BY <1>0, <1>a DEF PostTypes, Post!TypeOK, PostOrder, PostLocks, PostLocked, One
<1> QED
  BY <1>1, <1>2, <1>3, <1>4 DEF PostInv

\* It is put on the display.
LEMMA Post_Show ==
  ASSUME PostInv, Post!Show
  PROVE  PostInv'
<1> USE DEF Post!Buffers, Post!NoBuffer, Post!Idx, Post!NUM_BUFFERS
<1>0. PostTypes /\ PostOrder /\ FramesBounded /\ PostLocks
  BY DEF PostInv
<1>a. /\ dpc = "show" /\ dpc' = "mark"
      /\ UNCHANGED <<pageFlip, swapInterval, changes, currentBuffer, currentIdx,
                     is_avail, disp, locks, post_pc, buffer, nxtIdx, nxtBuf, cur_buf>>
  BY <1>0 DEF Post!Show, Post!shared, Post!poster, Post!display, PostTypes,
     Post!TypeOK, PostOrder
<1>1. PostTypes'
  BY <1>0, <1>a DEF PostTypes, Post!TypeOK, PostOrder
<1>2. PostOrder'
  BY <1>0, <1>a DEF PostTypes, Post!TypeOK, PostOrder, NextSlot
<1>3. FramesBounded'
  BY <1>0, <1>a DEF PostTypes, Post!TypeOK, PostOrder, FramesBounded, Frames, Taken,
     Blind, One, NextSlot
<1>4. PostLocks'
  BY <1>0, <1>a DEF PostTypes, Post!TypeOK, PostOrder, PostLocks, PostLocked, One
<1> QED
  BY <1>1, <1>2, <1>3, <1>4 DEF PostInv

\* The frame is done and a slot available, also if it was already.
LEMMA Post_MarkAvail ==
  ASSUME PostInv, Post!MarkAvail
  PROVE  PostInv'
<1> USE DEF Post!Buffers, Post!NoBuffer, Post!Idx, Post!NUM_BUFFERS
<1>0. PostTypes /\ PostOrder /\ FramesBounded /\ PostLocks
  BY DEF PostInv
<1>a. /\ dpc = "mark" /\ dpc' = "loop" /\ cur_buf' = nxtBuf.idx /\ nxtBuf.idx \in {0, 1}
      /\ \E i \in {0, 1} : /\ is_avail' = [is_avail EXCEPT ![i] = TRUE]
                           /\ post_pc' = IF post_pc = "waiting" /\ currentIdx = i THEN "woken"
                                        ELSE post_pc
      /\ UNCHANGED <<pageFlip, swapInterval, changes, currentBuffer, currentIdx, disp,
                     locks, buffer, nxtIdx, nxtBuf>>
  BY <1>0 DEF Post!MarkAvail, Post!shared, Post!poster, Post!display, PostTypes,
     Post!TypeOK, PostOrder
<1>1. PostTypes'
  BY <1>0, <1>a DEF PostTypes, Post!TypeOK, PostOrder
<1>2. PostOrder'
  BY <1>0, <1>a DEF PostTypes, Post!TypeOK, PostOrder, NextSlot
<1>3. FramesBounded'
  <2>0. Frames \in Nat /\ Frames >= Len(disp) /\ Taken \in 0..2 /\ changes \in Nat
    BY <1>0, CountsAreNumbers
  <2>1. Frames' = Frames - 1 /\ Frames' \in Int
    BY <1>0, <1>a DEF PostTypes, Post!TypeOK, Frames, One
  <2>2. Taken' >= Taken - 1 /\ Taken' \in Nat
    BY <1>0, <1>a DEF PostTypes, Post!TypeOK, Taken, One
  <2>3. Blind' => Blind
    BY <1>0, <1>a DEF PostTypes, Post!TypeOK, PostOrder, Blind, NextSlot
  <2>4. One(Blind') <= One(Blind) /\ One(Blind') \in Int /\ One(Blind) \in Int
    BY <2>3 DEF One
  <2> QED
    BY <1>0, <1>a, <2>0, <2>1, <2>2, <2>4 DEF FramesBounded
<1>4. PostLocks'
  BY <1>0, <1>a DEF PostTypes, Post!TypeOK, PostOrder, PostLocks, PostLocked, One
<1> QED
  BY <1>1, <1>2, <1>3, <1>4 DEF PostInv

\* Initially nothing is posted.
LEMMA PostInit == Post!Init /\ PageFlips \subseteq BOOLEAN => PostInv
<1> SUFFICES ASSUME Post!Init, PageFlips \subseteq BOOLEAN PROVE PostInv
  OBVIOUS
<1> USE DEF Post!Buffers, Post!NoBuffer, Post!Idx, Post!NUM_BUFFERS
<1>1. PostTypes
  BY DEF Post!Init, PostTypes, Post!TypeOK
<1>2. PostOrder
  BY DEF Post!Init, PostOrder
<1>3. FramesBounded
  BY DEF Post!Init, FramesBounded, Frames, Taken, Blind, One, NextSlot
<1>4. PostLocks
  BY DEF Post!Init, PostLocks, PostLocked, One
<1> QED
  BY <1>1, <1>2, <1>3, <1>4 DEF PostInv

\* Every step keeps the invariant.
LEMMA PostNext ==
  ASSUME PostInv, [Post!Next]_(Post!vars)
  PROVE  PostInv'
<1>1. CASE UNCHANGED Post!vars
  <2>1. UNCHANGED <<pageFlip, swapInterval, changes, currentBuffer, currentIdx,
                    is_avail,
                    disp, locks, post_pc, buffer, nxtIdx, dpc, nxtBuf, cur_buf>>
    BY <1>1 DEF Post!vars, Post!shared, Post!poster, Post!display
  <2>2. PostTypes' /\ PostOrder'
    BY <2>1 DEF PostInv, PostTypes, Post!TypeOK, PostOrder, NextSlot
  <2>3. Frames' = Frames /\ Taken' = Taken /\ Blind' = Blind
    BY <2>1 DEF Frames, Taken, Blind, NextSlot
  <2>4. FramesBounded'
    BY <2>1, <2>3 DEF PostInv, FramesBounded
  <2>5. PostLocks'
    BY <2>1 DEF PostInv, PostLocks, PostLocked
  <2> QED
    BY <2>2, <2>4, <2>5 DEF PostInv
<1>2. ASSUME NEW i \in SwapIntervals, Post!SetSwapInterval(i) PROVE PostInv'
  BY <1>2, Post_SetSwapInterval
<1>3. CASE Post!FbPost
  BY <1>3, Post_TryAvail, Post_LockBuffer, Post_TakeAvail, Post_QueueBuffer,
     Post_WaitAvail,
     Post_Woken, Post_UnlockCurrent, Post_Done, Post_Reuse DEF Post!FbPost
<1>4. CASE Post!DispLoop
  BY <1>4, Post_LoopHead, Post_Dequeue, Post_Show, Post_MarkAvail DEF Post!DispLoop
<1> QED
  BY <1>1, <1>2, <1>3, <1>4, Post_Post, Post_PostCopy DEF Post!Next

\* fb_post() never runs further ahead of disp_loop() than the slots allow and one frame
\* more for every change of the interval, however often it changes; and between posts
\* exactly the current buffer is locked.  A wait that returns without a signal is left
\* out.
THEOREM PostsAlwaysInOrder ==
  ASSUME PageFlips \subseteq BOOLEAN
  PROVE  Post!Spec => [](Post!TypeOK /\ Post!QueueBounded /\ Post!OnlyCurrentLocked)
<1>1. PostInv => Post!TypeOK /\ Post!QueueBounded /\ Post!OnlyCurrentLocked
  <2> SUFFICES ASSUME PostInv
               PROVE  Post!TypeOK /\ Post!QueueBounded /\ Post!OnlyCurrentLocked
    OBVIOUS
  <2>1. Post!TypeOK /\ changes \in Nat /\ Len(disp) \in Nat
    BY DEF PostInv, PostTypes, Post!TypeOK
  <2>2. Post!QueueBounded
    <3>1. Frames >= Len(disp) /\ Frames \in Nat /\ Taken \in 0..2
      BY CountsAreNumbers DEF PostInv
    <3> QED
      BY <2>1, <3>1 DEF PostInv, FramesBounded, One, Post!QueueBounded, Post!NUM_BUFFERS
  <2>3. Post!OnlyCurrentLocked
    BY DEF PostInv, PostLocks, PostLocked, One, Post!OnlyCurrentLocked, Post!Buffers
  <2> QED
    BY <2>1, <2>2, <2>3
<1>2. PostInv /\ [Post!Next]_(Post!vars) => PostInv'
  BY PostNext
<1> QED
  BY PostInit, <1>1, <1>2, PTL DEF Post!Spec
=============================================================================

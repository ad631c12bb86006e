----------------------------- MODULE BufferLock -----------------------------
(***************************************************************************)
(* libgralloc/mapper.cpp: threads of one process lock and unlock a buffer  *)
(* through its handle.  lockState is read and exchanged as the code does   *)
(* it, so that threads interleave between the read, the compare-and-swap,  *)
(* the store of writeOwner and the mapping of the buffer.                  *)
(*                                                                         *)
(* A thread unlocks what it has locked; it takes a call that returned an   *)
(* error as not having locked anything.                                    *)
(***************************************************************************)
EXTENDS Integers, FiniteSets

CONSTANTS
  Threads,
  NoThread,   \* writeOwner of a buffer that nobody has locked for writing
  Kinds,      \* kinds of buffers: subset of {"pmem", "ashmem", "adsp", "fb"}
  MaxOrphans  \* bound on the locks that a failed mmap() leaves behind

ASSUME ThreadsAreFinite ==
  /\ IsFiniteSet(Threads)
  /\ NoThread \notin Threads
  /\ MaxOrphans \in Nat

ASSUME KindsOfMemory == Kinds \subseteq {"pmem", "ashmem", "adsp", "fb"}

VARIABLES
  kind, own,      \* kind of memory; created in this process: pid = getpid()
  registered,     \* between registerBuffer and unregisterBuffer
  write, mapped, count,  \* the three fields of lockState
  writeOwner,
  base,           \* hnd->base is an address
  needsFlush,     \* PRIV_FLAGS_NEEDS_FLUSH
  dirty,          \* software has written through the cache since the last clean
  mapLock,        \* holder of sMapLock
  pc,             \* where each thread is
  usage,          \* usage of its lock
  snap,           \* its current_value
  drop,           \* its new_value clears LOCK_STATE_WRITE
  orphans         \* locks whose caller was told they failed, by usage

handle == <<kind, own, registered>>
lockState == <<write, mapped, count>>
vars == <<handle, lockState, writeOwner, base, needsFlush, dirty, mapLock,
          pc, usage, snap, drop, orphans>>

-----------------------------------------------------------------------------

Usages == {"sw_read", "sw_write", "hw_texture", "hw_render"}

Writes(u) == u \in {"sw_write", "hw_render"}

Software(u) == u \in {"sw_read", "sw_write"}

Goto(t, label) == pc' = [pc EXCEPT ![t] = label]

NoValue == <<FALSE, FALSE, 0>>

\* The call returns, and its locals are gone.
Return(t) ==
  /\ Goto(t, "idle")
  /\ usage' = [usage EXCEPT ![t] = "hw_texture"]
  /\ snap' = [snap EXCEPT ![t] = NoValue]
  /\ drop' = [drop EXCEPT ![t] = FALSE]

\* A buffer from gralloc_alloc_buffer() is mapped in its process, a slot of
\* the framebuffer has an address but not the flag, a handle from another
\* process has neither.
Init ==
  /\ kind \in Kinds
  /\ own \in BOOLEAN /\ (kind = "fb" => own)
  /\ registered = own
  /\ write = FALSE /\ count = 0
  /\ mapped = (own /\ kind # "fb")
  /\ base = own
  /\ writeOwner = NoThread
  /\ needsFlush = FALSE /\ dirty = FALSE
  /\ mapLock = NoThread
  /\ pc = [t \in Threads |-> "idle"]
  /\ usage = [t \in Threads |-> "hw_texture"]
  /\ snap = [t \in Threads |-> NoValue]
  /\ drop = [t \in Threads |-> FALSE]
  /\ orphans = [u \in Usages |-> 0]

\* gralloc_register_buffer() and gralloc_unregister_buffer(): in the process
\* that created the buffer neither changes anything, in another both reset it.
Reset ==
  /\ write' = FALSE /\ mapped' = FALSE /\ count' = 0
  /\ writeOwner' = NoThread
  /\ base' = FALSE
  /\ orphans' = [u \in Usages |-> 0]

RegisterBuffer ==
  /\ ~registered
  /\ registered' = TRUE
  /\ IF own THEN UNCHANGED <<lockState, writeOwner, base, orphans>> ELSE Reset
  /\ UNCHANGED <<kind, own, needsFlush, dirty, mapLock, pc, usage, snap, drop>>

UnregisterBuffer ==
  /\ registered
  /\ \A t \in Threads : pc[t] = "idle"
  /\ registered' = FALSE
  /\ IF own THEN UNCHANGED <<lockState, writeOwner, base, orphans>> ELSE Reset
  /\ UNCHANGED <<kind, own, needsFlush, dirty, mapLock, pc, usage, snap, drop>>

-----------------------------------------------------------------------------
(* gralloc_lock()                                                          *)

\* The call is made.
Lock(t, u) ==
  /\ pc[t] = "idle" /\ registered
  /\ usage' = [usage EXCEPT ![t] = u]
  /\ Goto(t, "lock_read")
  /\ UNCHANGED <<handle, lockState, writeOwner, base, needsFlush, dirty, mapLock,
                 snap, drop, orphans>>

\* Mutant: readers do not keep a writer out.
MayLockWhileRead(u, value) == ~value[1]

\* current_value allows a lock for this usage.
MayLock(u, value) == ~value[1] /\ (value[3] = 0 \/ ~Writes(u))

\* The head of the loop: -EBUSY, or on to the exchange.
LockRead(t) ==
  /\ pc[t] = "lock_read"
  /\ \/ /\ MayLock(usage[t], lockState)
        /\ snap' = [snap EXCEPT ![t] = lockState]
        /\ Goto(t, "lock_cas")
        /\ UNCHANGED <<usage, drop>>
     \/ /\ ~MayLock(usage[t], lockState)
        /\ Return(t)
  /\ UNCHANGED <<handle, lockState, writeOwner, base, needsFlush, dirty, mapLock,
                 orphans>>

\* android_atomic_cmpxchg()
LockExchange(t) ==
  /\ pc[t] = "lock_cas"
  /\ \/ /\ lockState = snap[t]
        /\ write' = (write \/ Writes(usage[t]))
        /\ count' = count + 1
        /\ Goto(t, "lock_owner")
     \/ /\ lockState # snap[t]
        /\ Goto(t, "lock_read")
        /\ UNCHANGED <<write, count>>
  /\ UNCHANGED <<handle, mapped, writeOwner, base, needsFlush, dirty, mapLock,
                 usage, snap, drop, orphans>>

\* Mutant: a reader does not map the buffer.
LockOwnerMapsForWriters(t) ==
  LET u == usage[t] IN
  /\ pc[t] = "lock_owner"
  /\ writeOwner' = IF Writes(u) THEN t ELSE writeOwner
  /\ needsFlush' = (needsFlush \/ (u = "sw_write" /\ kind # "fb"))
  /\ Goto(t, IF u = "sw_write" /\ ~snap[t][2] THEN "map_lock" ELSE "held")
  /\ dirty' = (dirty \/ (u = "sw_write" /\ snap[t][2] /\ kind # "fb"))
  /\ UNCHANGED <<handle, lockState, base, mapLock, usage, snap, drop, orphans>>

\* Mutant: only a buffer that is mapped already is flagged.
LockOwnerFlagsMapped(t) ==
  LET u == usage[t] IN
  /\ pc[t] = "lock_owner"
  /\ writeOwner' = IF Writes(u) THEN t ELSE writeOwner
  /\ needsFlush' = (needsFlush \/ (u = "sw_write" /\ kind # "fb" /\ mapped))
  /\ Goto(t, IF Software(u) /\ ~snap[t][2] THEN "map_lock" ELSE "held")
  /\ dirty' = (dirty \/ (u = "sw_write" /\ snap[t][2] /\ kind # "fb"))
  /\ UNCHANGED <<handle, lockState, base, mapLock, usage, snap, drop, orphans>>

\* The lock is taken: store the owner and the flush flag, and go on to map
\* the buffer if current_value said that it is not mapped.
LockOwner(t) ==
  LET u == usage[t] IN
  /\ pc[t] = "lock_owner"
  /\ writeOwner' = IF Writes(u) THEN t ELSE writeOwner
  /\ needsFlush' = (needsFlush \/ (u = "sw_write" /\ kind # "fb"))
  /\ Goto(t, IF Software(u) /\ ~snap[t][2] THEN "map_lock" ELSE "held")
  /\ dirty' = (dirty \/ (u = "sw_write" /\ snap[t][2] /\ kind # "fb"))
  /\ UNCHANGED <<handle, lockState, base, mapLock, usage, snap, drop, orphans>>

\* pthread_mutex_lock(&sMapLock)
MapLock(t) ==
  /\ pc[t] = "map_lock"
  /\ mapLock = NoThread
  /\ mapLock' = t
  /\ Goto(t, "map")
  /\ UNCHANGED <<handle, lockState, writeOwner, base, needsFlush, dirty, usage,
                 snap, drop, orphans>>

\* gralloc_map(), unless another thread has done it.  When mmap() fails the
\* call returns the error and the lock stays taken.
Map(t) ==
  /\ pc[t] = "map"
  /\ \/ /\ ~mapped
        /\ base' = TRUE
        /\ Goto(t, "map_flag")
        /\ UNCHANGED <<mapLock, dirty, usage, snap, drop, orphans>>
     \/ /\ ~mapped /\ kind # "fb"
        /\ orphans[usage[t]] < MaxOrphans
        /\ base' = FALSE
        /\ mapLock' = NoThread
        /\ orphans' = [orphans EXCEPT ![usage[t]] = @ + 1]
        /\ Return(t)
        /\ UNCHANGED dirty
     \/ /\ mapped
        /\ mapLock' = NoThread
        /\ dirty' = (dirty \/ (usage[t] = "sw_write" /\ kind # "fb"))
        /\ Goto(t, "held")
        /\ UNCHANGED <<base, usage, snap, drop, orphans>>
  /\ UNCHANGED <<handle, lockState, writeOwner, needsFlush>>

\* android_atomic_or(LOCK_STATE_MAPPED), and sMapLock is released.
MapFlag(t) ==
  /\ pc[t] = "map_flag"
  /\ mapped' = TRUE
  /\ mapLock' = NoThread
  /\ dirty' = (dirty \/ (usage[t] = "sw_write" /\ kind # "fb"))
  /\ Goto(t, "held")
  /\ UNCHANGED <<handle, write, count, writeOwner, base, needsFlush, usage, snap,
                 drop, orphans>>

-----------------------------------------------------------------------------
(* gralloc_unlock()                                                        *)

\* The cache is cleaned for pmem and ashmem, and the flag is cleared.
UnlockFlush(t) ==
  /\ pc[t] = "held"
  /\ needsFlush' = FALSE
  /\ dirty' = (dirty /\ ~(needsFlush /\ kind \in {"pmem", "ashmem"}))
  /\ Goto(t, "unlock_read")
  /\ UNCHANGED <<handle, lockState, writeOwner, base, mapLock, usage, snap, drop,
                 orphans>>

\* Mutant: LOCK_STATE_WRITE is not cleared.
UnlockReadKeepsWrite(t) ==
  /\ pc[t] = "unlock_read"
  /\ count # 0
  /\ drop' = [drop EXCEPT ![t] = FALSE]
  /\ snap' = [snap EXCEPT ![t] = lockState]
  /\ Goto(t, "unlock_cas")
  /\ UNCHANGED <<handle, lockState, writeOwner, base, needsFlush, dirty, mapLock, usage,
                 orphans>>

\* The head of the loop.  A count of zero is the error of a caller that does
\* not have the lock.
UnlockRead(t) ==
  LET mine == write /\ writeOwner = t IN
  /\ pc[t] = "unlock_read"
  /\ count # 0
  /\ writeOwner' = IF mine THEN NoThread ELSE writeOwner
  /\ drop' = [drop EXCEPT ![t] = mine]
  /\ snap' = [snap EXCEPT ![t] = lockState]
  /\ Goto(t, "unlock_cas")
  /\ UNCHANGED <<handle, lockState, base, needsFlush, dirty, mapLock, usage, orphans>>

UnlockExchange(t) ==
  /\ pc[t] = "unlock_cas"
  /\ \/ /\ lockState = snap[t]
        /\ write' = (write /\ ~drop[t])
        /\ count' = count - 1
        /\ Return(t)
     \/ /\ lockState # snap[t]
        /\ Goto(t, "unlock_read")
        /\ UNCHANGED <<write, count, usage, snap, drop>>
  /\ UNCHANGED <<handle, mapped, writeOwner, base, needsFlush, dirty, mapLock,
                 orphans>>

-----------------------------------------------------------------------------

LockStep(t) ==
  LockRead(t) \/ LockExchange(t) \/ LockOwner(t) \/ MapLock(t) \/ Map(t) \/ MapFlag(t)

UnlockStep(t) == UnlockFlush(t) \/ UnlockRead(t) \/ UnlockExchange(t)

Next ==
  \/ RegisterBuffer
  \/ UnregisterBuffer
  \/ \E t \in Threads : \/ \E u \in Usages : Lock(t, u)
                        \/ LockStep(t)
                        \/ UnlockStep(t)

Spec == Init /\ [][Next]_vars

-----------------------------------------------------------------------------

Labels == {"idle", "lock_read", "lock_cas", "lock_owner", "map_lock", "map",
           "map_flag", "held", "unlock_read", "unlock_cas"}

TypeOK ==
  /\ kind \in {"pmem", "ashmem", "adsp", "fb"}
  /\ own \in BOOLEAN /\ registered \in BOOLEAN
  /\ write \in BOOLEAN /\ mapped \in BOOLEAN /\ count \in Nat
  /\ writeOwner \in Threads \union {NoThread}
  /\ base \in BOOLEAN /\ needsFlush \in BOOLEAN /\ dirty \in BOOLEAN
  /\ mapLock \in Threads \union {NoThread}
  /\ pc \in [Threads -> Labels]
  /\ usage \in [Threads -> Usages]
  /\ snap \in [Threads -> BOOLEAN \X BOOLEAN \X Nat]
  /\ drop \in [Threads -> BOOLEAN]
  /\ orphans \in [Usages -> Nat]

\* The threads whose exchange has succeeded and that have not given it back.
Locked == {t \in Threads : pc[t] \notin {"idle", "lock_read", "lock_cas"}}

\* While a thread has the buffer locked for writing no other thread has it
\* locked at all: what the compare-and-swap loops of gralloc_lock() and
\* gralloc_unlock() are for.
MutualExclusion ==
  \A t \in Locked : Writes(usage[t]) => Locked = {t}

\* lockState counts the locks there are, and LOCK_STATE_WRITE is set if one
\* of them is for writing: unlocking neither loses nor keeps the bit.
LockStateExact ==
  /\ count = Cardinality(Locked) + orphans["sw_read"] + orphans["sw_write"]
  /\ write <=> \/ \E t \in Locked : Writes(usage[t])
               \/ orphans["sw_write"] > 0

\* A thread that was given the address of the buffer was given a mapped one,
\* also when it found another thread mapping it, or when that one failed.
HeldIsMapped ==
  \A t \in Locked : pc[t] = "held" /\ Software(usage[t]) => base /\ mapped

\* What software has written is cleaned out of the cache before anybody else
\* gets the buffer: "if requesting sw write for non-framebuffer handles, flag
\* for flushing at unlock".
FlushedBeforeReuse ==
  dirty => \E t \in Locked : usage[t] = "sw_write" /\ pc[t] = "held"
=============================================================================

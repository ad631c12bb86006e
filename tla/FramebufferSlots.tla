-------------------------- MODULE FramebufferSlots --------------------------
(***************************************************************************)
(* libgralloc/gpu.cpp: the slots of the framebuffer are handed out by      *)
(* gralloc_alloc_framebuffer(), under m->lock, and given back by           *)
(* free_impl(), without it.  bufferMask is read, changed and stored, so    *)
(* that the two interleave.  The first allocation, or fb_device_open(),    *)
(* maps the framebuffer: libgralloc/framebuffer.cpp.                       *)
(***************************************************************************)
EXTENDS Integers, FiniteSets, FiniteSetsExt

CONSTANTS
  Threads,
  NoThread,
  Driver,      \* values of yres_virtual / yres that the driver may settle on
  Handles      \* names for the handles that are created

VARIABLES
  framebuffer,  \* m->framebuffer: "null", "unmapped" (base is 0) or "mapped"
  numBuffers,
  bufferMask,   \* as the set of the bits that are set
  lock,         \* holder of m->lock
  pc,           \* where each thread is
  mask, slot,   \* its local bufferMask, and the slot it changes
  slots,        \* slot of each handle that the callers have
  spare,        \* handles not in use
  overwritten   \* history: "set", "cleared": a bit that another thread set or
                \* cleared between the read and the store of a thread is as before

vars == <<framebuffer, numBuffers, bufferMask, lock, pc, mask, slot, slots, spare, overwritten>>

-----------------------------------------------------------------------------

NoSlot == -1
\* A regular buffer, which is what a single buffer gives.
Regular == -2

Goto(t, label) == pc' = [pc EXCEPT ![t] = label]

Init ==
  /\ framebuffer = "null"
  /\ numBuffers = 0
  /\ bufferMask = {}
  /\ lock = NoThread
  /\ pc = [t \in Threads |-> "idle"]
  /\ mask = [t \in Threads |-> {}]
  /\ slot = [t \in Threads |-> NoSlot]
  /\ slots = <<>>
  /\ spare = Handles
  /\ overwritten = {}

\* Thread t stores bits, which it made from mask[t].
Store(t, bits) ==
  /\ bufferMask' = bits
  /\ overwritten' = overwritten
       \union (IF bufferMask \subseteq mask[t] THEN {} ELSE {"set"})
       \union (IF mask[t] \subseteq bufferMask THEN {} ELSE {"cleared"})

Return(t) ==
  /\ Goto(t, "idle")
  /\ mask' = [mask EXCEPT ![t] = {}]
  /\ slot' = [slot EXCEPT ![t] = NoSlot]

\* Callers have handle h now, for slot i.
Hand(h, i) ==
  /\ slots' = [x \in DOMAIN slots \union {h} |-> IF x = h THEN i ELSE slots[x]]
  /\ spare' = spare \ {h}

\* mapFrameBufferLocked(): already done, an error before m->framebuffer is set,
\* a failed mmap() after it, or success.
MapFrameBufferLocked ==
  \/ framebuffer # "null" /\ UNCHANGED <<framebuffer, numBuffers, bufferMask>>
  \/ /\ framebuffer = "null"
     /\ \/ UNCHANGED <<framebuffer, numBuffers, bufferMask>>
        \/ /\ framebuffer' \in {"unmapped", "mapped"}
           /\ numBuffers' \in Driver
           /\ bufferMask' = {}

\* fb_device_open() calls mapFrameBuffer().
FbDeviceOpen ==
  /\ lock = NoThread
  /\ MapFrameBufferLocked
  /\ UNCHANGED <<lock, pc, mask, slot, slots, spare, overwritten>>

\* gralloc_alloc_framebuffer() takes m->lock; it goes on if the usage is not
\* that of /dev/pmem_adsp, too, and the framebuffer is there or
\* mapFrameBufferLocked() succeeded.
AllocFramebuffer(t, adsp) ==
  /\ pc[t] = "idle" /\ lock = NoThread
  /\ IF adsp THEN UNCHANGED <<framebuffer, numBuffers, bufferMask>> ELSE MapFrameBufferLocked
  /\ IF ~adsp /\ (framebuffer # "null" \/ framebuffer' = "mapped")
     THEN lock' = t /\ Goto(t, "read")
     ELSE UNCHANGED <<lock, pc>>
  /\ UNCHANGED <<mask, slot, slots, spare, overwritten>>

\* const uint32_t bufferMask = m->bufferMask; -ENOMEM if all bits are set.
Full(bits) == Cardinality(bits) >= numBuffers

\* The slot that the loop over the bits finds.
FreeSlot(bits) == Min((0..(numBuffers - 1)) \ bits)

ReadMask(t) ==
  /\ pc[t] = "read"
  /\ \/ /\ numBuffers = 1
        /\ \E h \in spare : Hand(h, Regular)
        /\ lock' = NoThread
        /\ Return(t)
     \/ /\ numBuffers # 1 /\ Full(bufferMask)
        /\ lock' = NoThread
        /\ Return(t)
        /\ UNCHANGED <<slots, spare>>
     \/ /\ numBuffers # 1 /\ ~Full(bufferMask)
        /\ slot' = [slot EXCEPT ![t] = FreeSlot(bufferMask)]
        /\ Goto(t, "or")
        /\ UNCHANGED <<lock, mask, slots, spare>>
  /\ UNCHANGED <<framebuffer, numBuffers, bufferMask, overwritten>>

\* m->bufferMask |= (1LU<<i): read ...
OrRead(t) ==
  /\ pc[t] = "or"
  /\ mask' = [mask EXCEPT ![t] = bufferMask]
  /\ Goto(t, "or_store")
  /\ UNCHANGED <<framebuffer, numBuffers, bufferMask, lock, slot, slots, spare, overwritten>>

\* ... and store.  The handle goes to the caller.
OrStore(t) ==
  /\ pc[t] = "or_store"
  /\ Store(t, mask[t] \union {slot[t]})
  /\ \E h \in spare : Hand(h, slot[t])
  /\ lock' = NoThread
  /\ Return(t)
  /\ UNCHANGED <<framebuffer, numBuffers>>

\* free_impl(): m->bufferMask &= ~(1<<index), read ...
Free(t, h) ==
  /\ pc[t] = "idle"
  /\ h \in DOMAIN slots
  /\ slots' = [x \in DOMAIN slots \ {h} |-> slots[x]]
  /\ spare' = spare \union {h}
  /\ IF slots[h] = Regular THEN UNCHANGED <<pc, mask, slot>>
     ELSE /\ slot' = [slot EXCEPT ![t] = slots[h]]
          /\ mask' = [mask EXCEPT ![t] = bufferMask]
          /\ Goto(t, "and_store")
  /\ UNCHANGED <<framebuffer, numBuffers, bufferMask, lock, overwritten>>

\* Mutant: the bit stays set.
AndStoreKeeps(t) ==
  /\ pc[t] = "and_store"
  /\ Store(t, mask[t])
  /\ Return(t)
  /\ UNCHANGED <<framebuffer, numBuffers, lock, slots, spare>>

\* ... and store.
AndStore(t) ==
  /\ pc[t] = "and_store"
  /\ Store(t, mask[t] \ {slot[t]})
  /\ Return(t)
  /\ UNCHANGED <<framebuffer, numBuffers, lock, slots, spare>>

Next ==
  \/ FbDeviceOpen
  \/ \E t \in Threads :
       \/ spare # {} /\ \E adsp \in BOOLEAN : AllocFramebuffer(t, adsp)
       \/ ReadMask(t) \/ OrRead(t) \/ OrStore(t)
       \/ \E h \in Handles : Free(t, h)
       \/ AndStore(t)

Spec == Init /\ [][Next]_vars

-----------------------------------------------------------------------------

Slots == {h \in DOMAIN slots : slots[h] # Regular}

TypeOK ==
  /\ framebuffer \in {"null", "unmapped", "mapped"}
  /\ numBuffers \in Driver \union {0}
  /\ bufferMask \subseteq 0..(numBuffers - 1)
  /\ lock \in Threads \union {NoThread}
  /\ pc \in [Threads -> {"idle", "read", "or", "or_store", "and_store"}]
  /\ \A h \in DOMAIN slots : slots[h] \in 0..(numBuffers - 1) \union {Regular}
  /\ spare = Handles \ DOMAIN slots
  /\ overwritten \subseteq {"set", "cleared"}

\* gralloc_alloc_framebuffer_locked(): "find a free slot".  No two handles are
\* the same memory.
SlotsDistinct == \A g, h \in Slots : g # h => slots[g] # slots[h]

\* A slot in use is handed out again, and its bit is lost, only once an
\* allocation's update of bufferMask was overwritten.
HandedOnce ==
  "set" \notin overwritten =>
    SlotsDistinct /\ \A h \in Slots : slots[h] \in bufferMask

\* While nobody changes bufferMask its bits are the slots in use, unless an
\* update was overwritten: no order of calls loses a slot for good.
MaskExact ==
  overwritten = {} /\ (\A t \in Threads : pc[t] = "idle") =>
    bufferMask = {slots[h] : h \in Slots}

\* gralloc_alloc_framebuffer_locked(): "the framebuffer is mapped once and
\* forever".  A slot has an address.
SlotsMapped == Slots # {} => framebuffer = "mapped"
=============================================================================

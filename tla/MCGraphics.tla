----------------------------- MODULE MCGraphics -----------------------------
(***************************************************************************)
(* The parts of libgralloc beside the heap and the locks, each on its own: *)
(* a behaviour picks one of Parts and runs it, and the others rest in      *)
(* their initial state.                                                    *)
(*                                                                         *)
(*   pmem   two threads, a heap of three pages instead of 2048, buffers of *)
(*          one to three pages, and descriptors for the heap and two       *)
(*          buffers, so that the heap and the descriptors both run out;    *)
(*          errno 1 is EPERM, 12 ENOMEM; beside them one buffer of a page  *)
(*          of /dev/pmem_adsp.                                             *)
(*   adsp   two threads and up to three buffers of /dev/pmem_adsp, of one  *)
(*          page and of three, which clp2() makes four, in four pages of   *)
(*          addresses.                                                     *)
(*   post   finite as it is: two buffers, and a queue that QueueBounded    *)
(*          shows to be bounded.                                           *)
(*   slots  two threads, a framebuffer of one, two or three screens and    *)
(*          one handle more than that, so that the slots run out.          *)
(*   sizes  widths and heights around the alignments of 16, 32 and 128,    *)
(*          and the screen of the device; clp2() on words of 12 bits.      *)
(***************************************************************************)
EXTENDS PmemAllocator, TLC

CONSTANTS Parts, NoThread

VARIABLES
  part,
  pageFlip, swapInterval, changes, currentBuffer, currentIdx, is_avail, disp,
  locks, post_pc, buffer, nxtIdx, waited, dpc, nxtBuf, cur_buf, screen,
  framebuffer, numBuffers, bufferMask, lock, slots_pc, mask, slot, slots, spare, overwritten,
  input, result

postVars == <<pageFlip, swapInterval, changes, currentBuffer, currentIdx, is_avail, disp,
              locks, post_pc, buffer, nxtIdx, waited, dpc, nxtBuf, cur_buf, screen>>
slotsVars == <<framebuffer, numBuffers, bufferMask, lock, slots_pc, mask, slot, slots, spare,
               overwritten>>
sizesVars == <<input, result>>
graphicsVars == <<part, vars, postVars, slotsVars, sizesVars>>

Post == INSTANCE FramebufferPost WITH
  pc <- post_pc, PageFlips <- BOOLEAN, SwapIntervals <- {-1, 0, 1, 2},
  MaxChanges <- 3, IoctlFails <- TRUE, Spurious <- FALSE

Slots == INSTANCE FramebufferSlots WITH
  pc <- slots_pc, Driver <- {1, 2, 3}, Handles <- 1..4

Sizes == INSTANCE BufferSizes WITH
  Widths <- 1..34 \union 127..129 \union {320, 480, 799, 800},
  Heights <- 1..34 \union 63..65 \union {240, 320, 479, 480},
  WordBits <- 12

\* The buffers of /dev/pmem_adsp, and those on their way.
Adsp == AdspBufs \union {job[t] : t \in {u \in Threads : job[u].kind = "adsp"}}

GraphicsInit ==
  /\ part \in Parts
  /\ Init /\ Post!Init /\ Slots!Init /\ Sizes!Init
  /\ part # "post" => pageFlip /\ swapInterval = 1

GraphicsNext ==
  \/ /\ part = "pmem" /\ Next
     /\ Cardinality(Adsp') <= 1 /\ adsp' \subseteq {0}
     /\ UNCHANGED <<part, postVars, slotsVars, sizesVars>>
  \/ /\ part = "adsp" /\ Next
     /\ \A t \in Threads : job'[t].kind # "pmem" /\ job'[t].size # 8192
     /\ UNCHANGED <<part, postVars, slotsVars, sizesVars>>
  \/ /\ part = "post" /\ Post!Next
     /\ UNCHANGED <<part, vars, slotsVars, sizesVars>>
  \/ /\ part = "slots" /\ Slots!Next
     /\ UNCHANGED <<part, vars, postVars, sizesVars>>
  \/ /\ part = "sizes" /\ Sizes!Next
     /\ UNCHANGED <<part, vars, postVars, slotsVars>>

GraphicsSpec == GraphicsInit /\ [][GraphicsNext]_graphicsVars

Symmetry == Permutations(Threads)

-----------------------------------------------------------------------------

\* fb_post() runs a bounded number of frames ahead of disp_loop(), and between posts
\* the current buffer is the one that is locked.
PostsInOrder == Post!TypeOK /\ Post!QueueBounded /\ Post!OnlyCurrentLocked

\* gralloc_alloc_framebuffer() hands out no slot that is in use, and between
\* calls bufferMask says which slots are in use, with two threads for as long as
\* no store of one overwrites what the other changed meanwhile: free_impl()
\* changes bufferMask without m->lock.
SlotsExact == Slots!TypeOK /\ Slots!HandedOnce /\ Slots!MaskExact

\* The planes of an image fit the buffer that alloc_impl() makes for it.  The
\* video renderer is told the size of that buffer by calculateBufferSize(), for
\* the tiled format rounded up to 8192 bytes, which can be a page beyond its
\* end.  clp2(), which sizes what is mapped from /dev/pmem_adsp, is the next
\* power of two.
SizesFit == Sizes!ImageFits /\ Sizes!RendererAgrees /\ Sizes!Clp2IsNextPower
=============================================================================

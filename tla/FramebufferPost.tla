-------------------------- MODULE FramebufferPost --------------------------
(***************************************************************************)
(* libgralloc/framebuffer.cpp: fb_post(), called by the thread that        *)
(* composes the screen, and disp_loop(), the thread that puts the posted   *)
(* buffers on the display.  They meet in the queue disp (qlock, qpost) and *)
(* in avail[], one flag, mutex and condition per buffer.  Each critical    *)
(* section is one step.                                                    *)
(*                                                                         *)
(* The composer posts the slots of the framebuffer in turn; with a single  *)
(* slot (pageFlip = FALSE) it posts regular buffers, which are copied.     *)
(***************************************************************************)
EXTENDS Integers, Sequences

CONSTANTS
  PageFlips,      \* subset of BOOLEAN: may the framebuffer have NUM_BUFFERS slots?
  SwapIntervals,  \* the values fb_setSwapInterval() is called with
  MaxChanges,     \* bound on the changes of the interval
  IoctlFails,     \* FBIOPUT_VSCREENINFO may fail
  Spurious        \* pthread_cond_wait() may return without a signal

VARIABLES
  pageFlip,       \* numBuffers is NUM_BUFFERS, not 1
  swapInterval, changes,      \* the interval, and how often it has changed
  currentBuffer, currentIdx,  \* of private_module_t
  is_avail,       \* avail[i].is_avail
  disp,           \* the display queue, of qbuf_t
  locks,          \* locks for post, by buffer
  pc,             \* where fb_post() is
  buffer, nxtIdx, \* its argument and local
  waited,         \* it has been through avail[currentIdx]
  dpc,            \* where disp_loop() is
  nxtBuf, cur_buf,  \* its locals
  screen          \* the buffer that is scanned out

shared == <<pageFlip, swapInterval, changes, currentBuffer, currentIdx, is_avail, disp, locks>>
poster == <<pc, buffer, nxtIdx, waited>>
display == <<dpc, nxtBuf, cur_buf, screen>>
vars == <<shared, poster, display>>

-----------------------------------------------------------------------------

NUM_BUFFERS == 2
Idx == 0..(NUM_BUFFERS - 1)

\* Two slots of the framebuffer, or two regular buffers; no buffer is -1.
Buffers == {10, 11}
NoBuffer == -1

OtherBuffer(b) == IF b = 10 THEN 11 ELSE 10

NoQbuf == [buf |-> NoBuffer, idx |-> -1]

\* The end of mapFrameBufferLocked().
Init ==
  /\ pageFlip \in PageFlips
  /\ swapInterval \in SwapIntervals \intersect {0, 1}
  /\ changes = 0
  /\ currentBuffer = NoBuffer /\ currentIdx = -1
  /\ is_avail = [i \in Idx |-> TRUE]
  /\ disp = <<>>
  /\ locks = [b \in Buffers |-> 0]
  /\ pc = "idle" /\ buffer = 11 /\ nxtIdx = 0 /\ waited = FALSE
  /\ dpc = "loop" /\ nxtBuf = NoQbuf /\ cur_buf = -1
  /\ screen = NoBuffer

\* fb_setSwapInterval(): out of range is an error.  The thread that composes
\* the screen calls it, so never during a post.
SetSwapInterval(interval) ==
  /\ pc = "idle"
  /\ interval \in {0, 1}
  /\ interval # swapInterval
  /\ changes < MaxChanges
  /\ swapInterval' = interval
  /\ changes' = changes + 1
  /\ UNCHANGED <<pageFlip, currentBuffer, currentIdx, is_avail, disp, locks, poster, display>>

-----------------------------------------------------------------------------
(* fb_post()                                                               *)

\* The call for a slot of the framebuffer.
Post ==
  /\ pageFlip
  /\ pc = "idle"
  /\ buffer' = OtherBuffer(buffer)
  /\ nxtIdx' = (currentIdx + 1) % NUM_BUFFERS
  /\ waited' = FALSE
  /\ pc' = IF swapInterval = 0 THEN "try" ELSE "lock"
  /\ UNCHANGED <<shared, display>>

\* pthread_mutex_trylock() fails while disp_loop() has the mutex.
TryLockFails == dpc = "mark" /\ nxtIdx = (IF cur_buf = -1 THEN nxtBuf.idx ELSE cur_buf)

\* swapInterval is 0: the buffer is not posted if none is available.
TryAvail ==
  /\ pc = "try"
  /\ \/ TryLockFails /\ pc' = "reuse"
     \/ pc' = IF is_avail[nxtIdx] THEN "lock" ELSE "reuse"
  /\ UNCHANGED <<shared, buffer, nxtIdx, waited, display>>

\* Lock the new buffer for post.
LockBuffer ==
  /\ pc = "lock"
  /\ locks' = [locks EXCEPT ![buffer] = @ + 1]
  /\ pc' = "take"
  /\ UNCHANGED <<pageFlip, swapInterval, changes, currentBuffer, currentIdx, is_avail, disp, buffer,
                 nxtIdx, waited, display>>

TakeAvail ==
  /\ pc = "take"
  /\ is_avail' = [is_avail EXCEPT ![nxtIdx] = FALSE]
  /\ pc' = "queue"
  /\ UNCHANGED <<pageFlip, swapInterval, changes, currentBuffer, currentIdx, disp, locks, buffer,
                 nxtIdx, waited, display>>

\* disp.push() and pthread_cond_signal(qpost)
QueueBuffer ==
  /\ pc = "queue"
  /\ disp' = Append(disp, [buf |-> buffer, idx |-> nxtIdx])
  /\ dpc' = IF dpc = "sleep" THEN "dequeue" ELSE dpc
  /\ pc' = IF currentBuffer = NoBuffer THEN "done"
           ELSE IF swapInterval # 0 THEN "wait" ELSE "unlock"
  /\ UNCHANGED <<pageFlip, swapInterval, changes, currentBuffer, currentIdx, is_avail, locks, buffer,
                 nxtIdx, waited, nxtBuf, cur_buf, screen>>

\* Mutant: it waits only where there is nothing to wait for.
WaitAvailInverted ==
  /\ pc = "wait"
  /\ waited' = TRUE
  /\ pc' = IF is_avail[currentIdx] THEN "woken" ELSE "unlock"
  /\ UNCHANGED <<shared, buffer, nxtIdx, display>>

\* avail[currentIdx]: wait if the buffer is not available.
WaitAvail ==
  /\ pc = "wait"
  /\ waited' = TRUE
  /\ pc' = IF is_avail[currentIdx] THEN "unlock" ELSE "waiting"
  /\ UNCHANGED <<shared, buffer, nxtIdx, display>>

\* pthread_cond_wait() returns; is_avail is set without being tested again.
Woken ==
  /\ pc \in IF Spurious THEN {"woken", "waiting"} ELSE {"woken"}
  /\ is_avail' = [is_avail EXCEPT ![currentIdx] = TRUE]
  /\ pc' = "unlock"
  /\ UNCHANGED <<pageFlip, swapInterval, changes, currentBuffer, currentIdx, disp, locks, buffer,
                 nxtIdx, waited, display>>

UnlockCurrent ==
  /\ pc = "unlock"
  /\ locks' = [locks EXCEPT ![currentBuffer] = @ - 1]
  /\ pc' = "done"
  /\ UNCHANGED <<pageFlip, swapInterval, changes, currentBuffer, currentIdx, is_avail, disp, buffer,
                 nxtIdx, waited, display>>

Done ==
  /\ pc = "done"
  /\ currentBuffer' = buffer
  /\ currentIdx' = nxtIdx
  /\ pc' = "idle"
  /\ UNCHANGED <<pageFlip, swapInterval, changes, is_avail, disp, locks, buffer, nxtIdx, waited, display>>

\* The buffer is not posted: it only takes over the lock.
Reuse ==
  /\ pc = "reuse"
  /\ locks' = [b \in Buffers |-> locks[b] + (IF b = buffer THEN 1 ELSE 0)
                                          - (IF b = currentBuffer THEN 1 ELSE 0)]
  /\ currentBuffer' = buffer
  /\ pc' = "idle"
  /\ UNCHANGED <<pageFlip, swapInterval, changes, currentIdx, is_avail, disp, buffer, nxtIdx, waited, display>>

\* The source that msm_copy_buffer() is given for a posted regular buffer: its
\* handle argument is m->framebuffer.
CopySource(b) == screen

\* The call for a regular buffer: the framebuffer and the buffer are locked
\* during the copy.
PostCopy ==
  /\ ~pageFlip
  /\ pc = "idle"
  /\ buffer' = OtherBuffer(buffer)
  /\ screen' = CopySource(buffer')
  /\ UNCHANGED <<shared, pc, nxtIdx, waited, dpc, nxtBuf, cur_buf>>

FbPost ==
  \/ TryAvail \/ LockBuffer \/ TakeAvail \/ QueueBuffer \/ WaitAvail \/ Woken
  \/ UnlockCurrent \/ Done \/ Reuse

-----------------------------------------------------------------------------
(* disp_loop()                                                             *)

\* Sleep if the queue is empty; a wait that ends goes on to dequeue.
LoopHead ==
  /\ dpc \in IF Spurious THEN {"loop", "sleep"} ELSE {"loop"}
  /\ dpc' = IF dpc = "loop" /\ disp = <<>> THEN "sleep" ELSE "dequeue"
  /\ UNCHANGED <<shared, poster, nxtBuf, cur_buf, screen>>

\* The head of an empty queue is *dummy, which nobody has initialised.
Dequeue ==
  /\ dpc = "dequeue"
  /\ nxtBuf' = IF disp = <<>> THEN NoQbuf ELSE Head(disp)
  /\ disp' = IF disp = <<>> THEN disp ELSE Tail(disp)
  /\ dpc' = "show"
  /\ UNCHANGED <<pageFlip, swapInterval, changes, currentBuffer, currentIdx, is_avail,
                 locks, poster, cur_buf, screen>>

\* FBIOPUT_VSCREENINFO; when it fails the frame is not displayed.
Show ==
  /\ dpc = "show"
  /\ nxtBuf # NoQbuf
  /\ \/ screen' = nxtBuf.buf
     \/ IoctlFails /\ UNCHANGED screen
  /\ dpc' = "mark"
  /\ UNCHANGED <<shared, poster, nxtBuf, cur_buf>>

\* The previous buffer (the first time: this one) is available again.
MarkAvail ==
  LET i == IF cur_buf = -1 THEN nxtBuf.idx ELSE cur_buf IN
  /\ dpc = "mark"
  /\ is_avail' = [is_avail EXCEPT ![i] = TRUE]
  /\ pc' = IF pc = "waiting" /\ currentIdx = i THEN "woken" ELSE pc
  /\ cur_buf' = nxtBuf.idx
  /\ dpc' = "loop"
  /\ UNCHANGED <<pageFlip, swapInterval, changes, currentBuffer, currentIdx, disp, locks, buffer,
                 nxtIdx, waited, nxtBuf, screen>>

DispLoop == LoopHead \/ Dequeue \/ Show \/ MarkAvail

-----------------------------------------------------------------------------

Next ==
  \/ \E interval \in SwapIntervals : SetSwapInterval(interval)
  \/ Post \/ PostCopy \/ FbPost
  \/ DispLoop

Spec == Init /\ [][Next]_vars

\* Both threads run; FBIOPUT_VSCREENINFO returns.
FairSpec == Spec /\ WF_vars(FbPost) /\ WF_vars(DispLoop)

-----------------------------------------------------------------------------

TypeOK ==
  /\ swapInterval \in {0, 1}
  /\ currentBuffer \in Buffers \union {NoBuffer}
  /\ currentIdx \in Idx \union {-1}
  /\ is_avail \in [Idx -> BOOLEAN]
  /\ disp \in Seq([buf : Buffers, idx : Idx])
  /\ locks \in [Buffers -> Nat]
  /\ pc \in {"idle", "try", "lock", "take", "queue", "wait", "waiting", "woken",
             "unlock", "done", "reuse"}
  /\ dpc \in {"loop", "sleep", "dequeue", "show", "mark"}

\* The composer does not run away from the display: fb_post() waits for
\* disp_loop(), or drops the frame, so that no more frames are queued than there
\* are buffers.  Each change of the interval may add one, as the flags then say
\* less about the display than either way of posting assumes.
QueueBounded == Len(disp) <= NUM_BUFFERS + changes

\* Between posts exactly the current buffer is locked, once: fb_post() unlocks
\* what it has locked, whether it posts a buffer or reuses one.
OnlyCurrentLocked ==
  pc = "idle" => \A b \in Buffers : locks[b] = IF b = currentBuffer THEN 1 ELSE 0

\* fb_post() returns: the condition it waits for is signalled.
PostReturns == pc # "idle" ~> pc = "idle"

\* What is queued is put on the display.
QueuedIsShown == disp # <<>> ~> dpc = "show"

\* disp_loop(): "wait (sleep) while display queue is empty".
SleepsWhileEmpty == dpc = "show" => nxtBuf # NoQbuf

\* fb_post(): "after new buffer grabbed by MDP can unlock previous (current)
\* buffer".
GrabbedBeforeUnlock == pc = "unlock" /\ waited => screen = buffer

\* gralloc_alloc_framebuffer_locked(): "a regular buffer which will be memcpy'ed
\* to the main screen when post is called".
CopiedOnPost == [][PostCopy => screen' = buffer']_vars
=============================================================================

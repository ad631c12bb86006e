------------------------------ MODULE UsbLinux ------------------------------
(***************************************************************************)
(* tools/adb/usb_linux.c: the usb devices of a Linux host.  One thread     *)
(* scans the bus, registers what is new and kicks what is gone; a          *)
(* transport has a thread that reads, which also reaps the transfers of    *)
(* the one that writes, and waits for nothing but the kernel.              *)
(*                                                                         *)
(* h->lock is held from one step to the next only by usb_kick() of a       *)
(* device that is open for reading, which nobody else locks; usb_lock only *)
(* in kick_disconnected_devices(), and transport_lock only by the thread   *)
(* that drops the last reference.  So they are read off poll.pc and        *)
(* closing.                                                                *)
(***************************************************************************)
EXTENDS Integers

CONSTANTS
  Handles,        \* devices
  Writeable,      \* the ones that may be opened for writing
  MaxChunks,      \* bound: transfers of a usb_write()
  Markers,        \* whether it may end with an empty one
  Faults,         \* "opendir", "submit", "stall", "stuck", "packet", "110"
  NoHandle

VARIABLES
  usb,            \* of each device: the device, its usb_handle, the kernel's transfers, the
                  \* threads of its transport, and what the last usb_write() did
  poll,           \* device_poll_thread(): where it is, what is left of its loop
  closing         \* the handle that is being closed, under transport_lock

vars == <<usb, poll, closing>>

\* calloc() in register_device(): a handle without any transfer.
Fresh(dev, listed, pc) ==
  [dev |-> dev, listed |-> listed, mark |-> listed, dead |-> FALSE,
   urb_in |-> "none", urb_out |-> "none", urb_out_busy |-> FALSE, status |-> "none",
   rpc |-> pc, got |-> "none",
   wpc |-> pc, woken |-> "none", left |-> 0, marker |-> FALSE, odd |-> FALSE,
   asked |-> 0, taken |-> 0, ret |-> "none"]

Listed == {h \in Handles : usb[h].listed}

-----------------------------------------------------------------------------
(* usb_kick()                                                              *)

Discard(urb) == IF urb = "submitted" THEN "failed" ELSE urb

\* The signal interrupts a reader that is in the kernel, and is lost on one that is on
\* its way there; the transfers are cancelled, and the writer is woken up.
Kicked(u) ==
  IF u.dead THEN u
  ELSE [u EXCEPT !.dead = TRUE, !.urb_in = Discard(@), !.urb_out = Discard(@),
                 !.status = "bad", !.urb_out_busy = FALSE,
                 !.rpc = IF @ = "reap" THEN "reaped" ELSE @,
                 !.got = IF u.rpc = "reap" THEN "EINTR" ELSE @,
                 !.wpc = IF @ = "wait" THEN "woken" ELSE @,
                 !.woken = IF u.wpc = "wait" THEN "signal" ELSE @]

-----------------------------------------------------------------------------
(* device_poll_thread()                                                    *)

\* find_usb_device(): the devices that are there, or none when the bus cannot be read.
\* What kind of device it is, and its endpoints, are in its descriptors.
find_usb_device ==
  /\ poll.pc = "sleep"
  /\ \E found \in {{h \in Handles : usb[h].dev = "present"}}
                    \cup (IF "opendir" \in Faults THEN {{}} ELSE {}) :
       poll' = [pc |-> "scan", todo |-> found, at |-> NoHandle]
  /\ UNCHANGED <<usb, closing>>

\* A device whose handle is on the list is still alive.
known_device(h) ==
  /\ poll.pc = "scan" /\ h \in poll.todo /\ usb[h].listed
  /\ usb' = [usb EXCEPT ![h].mark = TRUE]
  /\ poll' = [poll EXCEPT !.todo = @ \ {h}]
  /\ UNCHANGED closing

\* A new device: it cannot be opened or claimed, or gets a handle on the list, and a
\* transport, which has its threads when the device can be written.
register_device(h) ==
  /\ poll.pc = "scan" /\ h \in poll.todo /\ ~usb[h].listed
  /\ \/ UNCHANGED usb
     \/ /\ usb[h].dev = "present"
        /\ usb' = [usb EXCEPT ![h] =
             Fresh("present", TRUE, IF h \in Writeable THEN "idle" ELSE "done")]
  /\ poll' = [poll EXCEPT !.todo = @ \ {h}]
  /\ UNCHANGED closing

\* The end of the scan: usb_lock is taken to go through the list.
LockList ==
  /\ poll.pc = "scan" /\ poll.todo = {}
  /\ poll' = [poll EXCEPT !.pc = "kick", !.todo = Listed]
  /\ UNCHANGED <<usb, closing>>

\* One handle: kicked when this scan has not seen the device.  One that is open for
\* reading takes transport_lock for that.
kick_disconnected_devices(h) ==
  /\ poll.pc = "kick" /\ h \in poll.todo
  /\ UNCHANGED closing
  /\ IF usb[h].mark
     THEN /\ usb' = [usb EXCEPT ![h].mark = FALSE]
          /\ poll' = [poll EXCEPT !.todo = @ \ {h}]
     ELSE IF h \in Writeable \/ usb[h].dead
     THEN /\ usb' = [usb EXCEPT ![h] = Kicked(@)]
          /\ poll' = [poll EXCEPT !.todo = @ \ {h}]
     ELSE /\ poll' = [poll EXCEPT !.pc = "unregister", !.todo = @ \ {h}, !.at = h]
          /\ UNCHANGED usb

\* unregister_usb_transport(), under transport_lock.
Unregister ==
  /\ poll.pc = "unregister" /\ closing = NoHandle
  /\ usb' = [usb EXCEPT ![poll.at].dead = TRUE]
  /\ poll' = [poll EXCEPT !.pc = "kick", !.at = NoHandle]
  /\ UNCHANGED closing

Sleep ==
  /\ poll.pc = "kick" /\ poll.todo = {}
  /\ poll' = [poll EXCEPT !.pc = "sleep"]
  /\ UNCHANGED <<usb, closing>>

PollStep ==
  \/ find_usb_device \/ LockList \/ Unregister \/ Sleep
  \/ \E h \in Handles : known_device(h) \/ register_device(h) \/ kick_disconnected_devices(h)

-----------------------------------------------------------------------------
(* usb_read() and usb_bulk_read(), in the thread that reads                *)

CannotSubmit(h) == usb[h].dev = "gone" \/ "submit" \in Faults

\* The lock is held until the transfer is with the kernel.
usb_bulk_read(h) ==
  /\ usb[h].rpc = "idle"
  /\ \/ /\ usb[h].dead \/ CannotSubmit(h)
        /\ usb' = [usb EXCEPT ![h].rpc = "exit"]
     \/ /\ ~usb[h].dead /\ usb[h].dev # "gone"
        /\ usb' = [usb EXCEPT ![h].rpc = "unlocked", ![h].urb_in = "submitted"]
  /\ UNCHANGED <<poll, closing>>

\* USBDEVFS_REAPURB, which fails at once when the device is gone.
EnterReap(h) ==
  /\ usb[h].rpc = "unlocked"
  /\ usb' = [usb EXCEPT ![h].rpc = IF usb[h].dev = "gone" THEN "reaped" ELSE "reap",
                        ![h].got = IF usb[h].dev = "gone" THEN "ENODEV" ELSE "none"]
  /\ UNCHANGED <<poll, closing>>

\* A transfer of either direction has ended: its status is stored in the handle.
Reap(h) ==
  /\ usb[h].rpc = "reap"
  /\ \/ /\ usb[h].urb_in \in {"done", "failed"}
        /\ usb' = [usb EXCEPT ![h].rpc = "reaped", ![h].got = usb[h].urb_in,
                              ![h].urb_in = "none"]
     \/ /\ usb[h].urb_out \in {"done", "failed"}
        /\ usb' = [usb EXCEPT ![h].rpc = "reaped", ![h].got = "out",
                              ![h].urb_out = "none",
                              ![h].status = IF usb[h].urb_out = "done" THEN "ok" ELSE "bad"]
  /\ UNCHANGED <<poll, closing>>

\* With the lock again: a transfer of the writer is reported to it, and the reader
\* goes on; its own one ends usb_bulk_read().
Reaped(h) ==
  /\ usb[h].rpc = "reaped"
  /\ LET u == usb[h]
     IN usb' = [usb EXCEPT ![h] =
          IF u.dead \/ u.got \in {"failed", "ENODEV"}
          THEN [u EXCEPT !.rpc = "exit", !.got = "none"]
          ELSE IF u.got = "done" THEN [u EXCEPT !.rpc = "idle", !.got = "none"]
          ELSE IF u.got = "EINTR" THEN [u EXCEPT !.rpc = "unlocked", !.got = "none"]
          ELSE [u EXCEPT !.rpc = "unlocked", !.got = "none", !.urb_out_busy = FALSE,
                         !.wpc = IF @ = "wait" THEN "woken" ELSE @,
                 !.woken = IF u.wpc = "wait" THEN "signal" ELSE @]]
  /\ UNCHANGED <<poll, closing>>

\* remote_read() refuses a packet.
BadPacket(h) ==
  /\ "packet" \in Faults /\ usb[h].rpc = "idle"
  /\ usb' = [usb EXCEPT ![h].rpc = "exit"]
  /\ UNCHANGED <<poll, closing>>

\* output_thread() kicks its transport when it ends.
ReaderKicks(h) ==
  /\ usb[h].rpc = "exit"
  /\ usb' = [usb EXCEPT ![h] = [Kicked(@) EXCEPT !.rpc = "unref"]]
  /\ UNCHANGED <<poll, closing>>

-----------------------------------------------------------------------------
(* usb_write() and usb_bulk_write(), in the thread that writes             *)

\* Some transfers, and an empty one behind a last packet that is full.  The transfers
\* may be of 110 bytes, which is ETIMEDOUT.
usb_write(h) ==
  /\ usb[h].wpc = "idle"
  /\ \E n \in 1..MaxChunks, z \in Markers, odd \in {FALSE, "110" \in Faults} :
       usb' = [usb EXCEPT ![h].wpc = "write", ![h].left = n, ![h].marker = z, ![h].odd = odd,
                          ![h].asked = n, ![h].taken = 0, ![h].ret = "none"]
  /\ UNCHANGED <<poll, closing>>

\* What usb_write() makes of the result of usb_bulk_write(): for the empty transfer,
\* its result is returned, and it is zero also for one that was waited for in vain.
Wrote(u, res) ==
  IF u.left = 0
  THEN [u EXCEPT !.wpc = "idle", !.marker = FALSE,
                 !.ret = IF res \in {"length", "signal"} THEN "ok" ELSE "error"]
  ELSE IF res # "length" /\ ~(res = "ETIMEDOUT" /\ u.odd) THEN [u EXCEPT !.wpc = "idle", !.ret = "error"]
  ELSE IF u.left > 1 \/ u.marker THEN [u EXCEPT !.wpc = "write", !.left = @ - 1]
  ELSE [u EXCEPT !.wpc = "idle", !.left = 0, !.ret = "ok"]

usb_bulk_write(h) ==
  /\ usb[h].wpc = "write"
  /\ \/ /\ usb[h].dead \/ CannotSubmit(h)
        /\ usb' = [usb EXCEPT ![h] = Wrote(@, "error")]
     \/ /\ ~usb[h].dead /\ usb[h].dev # "gone"
        /\ usb' = [usb EXCEPT ![h].wpc = "wait", ![h].urb_out = "submitted",
                              ![h].urb_out_busy = TRUE, ![h].status = "none"]
  /\ UNCHANGED <<poll, closing>>

\* pthread_cond_timedwait() gives up after five seconds.
Timeout(h) ==
  /\ usb[h].wpc = "wait"
  /\ usb' = [usb EXCEPT ![h].wpc = "woken", ![h].woken = "ETIMEDOUT"]
  /\ UNCHANGED <<poll, closing>>

\* A mutant: a timeout ends the write.
WokenGivesUp(h) ==
  /\ usb[h].wpc = "woken"
  /\ LET u == usb[h]
     IN usb' = [usb EXCEPT ![h] =
          IF u.dead \/ u.woken = "ETIMEDOUT" THEN Wrote(u, u.woken)
          ELSE IF u.urb_out_busy THEN [u EXCEPT !.wpc = "wait"]
          ELSE Wrote(u, IF u.status = "ok" THEN "length" ELSE u.woken)]
  /\ UNCHANGED <<poll, closing>>

\* The result is that of the wait, zero or ETIMEDOUT, unless the transfer has ended
\* well.  As neither is negative, a timeout alone does not end the loop.
Woken(h) ==
  /\ usb[h].wpc = "woken"
  /\ LET u == usb[h]
     IN usb' = [usb EXCEPT ![h] =
          IF u.dead THEN Wrote(u, u.woken)
          ELSE IF u.urb_out_busy THEN [u EXCEPT !.wpc = "wait"]
          ELSE Wrote(u, IF u.status = "ok" THEN "length" ELSE u.woken)]
  /\ UNCHANGED <<poll, closing>>

\* input_thread() is told to end by the thread that reads.
WriterEnds(h) ==
  /\ usb[h].wpc = "idle" /\ usb[h].rpc \in {"unref", "done"}
  /\ usb' = [usb EXCEPT ![h].wpc = "unref"]
  /\ UNCHANGED <<poll, closing>>

-----------------------------------------------------------------------------

\* transport_unref() of the two threads; the last one closes the handle.
ReaderUnref(h) ==
  /\ usb[h].rpc = "unref" /\ closing = NoHandle
  /\ usb' = [usb EXCEPT ![h].rpc = "done"]
  /\ closing' = IF usb[h].wpc = "done" THEN h ELSE NoHandle
  /\ UNCHANGED poll

WriterUnref(h) ==
  /\ usb[h].wpc = "unref" /\ closing = NoHandle
  /\ usb' = [usb EXCEPT ![h].wpc = "done"]
  /\ closing' = IF usb[h].rpc = "done" THEN h ELSE NoHandle
  /\ UNCHANGED poll

\* usb_close() waits for usb_lock; the kernel forgets the transfers with the descriptor.
usb_close ==
  /\ closing # NoHandle /\ poll.pc \notin {"kick", "unregister"}
  /\ usb' = [usb EXCEPT ![closing] = Fresh(usb[closing].dev, FALSE, "done")]
  /\ closing' = NoHandle
  /\ UNCHANGED poll

\* The bus: devices come and go, and transfers end.  "stuck" is a transfer that does
\* not end with its device.
Plug(h) ==
  /\ usb[h].dev = "absent"
  /\ usb' = [usb EXCEPT ![h].dev = "present"]
  /\ UNCHANGED <<poll, closing>>

Unplug(h) ==
  /\ usb[h].dev = "present"
  /\ \E end \in {"failed"} \cup (IF "stuck" \in Faults THEN {"stuck"} ELSE {}) :
       usb' = [usb EXCEPT ![h].dev = "gone",
                          ![h].urb_in = IF @ = "submitted" THEN end ELSE @,
                          ![h].urb_out = IF @ = "submitted" THEN end ELSE @]
  /\ UNCHANGED <<poll, closing>>

Complete(h) ==
  /\ usb[h].dev = "present"
  /\ \E end \in {"done"} \cup (IF "stall" \in Faults THEN {"failed"} ELSE {}) :
       \/ /\ usb[h].urb_in = "submitted"
          /\ usb' = [usb EXCEPT ![h].urb_in = end]
       \/ /\ usb[h].urb_out = "submitted"
          /\ usb' = [usb EXCEPT ![h].urb_out = end,
                                ![h].taken = IF end = "done" THEN @ + 1 ELSE @]
  /\ UNCHANGED <<poll, closing>>

Init ==
  /\ usb = [h \in Handles |-> Fresh("absent", FALSE, "done")]
  /\ poll = [pc |-> "sleep", todo |-> {}, at |-> NoHandle]
  /\ closing = NoHandle

ReaderStep(h) ==
  usb_bulk_read(h) \/ EnterReap(h) \/ Reap(h) \/ Reaped(h) \/ ReaderKicks(h) \/ ReaderUnref(h)
WriterStep(h) == usb_bulk_write(h) \/ Timeout(h) \/ Woken(h) \/ WriterUnref(h)

Next ==
  \/ PollStep \/ usb_close
  \/ \E h \in Handles :
       \/ ReaderStep(h) \/ BadPacket(h)
       \/ usb_write(h) \/ WriterStep(h) \/ WriterEnds(h)
       \/ Plug(h) \/ Unplug(h) \/ Complete(h)

Spec == Init /\ [][Next]_vars

\* The threads run.  device_poll_thread() sleeps without usb_lock between two scans, and
\* the packets that are queued before the one that ends the writer are finitely many.
Fairness ==
  /\ WF_vars(PollStep) /\ SF_vars(usb_close)
  /\ \A h \in Handles : WF_vars(ReaderStep(h)) /\ WF_vars(WriterStep(h)) /\ SF_vars(WriterEnds(h))

-----------------------------------------------------------------------------

\* usb_write() reports success only when the device has taken all the data, and the
\* empty transfer too unless the transfer has failed.
WriteIsTrue ==
  \A h \in Handles :
    usb[h].ret = "ok" => /\ usb[h].taken >= usb[h].asked
                         /\ usb[h].left = 0

\* The kernel holds no transfer of a call that has returned, whose buffer is the
\* caller's again, other than one that is stuck there.
BuffersReturned ==
  \A h \in Handles :
    /\ usb[h].wpc \in {"idle", "write", "unref", "done"} => usb[h].urb_out # "submitted"
    /\ usb[h].rpc \in {"idle", "exit", "unref", "done"} => usb[h].urb_in # "submitted"

\* Only a device that is gone is kicked, by the scan, or one whose reader has failed.
OnlyGoneAreKicked ==
  \A h \in Handles :
    usb[h].dead => usb[h].dev = "gone" \/ usb[h].rpc \in {"unref", "done"}

\* What the two threads of a transport and the scan do to a handle together.
UsbSound == WriteIsTrue /\ BuffersReturned /\ OnlyGoneAreKicked

\* The handle of a device that was pulled out is closed, whatever its threads are
\* waiting for.
HandlesFreed ==
  \A h \in Writeable : (usb[h].dev = "gone" /\ usb[h].listed) ~> ~usb[h].listed
=============================================================================

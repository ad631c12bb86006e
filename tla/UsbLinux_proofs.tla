--------------------------- MODULE UsbLinux_proofs ---------------------------
(***************************************************************************)
(* UsbSound of UsbLinux, proved for any devices, any length of a           *)
(* usb_write() and any faults.  The invariant is one of each handle by     *)
(* itself (Sound) and one of the handles and the scan (Scanned).  A step   *)
(* of a handle's threads, or of the bus, touches one handle and not what   *)
(* the scan reads of it, except that a device may go (LocalStep); a step   *)
(* of the scan replaces at most one (ReplaceStep).  So every action is     *)
(* reduced to what it makes of one record.                                 *)
(***************************************************************************)
EXTENDS UsbLinux, TLAPS

Urb == {"none", "submitted", "done", "failed", "stuck"}

Status == {"none", "ok", "bad"}
Reader == {"idle", "unlocked", "reap", "reaped", "exit", "unref", "done"}
Got == {"none", "done", "failed", "out", "EINTR", "ENODEV"}
Writer == {"idle", "write", "wait", "woken", "unref", "done"}
WokenBy == {"none", "signal", "ETIMEDOUT"}
Ret == {"none", "ok", "error"}

\* A handle, with the threads of its transport.
Handle ==
  [dev : {"absent", "present", "gone"}, listed : BOOLEAN, mark : BOOLEAN, dead : BOOLEAN,
   urb_in : Urb, urb_out : Urb, urb_out_busy : BOOLEAN, status : Status,
   rpc : Reader, got : Got, wpc : Writer, woken : WokenBy,
   left : Nat, marker : BOOLEAN, odd : BOOLEAN, asked : Nat, taken : Nat, ret : Ret]

TypeOK ==
  /\ usb \in [Handles -> Handle]
  /\ poll \in [pc : {"sleep", "scan", "kick", "unregister"}, todo : SUBSET Handles,
               at : Handles \cup {NoHandle}]
  /\ closing \in Handles \cup {NoHandle}

\* The reader's transfer is with the kernel only while usb_bulk_read() waits for it, and
\* never once the handle is dead or the device gone.
ReadHeld(u) ==
  /\ u.urb_in = "submitted" =>
       /\ u.rpc \in {"unlocked", "reap", "reaped"}
       /\ ~u.dead /\ u.dev # "gone"
       /\ u.got \notin {"done", "failed"}
  /\ u.got = "ENODEV" => u.dev = "gone"
  /\ u.got # "none" <=> u.rpc = "reaped"

\* So is the writer's; and on a live handle the writer waits, and urb_out_busy stays set,
\* from the submission of the transfer until the reader has reported its end.
WriteHeld(u) ==
  /\ u.urb_out = "submitted" => ~u.dead /\ u.dev # "gone"
  /\ ~u.dead /\ (u.urb_out # "none" \/ u.got = "out") =>
       u.urb_out_busy /\ u.wpc \in {"wait", "woken"}
  /\ ~u.dead /\ u.got = "out" => u.urb_out = "none"

\* The transfers that are left and the ones that the device has taken make up the call,
\* with one to spare when the one that is waited for has ended well.
Counted(u) ==
  /\ u.wpc \in {"write", "wait", "woken"} => u.ret = "none" /\ u.taken + u.left >= u.asked
  /\ ~u.dead /\ u.urb_out = "done" => u.taken + u.left > u.asked
  /\ ~u.dead /\ u.wpc \in {"wait", "woken"} /\ u.status = "ok" => u.taken + u.left > u.asked
  /\ u.ret = "ok" => u.taken >= u.asked /\ u.left = 0

\* What holds of a handle by itself.
Sound(u) ==
  /\ ReadHeld(u) /\ WriteHeld(u)
  /\ u.listed => u.dev # "absent"
  /\ "110" \notin Faults => ~u.odd /\ Counted(u)

\* A handle that this scan will not find marked is of a device that is gone.
Scanned(h) ==
  /\ poll.pc = "scan" /\ usb[h].listed /\ ~usb[h].mark => h \in poll.todo \/ usb[h].dev = "gone"
  /\ poll.pc \in {"kick", "unregister"} /\ h \in poll.todo /\ ~usb[h].mark => usb[h].dev = "gone"

\* The threads of a handle that is open for reading only are never started.
Threads ==
  /\ \A h \in Handles \ Writeable : usb[h].rpc = "done" /\ usb[h].wpc = "done"
  /\ poll.pc = "unregister" => poll.at \in Handles \ Writeable

IInv ==
  /\ TypeOK
  /\ \A h \in Handles : Sound(usb[h])
  /\ Threads
  /\ "opendir" \notin Faults => OnlyGoneAreKicked /\ \A h \in Handles : Scanned(h)

\* The constants, as far as they matter here: usb_write() makes a number of transfers.
Bounds == MaxChunks \in Nat /\ Markers \subseteq BOOLEAN

-----------------------------------------------------------------------------
(* One handle                                                              *)

\* Neither thread runs.
Idle(u) == u.rpc = "done" /\ u.wpc = "done"

\* OnlyGoneAreKicked, of one handle.
Gone(u) == u.dead => u.dev = "gone" \/ u.rpc \in {"unref", "done"}

\* A step of a handle's own threads, or of the bus, from u to v.
Local(u, v) ==
  /\ v \in Handle /\ Sound(v)
  /\ v.listed = u.listed /\ v.mark = u.mark
  /\ u.dev = "gone" => v.dev = "gone"
  /\ Idle(u) => Idle(v)
  /\ Gone(u) => Gone(v)

\* An assignment to a field of a handle leaves a handle.
LEMMA Assigned ==
  ASSUME NEW u \in Handle
  PROVE  /\ \A x \in {"absent", "present", "gone"} : [u EXCEPT !.dev = x] \in Handle
         /\ \A x \in BOOLEAN : [u EXCEPT !.mark = x] \in Handle
         /\ \A x \in BOOLEAN : [u EXCEPT !.dead = x] \in Handle
         /\ \A x \in Urb : [u EXCEPT !.urb_in = x] \in Handle
         /\ \A x \in Urb : [u EXCEPT !.urb_out = x] \in Handle
         /\ \A x \in BOOLEAN : [u EXCEPT !.urb_out_busy = x] \in Handle
         /\ \A x \in Status : [u EXCEPT !.status = x] \in Handle
         /\ \A x \in Reader : [u EXCEPT !.rpc = x] \in Handle
         /\ \A x \in Got : [u EXCEPT !.got = x] \in Handle
         /\ \A x \in Writer : [u EXCEPT !.wpc = x] \in Handle
         /\ \A x \in WokenBy : [u EXCEPT !.woken = x] \in Handle
         /\ \A x \in Nat : [u EXCEPT !.left = x] \in Handle
         /\ \A x \in BOOLEAN : [u EXCEPT !.marker = x] \in Handle
         /\ \A x \in BOOLEAN : [u EXCEPT !.odd = x] \in Handle
         /\ \A x \in Nat : [u EXCEPT !.asked = x] \in Handle
         /\ \A x \in Nat : [u EXCEPT !.taken = x] \in Handle
         /\ \A x \in Ret : [u EXCEPT !.ret = x] \in Handle
<1>1. \A x \in {"absent", "present", "gone"} : [u EXCEPT !.dev = x] \in Handle
  BY DEF Handle
<1>2. \A x \in BOOLEAN : [u EXCEPT !.mark = x] \in Handle
  BY DEF Handle
<1>3. \A x \in BOOLEAN : [u EXCEPT !.dead = x] \in Handle
  BY DEF Handle
<1>4. \A x \in Urb : [u EXCEPT !.urb_in = x] \in Handle
  BY DEF Handle
<1>5. \A x \in Urb : [u EXCEPT !.urb_out = x] \in Handle
  BY DEF Handle
<1>6. \A x \in BOOLEAN : [u EXCEPT !.urb_out_busy = x] \in Handle
  BY DEF Handle
<1>7. \A x \in Status : [u EXCEPT !.status = x] \in Handle
  BY DEF Handle
<1>8. \A x \in Reader : [u EXCEPT !.rpc = x] \in Handle
  BY DEF Handle
<1>9. \A x \in Got : [u EXCEPT !.got = x] \in Handle
  BY DEF Handle
<1>10. \A x \in Writer : [u EXCEPT !.wpc = x] \in Handle
  BY DEF Handle
<1>11. \A x \in WokenBy : [u EXCEPT !.woken = x] \in Handle
  BY DEF Handle
<1>12. \A x \in Nat : [u EXCEPT !.left = x] \in Handle
  BY DEF Handle
<1>13. \A x \in BOOLEAN : [u EXCEPT !.marker = x] \in Handle
  BY DEF Handle
<1>14. \A x \in BOOLEAN : [u EXCEPT !.odd = x] \in Handle
  BY DEF Handle
<1>15. \A x \in Nat : [u EXCEPT !.asked = x] \in Handle
  BY DEF Handle
<1>16. \A x \in Nat : [u EXCEPT !.taken = x] \in Handle
  BY DEF Handle
<1>17. \A x \in Ret : [u EXCEPT !.ret = x] \in Handle
  BY DEF Handle
<1> QED
  BY <1>1, <1>2, <1>3, <1>4, <1>5, <1>6, <1>7, <1>8, <1>9, <1>10, <1>11, <1>12, <1>13,
     <1>14, <1>15, <1>16, <1>17

\* The invariant of the handles, in terms of one of them.
LEMMA Of ==
  ASSUME IInv, NEW h \in Handles
  PROVE  usb[h] \in Handle /\ Sound(usb[h])
BY DEF IInv, TypeOK

\* A local step of one handle preserves the invariant of all of them.
LEMMA LocalStep ==
  ASSUME IInv, NEW h \in Handles, NEW v, Local(usb[h], v),
         usb' = [usb EXCEPT ![h] = v], poll' = poll, closing' \in Handles \cup {NoHandle}
  PROVE  IInv'
<1>1. usb \in [Handles -> Handle]
  BY DEF IInv, TypeOK
<1>2. usb'[h] = v /\ \A g \in Handles : g # h => usb'[g] = usb[g]
  BY <1>1
<1>3. TypeOK'
  BY <1>1 DEF IInv, TypeOK, Local
<1>4. \A g \in Handles : Sound(usb'[g])
  BY <1>2 DEF IInv, Local
<1>5. Threads'
  BY <1>2 DEF IInv, Threads, Local, Idle
<1>6. ASSUME "opendir" \notin Faults
      PROVE  OnlyGoneAreKicked' /\ \A g \in Handles : Scanned(g)'
  <2>1. OnlyGoneAreKicked /\ \A g \in Handles : Scanned(g)
    BY <1>6 DEF IInv
  <2>2. OnlyGoneAreKicked'
    BY <1>2, <2>1 DEF OnlyGoneAreKicked, Local, Gone
  <2>3. Scanned(h)'
    BY <1>2, <2>1 DEF Scanned, Local
  <2>4. \A g \in Handles : g # h => Scanned(g)'
    BY <1>2, <2>1 DEF Scanned
  <2> QED
    BY <2>2, <2>3, <2>4
<1> QED
  BY <1>3, <1>4, <1>5, <1>6 DEF IInv, Sound, ReadHeld, WriteHeld, Counted

-----------------------------------------------------------------------------
(* The thread that reads                                                   *)

\* usb_bulk_read(): the transfer is submitted for a live handle only.
LEMMA BulkReadInv ==
  ASSUME IInv, NEW h \in Handles, usb_bulk_read(h)
  PROVE  IInv'
<1> DEFINE u == usb[h]
<1>1. u \in Handle /\ Sound(u) /\ usb \in [Handles -> Handle] /\ u.rpc = "idle"
  BY Of DEF usb_bulk_read, IInv, TypeOK
<1>2. poll' = poll /\ closing' \in Handles \cup {NoHandle}
  BY DEF usb_bulk_read, IInv, TypeOK
<1>3. CASE usb' = [usb EXCEPT ![h].rpc = "exit"]
  <2> DEFINE v == [u EXCEPT !.rpc = "exit"]
  <2>1. usb' = [usb EXCEPT ![h] = v]
    BY <1>3
  <2>2. v \in Handle
    BY <1>1, Assigned DEF Urb, Status, Reader, Got, Writer, WokenBy
  <2>3. Local(u, v)
    BY <1>1, <2>2 DEF Local, Handle, Sound, ReadHeld, WriteHeld, Counted, Idle, Gone
  <2> QED
    BY <1>2, <2>1, <2>3, LocalStep
<1>4. CASE /\ ~u.dead /\ u.dev # "gone"
           /\ usb' = [usb EXCEPT ![h].rpc = "unlocked", ![h].urb_in = "submitted"]
  <2> DEFINE v == [u EXCEPT !.rpc = "unlocked", !.urb_in = "submitted"]
  <2>1. usb' = [usb EXCEPT ![h] = v]
    BY <1>4
  <2>2. v \in Handle
    BY <1>1, Assigned DEF Urb, Status, Reader, Got, Writer, WokenBy
  <2>3. Local(u, v)
    BY <1>1, <1>4, <2>2 DEF Local, Handle, Sound, ReadHeld, WriteHeld, Counted, Idle,
       Gone
  <2> QED
    BY <1>2, <2>1, <2>3, LocalStep
<1> QED
  BY <1>3, <1>4 DEF usb_bulk_read

\* USBDEVFS_REAPURB is entered, or fails because the device is gone.
LEMMA EnterReapInv ==
  ASSUME IInv, NEW h \in Handles, EnterReap(h)
  PROVE  IInv'
<1> DEFINE u == usb[h]
           v == [u EXCEPT !.rpc = IF u.dev = "gone" THEN "reaped" ELSE "reap",
                          !.got = IF u.dev = "gone" THEN "ENODEV" ELSE "none"]
<1>1. u \in Handle /\ Sound(u) /\ usb \in [Handles -> Handle] /\ u.rpc = "unlocked"
  BY Of DEF EnterReap, IInv, TypeOK
<1>2. poll' = poll /\ closing' \in Handles \cup {NoHandle} /\ usb' = [usb EXCEPT ![h] = v]
  BY DEF EnterReap, IInv, TypeOK
<1>3. v \in Handle
  BY <1>1, Assigned DEF Urb, Status, Reader, Got, Writer, WokenBy
<1>4. Local(u, v)
  BY <1>1, <1>3 DEF Local, Handle, Sound, ReadHeld, WriteHeld, Counted, Idle, Gone
<1> QED
  BY <1>2, <1>4, LocalStep

\* A transfer is reaped: when it is the writer's, urb_out_busy stays set.
LEMMA ReapInv ==
  ASSUME IInv, NEW h \in Handles, Reap(h)
  PROVE  IInv'
<1> DEFINE u == usb[h]
<1>1. u \in Handle /\ Sound(u) /\ usb \in [Handles -> Handle] /\ u.rpc = "reap"
  BY Of DEF Reap, IInv, TypeOK
<1>2. poll' = poll /\ closing' \in Handles \cup {NoHandle}
  BY DEF Reap, IInv, TypeOK
<1>3. CASE /\ u.urb_in \in {"done", "failed"}
           /\ usb' = [usb EXCEPT ![h].rpc = "reaped", ![h].got = u.urb_in, ![h].urb_in = "none"]
  <2> DEFINE v == [u EXCEPT !.rpc = "reaped", !.got = u.urb_in, !.urb_in = "none"]
  <2>1. usb' = [usb EXCEPT ![h] = v]
    BY <1>3
  <2>2. v \in Handle
    BY <1>1, <1>3, Assigned DEF Urb, Status, Reader, Got, Writer, WokenBy
  <2>3. Local(u, v)
    BY <1>1, <1>3, <2>2 DEF Local, Handle, Sound, ReadHeld, WriteHeld, Counted, Idle,
       Gone
  <2> QED
    BY <1>2, <2>1, <2>3, LocalStep
<1>4. CASE /\ u.urb_out \in {"done", "failed"}
           /\ usb' = [usb EXCEPT ![h].rpc = "reaped", ![h].got = "out", ![h].urb_out = "none",
                                 ![h].status = IF u.urb_out = "done" THEN "ok" ELSE "bad"]
  <2> DEFINE s == IF u.urb_out = "done" THEN "ok" ELSE "bad"
             v == [u EXCEPT !.rpc = "reaped", !.got = "out", !.urb_out = "none", !.status = s]
  <2>1. usb' = [usb EXCEPT ![h] = v]
    BY <1>4
  <2>2. s \in {"ok", "bad"} /\ (s = "ok" => u.urb_out = "done")
    OBVIOUS
  <2> HIDE DEF s
  <2>3. v \in Handle
    BY <1>1, <2>2, Assigned DEF Urb, Status, Reader, Got, Writer, WokenBy
  <2>4. Local(u, v)
    BY <1>1, <1>4, <2>2, <2>3 DEF Local, Handle, Sound, ReadHeld, WriteHeld, Counted,
       Idle, Gone
  <2> QED
    BY <1>2, <2>1, <2>4, LocalStep
<1> QED
  BY <1>3, <1>4 DEF Reap

\* What was reaped is reported: only then is urb_out_busy cleared on a live handle.
LEMMA ReapedInv ==
  ASSUME IInv, NEW h \in Handles, Reaped(h)
  PROVE  IInv'
<1> DEFINE u == usb[h]
           exit == [u EXCEPT !.rpc = "exit", !.got = "none"]
           idle == [u EXCEPT !.rpc = "idle", !.got = "none"]
           again == [u EXCEPT !.rpc = "unlocked", !.got = "none"]
           w == IF u.wpc = "wait" THEN "woken" ELSE u.wpc
           s == IF u.wpc = "wait" THEN "signal" ELSE u.woken
           told == [u EXCEPT !.rpc = "unlocked", !.got = "none", !.urb_out_busy = FALSE,
                             !.wpc = w, !.woken = s]
<1>1. u \in Handle /\ Sound(u) /\ usb \in [Handles -> Handle] /\ u.rpc = "reaped"
  BY Of DEF Reaped, IInv, TypeOK
<1>2. poll' = poll /\ closing' \in Handles \cup {NoHandle}
  BY DEF Reaped, IInv, TypeOK
<1>3. exit \in Handle /\ idle \in Handle /\ again \in Handle
  BY <1>1, Assigned DEF Reader, Got
<1>4. CASE u.dead \/ u.got \in {"failed", "ENODEV"}
  <2>1. usb' = [usb EXCEPT ![h] = exit]
    BY <1>4 DEF Reaped
  <2>2. Local(u, exit)
    BY <1>1, <1>3, <1>4 DEF Local, Handle, Sound, ReadHeld, WriteHeld, Counted, Idle,
       Gone
  <2> QED
    BY <1>2, <2>1, <2>2, LocalStep
<1>5. CASE ~u.dead /\ u.got = "done"
  <2>1. usb' = [usb EXCEPT ![h] = idle]
    BY <1>5 DEF Reaped
  <2>2. Local(u, idle)
    BY <1>1, <1>3, <1>5 DEF Local, Handle, Sound, ReadHeld, WriteHeld, Counted, Idle,
       Gone
  <2> QED
    BY <1>2, <2>1, <2>2, LocalStep
<1>6. CASE ~u.dead /\ u.got = "EINTR"
  <2>1. usb' = [usb EXCEPT ![h] = again]
    BY <1>6 DEF Reaped
  <2>2. Local(u, again)
    BY <1>1, <1>3, <1>6 DEF Local, Handle, Sound, ReadHeld, WriteHeld, Counted, Idle,
       Gone
  <2> QED
    BY <1>2, <2>1, <2>2, LocalStep
<1>7. CASE ~u.dead /\ u.got \notin {"failed", "ENODEV", "done", "EINTR"}
  <2>1. usb' = [usb EXCEPT ![h] = told]
    BY <1>7 DEF Reaped
  <2>2. /\ w \in {"idle", "write", "woken", "unref", "done"} /\ s \in {"none", "signal", "ETIMEDOUT"}
        /\ w = "woken" => u.wpc \in {"wait", "woken"}
        /\ w # "woken" => w = u.wpc
    BY <1>1 DEF Handle, Writer, WokenBy
  <2> HIDE DEF w, s
  <2>3. told \in Handle
    BY <1>1, <2>2, Assigned DEF Urb, Status, Reader, Got, Writer, WokenBy
  <2>4. /\ told.rpc = "unlocked" /\ told.got = "none" /\ ~told.urb_out_busy /\ told.wpc = w
        /\ told.dev = u.dev /\ told.listed = u.listed /\ told.mark = u.mark /\ told.dead = u.dead
        /\ told.urb_in = u.urb_in /\ told.urb_out = u.urb_out /\ told.status = u.status
        /\ told.left = u.left /\ told.odd = u.odd
        /\ told.asked = u.asked /\ told.taken = u.taken /\ told.ret = u.ret
    BY <1>1 DEF Handle
  <2> HIDE DEF told
  <2>5. Local(u, told)
    BY <1>1, <1>7, <2>2, <2>3, <2>4 DEF Local, Sound, ReadHeld, WriteHeld, Counted,
       Idle, Gone, Handle, Got
  <2> QED
    BY <1>2, <2>1, <2>5, LocalStep
<1> QED
  BY <1>4, <1>5, <1>6, <1>7

\* remote_read() refuses a packet.
LEMMA BadPacketInv ==
  ASSUME IInv, NEW h \in Handles, BadPacket(h)
  PROVE  IInv'
<1> DEFINE u == usb[h]
           v == [u EXCEPT !.rpc = "exit"]
<1>1. u \in Handle /\ Sound(u) /\ usb \in [Handles -> Handle] /\ u.rpc = "idle"
  BY Of DEF BadPacket, IInv, TypeOK
<1>2. poll' = poll /\ closing' \in Handles \cup {NoHandle} /\ usb' = [usb EXCEPT ![h] = v]
  BY DEF BadPacket, IInv, TypeOK
<1>3. v \in Handle
  BY <1>1, Assigned DEF Urb, Status, Reader, Got, Writer, WokenBy
<1>4. Local(u, v)
  BY <1>1, <1>3 DEF Local, Handle, Sound, ReadHeld, WriteHeld, Counted, Idle, Gone
<1> QED
  BY <1>2, <1>4, LocalStep

\* usb_kick() cancels both transfers, so that nothing of a dead handle is with the kernel.
LEMMA KickedIsSound ==
  ASSUME NEW u \in Handle, Sound(u)
  PROVE  /\ Kicked(u) \in Handle /\ Sound(Kicked(u)) /\ Kicked(u).dead
         /\ Kicked(u).listed = u.listed /\ Kicked(u).mark = u.mark /\ Kicked(u).dev = u.dev
         /\ Idle(u) => Idle(Kicked(u))
         /\ Kicked(u).rpc # u.rpc => u.rpc = "reap"
<1>1. CASE u.dead
  BY <1>1 DEF Kicked
<1>2. CASE ~u.dead
  <2> DEFINE in == Discard(u.urb_in)
             out == Discard(u.urb_out)
             r == IF u.rpc = "reap" THEN "reaped" ELSE u.rpc
             g == IF u.rpc = "reap" THEN "EINTR" ELSE u.got
             w == IF u.wpc = "wait" THEN "woken" ELSE u.wpc
             s == IF u.wpc = "wait" THEN "signal" ELSE u.woken
             v == [u EXCEPT !.dead = TRUE, !.urb_in = in, !.urb_out = out, !.status = "bad",
                            !.urb_out_busy = FALSE, !.rpc = r, !.got = g, !.wpc = w, !.woken = s]
  <2>1. Kicked(u) = v
    BY <1>2 DEF Kicked
  <2>2. in \in Urb \ {"submitted"} /\ out \in Urb \ {"submitted"}
    BY DEF Handle, Urb, Discard
  <2>3. /\ r \in {"idle", "unlocked", "reaped", "exit", "unref", "done"}
        /\ g \in {"none", "done", "failed", "out", "EINTR", "ENODEV"}
        /\ u.rpc = "reap" => r = "reaped" /\ g = "EINTR"
        /\ u.rpc # "reap" => r = u.rpc /\ g = u.got
    BY DEF Handle, Reader, Got
  <2>4. /\ w \in {"idle", "write", "woken", "unref", "done"} /\ s \in {"none", "signal", "ETIMEDOUT"}
        /\ w # u.wpc => u.wpc = "wait" /\ w = "woken"
    BY DEF Handle, Writer, WokenBy
  <2> HIDE DEF in, out, r, g, w, s
  <2>5. v \in Handle
    <3>1. [u EXCEPT !.dead = TRUE, !.urb_in = in, !.urb_out = out, !.status = "bad"] \in Handle
      BY <2>2, Assigned DEF Status
    <3>2. \A x \in Handle : [x EXCEPT !.urb_out_busy = FALSE, !.rpc = r, !.got = g] \in Handle
      BY <2>3, Assigned DEF Reader, Got
    <3>3. \A x \in Handle : [x EXCEPT !.wpc = w, !.woken = s] \in Handle
      BY <2>4, Assigned DEF Writer, WokenBy
    <3> QED
      BY <3>1, <3>2, <3>3
  <2>6. /\ v.listed = u.listed /\ v.mark = u.mark /\ v.dev = u.dev /\ v.dead
        /\ v.urb_in = in /\ v.urb_out = out /\ v.rpc = r /\ v.got = g /\ v.wpc = w
        /\ v.left = u.left /\ v.odd = u.odd
        /\ v.asked = u.asked /\ v.taken = u.taken /\ v.ret = u.ret
    BY DEF Handle
  <2> HIDE DEF v
  <2>7. Sound(v) /\ (Idle(u) => Idle(v))
    BY <2>2, <2>3, <2>4, <2>5, <2>6 DEF Sound, ReadHeld, WriteHeld, Counted, Idle
  <2> QED
    BY <2>1, <2>3, <2>5, <2>6, <2>7
<1> QED
  BY <1>1, <1>2

\* output_thread() kicks its own transport as it ends.
LEMMA ReaderKicksInv ==
  ASSUME IInv, NEW h \in Handles, ReaderKicks(h)
  PROVE  IInv'
<1> DEFINE u == usb[h]
           k == Kicked(u)
           v == [k EXCEPT !.rpc = "unref"]
<1>1. u \in Handle /\ Sound(u) /\ usb \in [Handles -> Handle] /\ u.rpc = "exit"
  BY Of DEF ReaderKicks, IInv, TypeOK
<1>2. poll' = poll /\ closing' \in Handles \cup {NoHandle} /\ usb' = [usb EXCEPT ![h] = v]
  BY DEF ReaderKicks, IInv, TypeOK
<1>3. /\ k \in Handle /\ Sound(k) /\ k.dead /\ k.rpc = "exit"
      /\ k.listed = u.listed /\ k.mark = u.mark /\ k.dev = u.dev
  BY <1>1, KickedIsSound
<1> HIDE DEF k
<1>4. v \in Handle
  BY <1>3, Assigned DEF Urb, Status, Reader, Got, Writer, WokenBy
<1>5. Local(u, v)
  BY <1>1, <1>3, <1>4 DEF Local, Handle, Sound, ReadHeld, WriteHeld, Counted, Idle, Gone
<1> QED
  BY <1>2, <1>5, LocalStep

-----------------------------------------------------------------------------
(* The thread that writes                                                  *)

\* usb_write() starts with as many transfers left as were asked for.
LEMMA WriteInv ==
  ASSUME IInv, Bounds, NEW h \in Handles, usb_write(h)
  PROVE  IInv'
<1> DEFINE u == usb[h]
<1>1. u \in Handle /\ Sound(u) /\ usb \in [Handles -> Handle] /\ u.wpc = "idle"
  BY Of DEF usb_write, IInv, TypeOK
<1>2. PICK n \in 1..MaxChunks, z \in Markers, odd \in {FALSE, "110" \in Faults} :
        usb' = [usb EXCEPT ![h].wpc = "write", ![h].left = n, ![h].marker = z, ![h].odd = odd,
                           ![h].asked = n, ![h].taken = 0, ![h].ret = "none"]
  BY DEF usb_write
<1>3. n \in Nat /\ z \in BOOLEAN /\ odd \in BOOLEAN /\ ("110" \notin Faults => ~odd)
  <2>1. n \in Nat
    BY SMT DEF Bounds
  <2>2. z \in BOOLEAN
    BY DEF Bounds
  <2>3. odd = FALSE \/ odd = ("110" \in Faults)
    BY Zenon
  <2>4. odd \in BOOLEAN
    <3>1. {FALSE, "110" \in Faults} \subseteq BOOLEAN
      OBVIOUS
    <3> QED
      BY <3>1, Zenon
  <2>5. "110" \notin Faults => ~odd
    BY <2>3, Zenon
  <2> QED
    BY <2>1, <2>2, <2>4, <2>5
<1> DEFINE v == [u EXCEPT !.wpc = "write", !.left = n, !.marker = z, !.odd = odd,
                          !.asked = n, !.taken = 0, !.ret = "none"]
<1>4. poll' = poll /\ closing' \in Handles \cup {NoHandle}
  BY DEF usb_write, IInv, TypeOK
<1>5. usb' = [usb EXCEPT ![h] = v]
  BY <1>2
<1>6. v \in Handle
  <2>1. [u EXCEPT !.wpc = "write", !.left = n, !.marker = z, !.odd = odd] \in Handle
    BY <1>1, <1>3, Assigned DEF Writer
  <2>2. \A x \in Handle : [x EXCEPT !.asked = n, !.taken = 0, !.ret = "none"] \in Handle
    BY <1>3, Assigned DEF Ret
  <2> QED
    BY <2>1, <2>2
<1>7. /\ v.wpc = "write" /\ v.left = n /\ v.odd = odd /\ v.asked = n /\ v.taken = 0 /\ v.ret = "none"
      /\ v.dev = u.dev /\ v.listed = u.listed /\ v.mark = u.mark /\ v.dead = u.dead
      /\ v.urb_in = u.urb_in /\ v.urb_out = u.urb_out /\ v.urb_out_busy = u.urb_out_busy
      /\ v.rpc = u.rpc /\ v.got = u.got /\ v.status = u.status
  BY <1>1 DEF Handle
<1> HIDE DEF v
<1>8. Local(u, v)
  BY <1>1, <1>3, <1>6, <1>7 DEF Local, Sound, ReadHeld, WriteHeld, Counted, Idle, Gone
<1> QED
  BY <1>4, <1>5, <1>8, LocalStep

\* What usb_write() makes of a result: it goes on, or ends, with the count kept, provided
\* that the transfer is over, and that a full length is reported of one that ended well.
LEMMA WroteIsLocal ==
  ASSUME NEW u \in Handle, Sound(u), u.wpc \in {"write", "woken"},
         u.dead \/ u.wpc = "write" \/ ~u.urb_out_busy,
         NEW res \in {"error", "length", "none", "signal", "ETIMEDOUT"},
         res = "length" => ~u.dead /\ u.wpc = "woken" /\ u.status = "ok"
  PROVE  Local(u, Wrote(u, res))
<1>0. u.left \in Nat /\ u.taken \in Nat /\ u.asked \in Nat
  BY DEF Handle
<1>1. CASE u.left = 0
  <2> DEFINE r == IF res \in {"length", "signal"} THEN "ok" ELSE "error"
             v == [u EXCEPT !.wpc = "idle", !.marker = FALSE, !.ret = r]
  <2>1. Wrote(u, res) = v
    BY <1>1 DEF Wrote
  <2>2. r \in Ret
    BY DEF Ret
  <2> HIDE DEF r
  <2>3. v \in Handle
    BY <2>2, Assigned DEF Writer
  <2>4. /\ v.wpc = "idle" /\ v.ret = r /\ v.left = u.left /\ v.odd = u.odd
        /\ v.asked = u.asked /\ v.taken = u.taken
        /\ v.dev = u.dev /\ v.listed = u.listed /\ v.mark = u.mark /\ v.dead = u.dead
        /\ v.urb_in = u.urb_in /\ v.urb_out = u.urb_out /\ v.urb_out_busy = u.urb_out_busy
        /\ v.rpc = u.rpc /\ v.got = u.got /\ v.status = u.status
    BY DEF Handle
  <2> HIDE DEF v
  <2>5. Local(u, v)
    BY <1>0, <1>1, <2>3, <2>4 DEF Local, Sound, ReadHeld, WriteHeld, Counted, Idle, Gone
  <2> QED
    BY <2>1, <2>5
<1>2. CASE u.left # 0 /\ res # "length" /\ ~(res = "ETIMEDOUT" /\ u.odd)
  <2> DEFINE v == [u EXCEPT !.wpc = "idle", !.ret = "error"]
  <2>1. Wrote(u, res) = v
    BY <1>2 DEF Wrote
  <2>2. v \in Handle
    BY Assigned DEF Writer, Ret
  <2>3. /\ v.wpc = "idle" /\ v.ret = "error" /\ v.left = u.left /\ v.odd = u.odd
        /\ v.asked = u.asked /\ v.taken = u.taken
        /\ v.dev = u.dev /\ v.listed = u.listed /\ v.mark = u.mark /\ v.dead = u.dead
        /\ v.urb_in = u.urb_in /\ v.urb_out = u.urb_out /\ v.urb_out_busy = u.urb_out_busy
        /\ v.rpc = u.rpc /\ v.got = u.got /\ v.status = u.status
    BY DEF Handle
  <2> HIDE DEF v
  <2>4. Local(u, v)
    BY <1>0, <2>2, <2>3 DEF Local, Sound, ReadHeld, WriteHeld, Counted, Idle, Gone
  <2> QED
    BY <2>1, <2>4
<1>3. CASE u.left # 0 /\ (res = "length" \/ (res = "ETIMEDOUT" /\ u.odd)) /\ (u.left > 1 \/ u.marker)
  <2> DEFINE n == u.left - 1
             v == [u EXCEPT !.wpc = "write", !.left = n]
  <2>1. Wrote(u, res) = v
    BY <1>3 DEF Wrote
  <2>2. n \in Nat /\ u.left = n + 1
    BY <1>0, <1>3
  <2> HIDE DEF n
  <2>3. v \in Handle
    BY <2>2, Assigned DEF Writer
  <2>4. /\ v.wpc = "write" /\ v.ret = u.ret /\ v.left = n /\ v.odd = u.odd
        /\ v.asked = u.asked /\ v.taken = u.taken
        /\ v.dev = u.dev /\ v.listed = u.listed /\ v.mark = u.mark /\ v.dead = u.dead
        /\ v.urb_in = u.urb_in /\ v.urb_out = u.urb_out /\ v.urb_out_busy = u.urb_out_busy
        /\ v.rpc = u.rpc /\ v.got = u.got /\ v.status = u.status
    BY DEF Handle
  <2> HIDE DEF v
  <2>5. Local(u, v)
    BY <1>0, <1>3, <2>2, <2>3, <2>4 DEF Local, Sound, ReadHeld, WriteHeld, Counted,
       Idle, Gone
  <2> QED
    BY <2>1, <2>5
<1>4. CASE u.left # 0 /\ (res = "length" \/ (res = "ETIMEDOUT" /\ u.odd)) /\ ~(u.left > 1 \/ u.marker)
  <2> DEFINE v == [u EXCEPT !.wpc = "idle", !.left = 0, !.ret = "ok"]
  <2>1. Wrote(u, res) = v
    BY <1>4 DEF Wrote
  <2>2. u.left = 1
    BY <1>0, <1>4
  <2>3. v \in Handle
    BY Assigned DEF Writer, Ret
  <2>4. /\ v.wpc = "idle" /\ v.ret = "ok" /\ v.left = 0 /\ v.odd = u.odd
        /\ v.asked = u.asked /\ v.taken = u.taken
        /\ v.dev = u.dev /\ v.listed = u.listed /\ v.mark = u.mark /\ v.dead = u.dead
        /\ v.urb_in = u.urb_in /\ v.urb_out = u.urb_out /\ v.urb_out_busy = u.urb_out_busy
        /\ v.rpc = u.rpc /\ v.got = u.got /\ v.status = u.status
    BY DEF Handle
  <2> HIDE DEF v
  <2>5. Local(u, v)
    BY <1>0, <1>4, <2>2, <2>3, <2>4 DEF Local, Sound, ReadHeld, WriteHeld, Counted,
       Idle, Gone
  <2> QED
    BY <2>1, <2>5
<1> QED
  BY <1>1, <1>2, <1>3, <1>4

\* usb_bulk_write(): the handle is dead or refuses the transfer, or the wait starts.
LEMMA BulkWriteInv ==
  ASSUME IInv, NEW h \in Handles, usb_bulk_write(h)
  PROVE  IInv'
<1> DEFINE u == usb[h]
<1>1. u \in Handle /\ Sound(u) /\ usb \in [Handles -> Handle] /\ u.wpc = "write"
  BY Of DEF usb_bulk_write, IInv, TypeOK
<1>2. poll' = poll /\ closing' \in Handles \cup {NoHandle}
  BY DEF usb_bulk_write, IInv, TypeOK
<1>3. CASE usb' = [usb EXCEPT ![h] = Wrote(@, "error")]
  <2>1. Local(u, Wrote(u, "error"))
    BY <1>1, WroteIsLocal
  <2> QED
    BY <1>2, <1>3, <2>1, LocalStep
<1>4. CASE /\ ~u.dead /\ u.dev # "gone"
           /\ usb' = [usb EXCEPT ![h].wpc = "wait", ![h].urb_out = "submitted",
                                 ![h].urb_out_busy = TRUE, ![h].status = "none"]
  <2> DEFINE v == [u EXCEPT !.wpc = "wait", !.urb_out = "submitted",
                            !.urb_out_busy = TRUE, !.status = "none"]
  <2>1. usb' = [usb EXCEPT ![h] = v]
    BY <1>4
  <2>2. v \in Handle
    BY <1>1, Assigned DEF Writer, Urb, Status
  <2>3. /\ v.wpc = "wait" /\ v.ret = u.ret /\ v.left = u.left /\ v.odd = u.odd
        /\ v.asked = u.asked /\ v.taken = u.taken
        /\ v.dev = u.dev /\ v.listed = u.listed /\ v.mark = u.mark /\ v.dead = u.dead
        /\ v.urb_in = u.urb_in /\ v.urb_out = "submitted" /\ v.urb_out_busy = TRUE
        /\ v.rpc = u.rpc /\ v.got = u.got /\ v.status = "none"
    BY <1>1 DEF Handle
  <2> HIDE DEF v
  <2>4. Local(u, v)
    BY <1>1, <1>4, <2>2, <2>3 DEF Local, Sound, ReadHeld, WriteHeld, Counted, Idle, Gone
  <2> QED
    BY <1>2, <2>1, <2>4, LocalStep
<1> QED
  BY <1>3, <1>4 DEF usb_bulk_write

\* The wait times out.
LEMMA TimeoutInv ==
  ASSUME IInv, NEW h \in Handles, Timeout(h)
  PROVE  IInv'
<1> DEFINE u == usb[h]
           v == [u EXCEPT !.wpc = "woken", !.woken = "ETIMEDOUT"]
<1>1. u \in Handle /\ Sound(u) /\ usb \in [Handles -> Handle] /\ u.wpc = "wait"
  BY Of DEF Timeout, IInv, TypeOK
<1>2. poll' = poll /\ closing' \in Handles \cup {NoHandle} /\ usb' = [usb EXCEPT ![h] = v]
  BY DEF Timeout, IInv, TypeOK
<1>3. v \in Handle
  BY <1>1, Assigned DEF Writer, WokenBy
<1>4. Local(u, v)
  BY <1>1, <1>3 DEF Local, Handle, Sound, ReadHeld, WriteHeld, Counted, Idle, Gone
<1> QED
  BY <1>2, <1>4, LocalStep

\* The writer looks: it waits on while the transfer is busy on a live handle.
LEMMA WokenInv ==
  ASSUME IInv, NEW h \in Handles, Woken(h)
  PROVE  IInv'
<1> DEFINE u == usb[h]
           res == IF ~u.dead /\ u.status = "ok" THEN "length" ELSE u.woken
<1>1. u \in Handle /\ Sound(u) /\ usb \in [Handles -> Handle] /\ u.wpc = "woken"
  BY Of DEF Woken, IInv, TypeOK
<1>2. poll' = poll /\ closing' \in Handles \cup {NoHandle}
  BY DEF Woken, IInv, TypeOK
<1>3. CASE ~u.dead /\ u.urb_out_busy
  <2> DEFINE v == [u EXCEPT !.wpc = "wait"]
  <2>1. usb' = [usb EXCEPT ![h] = v]
    BY <1>3 DEF Woken
  <2>2. v \in Handle
    BY <1>1, Assigned DEF Writer
  <2>3. Local(u, v)
    BY <1>1, <2>2 DEF Local, Handle, Sound, ReadHeld, WriteHeld, Counted, Idle, Gone
  <2> QED
    BY <1>2, <2>1, <2>3, LocalStep
<1>4. CASE u.dead \/ ~u.urb_out_busy
  <2>1. usb' = [usb EXCEPT ![h] = Wrote(u, res)]
    BY <1>4 DEF Woken
  <2>2. /\ res \in {"error", "length", "none", "signal", "ETIMEDOUT"}
        /\ res = "length" => ~u.dead /\ u.wpc = "woken" /\ u.status = "ok"
    BY <1>1 DEF Handle, WokenBy
  <2>3. Local(u, Wrote(u, res))
    BY <1>1, <1>4, <2>2, WroteIsLocal
  <2> QED
    BY <1>2, <2>1, <2>3, LocalStep
<1> QED
  BY <1>3, <1>4

\* input_thread() ends.
LEMMA WriterEndsInv ==
  ASSUME IInv, NEW h \in Handles, WriterEnds(h)
  PROVE  IInv'
<1> DEFINE u == usb[h]
           v == [u EXCEPT !.wpc = "unref"]
<1>1. u \in Handle /\ Sound(u) /\ usb \in [Handles -> Handle] /\ u.wpc = "idle"
  BY Of DEF WriterEnds, IInv, TypeOK
<1>2. poll' = poll /\ closing' \in Handles \cup {NoHandle} /\ usb' = [usb EXCEPT ![h] = v]
  BY DEF WriterEnds, IInv, TypeOK
<1>3. v \in Handle
  BY <1>1, Assigned DEF Writer
<1>4. Local(u, v)
  BY <1>1, <1>3 DEF Local, Handle, Sound, ReadHeld, WriteHeld, Counted, Idle, Gone
<1> QED
  BY <1>2, <1>4, LocalStep

-----------------------------------------------------------------------------
(* The last reference, and the bus                                         *)

\* transport_unref() of the thread that reads.
LEMMA ReaderUnrefInv ==
  ASSUME IInv, NEW h \in Handles, ReaderUnref(h)
  PROVE  IInv'
<1> DEFINE u == usb[h]
           v == [u EXCEPT !.rpc = "done"]
<1>1. u \in Handle /\ Sound(u) /\ usb \in [Handles -> Handle] /\ u.rpc = "unref"
  BY Of DEF ReaderUnref, IInv, TypeOK
<1>2. poll' = poll /\ closing' \in Handles \cup {NoHandle} /\ usb' = [usb EXCEPT ![h] = v]
  BY DEF ReaderUnref
<1>3. v \in Handle
  BY <1>1, Assigned DEF Reader
<1>4. Local(u, v)
  BY <1>1, <1>3 DEF Local, Handle, Sound, ReadHeld, WriteHeld, Counted, Idle, Gone
<1> QED
  BY <1>2, <1>4, LocalStep

\* transport_unref() of the thread that writes.
LEMMA WriterUnrefInv ==
  ASSUME IInv, NEW h \in Handles, WriterUnref(h)
  PROVE  IInv'
<1> DEFINE u == usb[h]
           v == [u EXCEPT !.wpc = "done"]
<1>1. u \in Handle /\ Sound(u) /\ usb \in [Handles -> Handle] /\ u.wpc = "unref"
  BY Of DEF WriterUnref, IInv, TypeOK
<1>2. poll' = poll /\ closing' \in Handles \cup {NoHandle} /\ usb' = [usb EXCEPT ![h] = v]
  BY DEF WriterUnref
<1>3. v \in Handle
  BY <1>1, Assigned DEF Writer
<1>4. Local(u, v)
  BY <1>1, <1>3 DEF Local, Handle, Sound, ReadHeld, WriteHeld, Counted, Idle, Gone
<1> QED
  BY <1>2, <1>4, LocalStep

\* A device is plugged in.
LEMMA PlugInv ==
  ASSUME IInv, NEW h \in Handles, Plug(h)
  PROVE  IInv'
<1> DEFINE u == usb[h]
           v == [u EXCEPT !.dev = "present"]
<1>1. u \in Handle /\ Sound(u) /\ usb \in [Handles -> Handle] /\ u.dev = "absent"
  BY Of DEF Plug, IInv, TypeOK
<1>2. poll' = poll /\ closing' \in Handles \cup {NoHandle} /\ usb' = [usb EXCEPT ![h] = v]
  BY DEF Plug, IInv, TypeOK
<1>3. v \in Handle
  BY <1>1, Assigned
<1>4. Local(u, v)
  BY <1>1, <1>3 DEF Local, Handle, Sound, ReadHeld, WriteHeld, Counted, Idle, Gone
<1> QED
  BY <1>2, <1>4, LocalStep

\* A device is pulled out, with its transfers.
LEMMA UnplugInv ==
  ASSUME IInv, NEW h \in Handles, Unplug(h)
  PROVE  IInv'
<1> DEFINE u == usb[h]
<1>1. u \in Handle /\ Sound(u) /\ usb \in [Handles -> Handle] /\ u.dev = "present"
  BY Of DEF Unplug, IInv, TypeOK
<1>2. PICK end \in {"failed", "stuck"} :
        usb' = [usb EXCEPT ![h].dev = "gone",
                           ![h].urb_in = IF @ = "submitted" THEN end ELSE @,
                           ![h].urb_out = IF @ = "submitted" THEN end ELSE @]
  BY DEF Unplug
<1> DEFINE in == IF u.urb_in = "submitted" THEN end ELSE u.urb_in
           out == IF u.urb_out = "submitted" THEN end ELSE u.urb_out
           v == [u EXCEPT !.dev = "gone", !.urb_in = in, !.urb_out = out]
<1>3. poll' = poll /\ closing' \in Handles \cup {NoHandle}
  BY DEF Unplug, IInv, TypeOK
<1>4. usb' = [usb EXCEPT ![h] = v]
  BY <1>2
<1>5. /\ in \in Urb \ {"submitted"} /\ out \in Urb \ {"submitted"}
      /\ out = "none" <=> u.urb_out = "none"
      /\ out = "done" => u.urb_out = "done"
  BY <1>1, <1>2 DEF Handle, Urb
<1> HIDE DEF in, out
<1>6. v \in Handle
  BY <1>1, <1>5, Assigned
<1>7. /\ v.wpc = u.wpc /\ v.ret = u.ret /\ v.left = u.left /\ v.odd = u.odd
      /\ v.asked = u.asked /\ v.taken = u.taken
      /\ v.dev = "gone" /\ v.listed = u.listed /\ v.mark = u.mark /\ v.dead = u.dead
      /\ v.urb_in = in /\ v.urb_out = out /\ v.urb_out_busy = u.urb_out_busy
      /\ v.rpc = u.rpc /\ v.got = u.got /\ v.status = u.status
  BY <1>1 DEF Handle
<1> HIDE DEF v
<1>8. Local(u, v)
  BY <1>1, <1>5, <1>6, <1>7 DEF Local, Sound, ReadHeld, WriteHeld, Counted, Idle, Gone
<1> QED
  BY <1>3, <1>4, <1>8, LocalStep

\* A transfer ends; one of the writer that ends well is counted.
LEMMA CompleteInv ==
  ASSUME IInv, NEW h \in Handles, Complete(h)
  PROVE  IInv'
<1> DEFINE u == usb[h]
<1>1. u \in Handle /\ Sound(u) /\ usb \in [Handles -> Handle] /\ u.taken \in Nat
  BY Of DEF IInv, TypeOK, Handle
<1>2. poll' = poll /\ closing' \in Handles \cup {NoHandle}
  BY DEF Complete, IInv, TypeOK
<1>3. PICK end \in {"done", "failed"} :
        \/ /\ u.urb_in = "submitted"
           /\ usb' = [usb EXCEPT ![h].urb_in = end]
        \/ /\ u.urb_out = "submitted"
           /\ usb' = [usb EXCEPT ![h].urb_out = end,
                                 ![h].taken = IF end = "done" THEN @ + 1 ELSE @]
  BY DEF Complete
<1>4. CASE u.urb_in = "submitted" /\ usb' = [usb EXCEPT ![h].urb_in = end]
  <2> DEFINE v == [u EXCEPT !.urb_in = end]
  <2>1. usb' = [usb EXCEPT ![h] = v]
    BY <1>4
  <2>2. v \in Handle
    BY <1>1, Assigned DEF Urb
  <2>3. /\ v.wpc = u.wpc /\ v.ret = u.ret /\ v.left = u.left /\ v.odd = u.odd
        /\ v.asked = u.asked /\ v.taken = u.taken
        /\ v.dev = u.dev /\ v.listed = u.listed /\ v.mark = u.mark /\ v.dead = u.dead
        /\ v.urb_in = end /\ v.urb_out = u.urb_out /\ v.urb_out_busy = u.urb_out_busy
        /\ v.rpc = u.rpc /\ v.got = u.got /\ v.status = u.status
    BY <1>1 DEF Handle
  <2> HIDE DEF v
  <2>4. Local(u, v)
    BY <1>1, <2>2, <2>3 DEF Local, Sound, ReadHeld, WriteHeld, Counted, Idle, Gone
  <2> QED
    BY <1>2, <2>1, <2>4, LocalStep
<1>5. CASE /\ u.urb_out = "submitted"
           /\ usb' = [usb EXCEPT ![h].urb_out = end,
                                 ![h].taken = IF end = "done" THEN @ + 1 ELSE @]
  <2> DEFINE n == IF end = "done" THEN u.taken + 1 ELSE u.taken
             v == [u EXCEPT !.urb_out = end, !.taken = n]
  <2>1. usb' = [usb EXCEPT ![h] = v]
    BY <1>5
  <2>2. n \in Nat /\ n >= u.taken /\ (end = "done" => n = u.taken + 1)
    BY <1>1
  <2> HIDE DEF n
  <2>3. v \in Handle
    BY <1>1, <2>2, Assigned DEF Urb
  <2>4. /\ v.wpc = u.wpc /\ v.ret = u.ret /\ v.left = u.left /\ v.odd = u.odd
        /\ v.asked = u.asked /\ v.taken = n
        /\ v.dev = u.dev /\ v.listed = u.listed /\ v.mark = u.mark /\ v.dead = u.dead
        /\ v.urb_in = u.urb_in /\ v.urb_out = end /\ v.urb_out_busy = u.urb_out_busy
        /\ v.rpc = u.rpc /\ v.got = u.got /\ v.status = u.status
    BY <1>1 DEF Handle
  <2>5. u.left \in Nat /\ u.asked \in Nat
    BY <1>1 DEF Handle
  <2> HIDE DEF v
  <2>6. Local(u, v)
    BY <1>1, <1>5, <2>2, <2>3, <2>4, <2>5
    DEF Local, Sound, ReadHeld, WriteHeld, Counted, Idle, Gone
  <2> QED
    BY <1>2, <2>1, <2>6, LocalStep
<1> QED
  BY <1>3, <1>4, <1>5

-----------------------------------------------------------------------------
(* device_poll_thread(), and usb_close()                                   *)

PollType ==
  [pc : {"sleep", "scan", "kick", "unregister"}, todo : SUBSET Handles,
   at : Handles \cup {NoHandle}]

\* calloc() gives a handle without transfers.
LEMMA FreshIsSound ==
  ASSUME NEW v, v.rpc = v.wpc, v.rpc \in {"idle", "done"}, v.listed => v.dev # "absent",
         v.dead = FALSE, v.urb_in = "none", v.urb_out = "none", v.got = "none",
         v.odd = FALSE, v.ret = "none"
  PROVE  Sound(v) /\ Gone(v)
  BY DEF Sound, ReadHeld, WriteHeld, Counted, Gone

\* The mark is the scan's alone.
LEMMA MarkIsSound ==
  ASSUME NEW u \in Handle, Sound(u), NEW b \in BOOLEAN
  PROVE  LET v == [u EXCEPT !.mark = b]
         IN /\ v \in Handle /\ Sound(v) /\ v.mark = b
            /\ v.listed = u.listed /\ v.dev = u.dev
            /\ Idle(u) => Idle(v)
            /\ Gone(u) => Gone(v)
<1> DEFINE v == [u EXCEPT !.mark = b]
<1>1. v \in Handle
  BY Assigned
<1>2. /\ v.wpc = u.wpc /\ v.ret = u.ret /\ v.left = u.left /\ v.odd = u.odd
      /\ v.asked = u.asked /\ v.taken = u.taken
      /\ v.dev = u.dev /\ v.listed = u.listed /\ v.mark = b /\ v.dead = u.dead
      /\ v.urb_in = u.urb_in /\ v.urb_out = u.urb_out /\ v.urb_out_busy = u.urb_out_busy
      /\ v.rpc = u.rpc /\ v.got = u.got /\ v.status = u.status
  BY DEF Handle
<1> HIDE DEF v
<1>3. Sound(v) /\ (Idle(u) => Idle(v)) /\ (Gone(u) => Gone(v))
  BY <1>2 DEF Sound, ReadHeld, WriteHeld, Counted, Idle, Gone
<1> QED
  BY <1>1, <1>2, <1>3 DEF v

\* A step that replaces one handle by a sound one preserves the invariant, when the scan's
\* part of it is kept.
LEMMA ReplaceStep ==
  ASSUME IInv, NEW h \in Handles, NEW v \in Handle, Sound(v),
         h \notin Writeable => Idle(v),
         "opendir" \notin Faults => Gone(v),
         usb' = [usb EXCEPT ![h] = v],
         poll' \in PollType, closing' \in Handles \cup {NoHandle},
         poll'.pc = "unregister" => poll'.at \in Handles \ Writeable,
         "opendir" \notin Faults => \A g \in Handles : Scanned(g)'
  PROVE  IInv'
<1>1. usb \in [Handles -> Handle]
  BY DEF IInv, TypeOK
<1>2. usb'[h] = v /\ \A g \in Handles : g # h => usb'[g] = usb[g]
  BY <1>1
<1>3. TypeOK'
  BY <1>1 DEF TypeOK, PollType
<1>4. \A g \in Handles : Sound(usb'[g])
  BY <1>2 DEF IInv
<1>5. Threads'
  BY <1>2 DEF IInv, Threads, Idle
<1>6. "opendir" \notin Faults => OnlyGoneAreKicked'
  BY <1>2 DEF IInv, OnlyGoneAreKicked, Gone
<1> QED
  BY <1>3, <1>4, <1>5, <1>6 DEF IInv, Sound, ReadHeld, WriteHeld, Counted

\* A step of the scan alone.
LEMMA ScanStep ==
  ASSUME IInv, usb' = usb, poll' \in PollType, closing' = closing,
         poll'.pc = "unregister" => poll'.at \in Handles \ Writeable,
         "opendir" \notin Faults => \A g \in Handles : Scanned(g)'
  PROVE  IInv'
<1>1. TypeOK'
  BY DEF IInv, TypeOK, PollType
<1>2. \A g \in Handles : Sound(usb'[g])
  BY DEF IInv
<1>3. Threads'
  BY DEF IInv, Threads
<1>4. "opendir" \notin Faults => OnlyGoneAreKicked'
  BY DEF IInv, OnlyGoneAreKicked
<1> QED
  BY <1>1, <1>2, <1>3, <1>4 DEF IInv, Sound, ReadHeld, WriteHeld, Counted

\* What a step of the scan starts from.
LEMMA Scan ==
  ASSUME IInv
  PROVE  /\ usb \in [Handles -> Handle] /\ poll \in PollType
         /\ closing \in Handles \cup {NoHandle}
         /\ poll.todo \subseteq Handles
         /\ \A g \in Handles \ Writeable : Idle(usb[g])
         /\ "opendir" \notin Faults =>
              \A g \in Handles : Gone(usb[g]) /\ Scanned(g)
BY DEF IInv, TypeOK, PollType, Threads, Idle, OnlyGoneAreKicked, Gone

\* A scan starts with the devices that are there: a handle on the list whose device is
\* not among them is of a device that is gone.
LEMMA FindInv ==
  ASSUME IInv, find_usb_device
  PROVE  IInv'
<1>1. PICK found \in {{h \in Handles : usb[h].dev = "present"}}
                      \cup (IF "opendir" \in Faults THEN {{}} ELSE {}) :
        poll' = [pc |-> "scan", todo |-> found, at |-> NoHandle]
  BY DEF find_usb_device
<1>2. found \subseteq Handles
  BY <1>1
<1>3. poll' \in PollType /\ poll'.pc = "scan" /\ poll'.todo = found
  BY <1>1, <1>2 DEF PollType
<1>4. usb' = usb /\ closing' = closing
  BY DEF find_usb_device
<1>5. ASSUME "opendir" \notin Faults, NEW g \in Handles
      PROVE  Scanned(g)'
  <2>1. found = {h \in Handles : usb[h].dev = "present"}
    BY <1>1, <1>5
  <2>2. usb[g] \in Handle /\ Sound(usb[g])
    BY Of
  <2>3. usb[g].listed => usb[g].dev \in {"present", "gone"}
    BY <2>2 DEF Handle, Sound
  <2> QED
    BY <1>3, <1>4, <2>1, <2>3 DEF Scanned
<1> QED
  BY <1>3, <1>4, <1>5, ScanStep

\* The device of a handle on the list is seen.
LEMMA KnownInv ==
  ASSUME IInv, NEW h \in Handles, known_device(h)
  PROVE  IInv'
<1> DEFINE v == [usb[h] EXCEPT !.mark = TRUE]
<1>1. usb[h] \in Handle /\ Sound(usb[h])
  BY Of
<1>2. /\ v \in Handle /\ Sound(v) /\ v.mark = TRUE
      /\ v.listed = usb[h].listed /\ v.dev = usb[h].dev
      /\ Idle(usb[h]) => Idle(v)
      /\ Gone(usb[h]) => Gone(v)
  BY <1>1, MarkIsSound
<1>3. /\ usb' = [usb EXCEPT ![h] = v] /\ closing' = closing
      /\ poll' = [poll EXCEPT !.todo = @ \ {h}] /\ poll.pc = "scan"
  BY DEF known_device
<1> HIDE DEF v
<1>4. poll' \in PollType /\ poll'.pc = "scan" /\ poll'.todo = poll.todo \ {h}
  BY <1>3, Scan DEF PollType
<1>5. usb'[h] = v /\ \A g \in Handles : g # h => usb'[g] = usb[g]
  BY <1>3, Scan
<1>6. "opendir" \notin Faults => \A g \in Handles : Scanned(g)'
  BY <1>2, <1>3, <1>4, <1>5, Scan DEF Scanned
<1>7. h \notin Writeable => Idle(v)
  BY <1>2, Scan
<1>8. "opendir" \notin Faults => Gone(v)
  BY <1>2, Scan
<1> QED
  BY <1>2, <1>3, <1>4, <1>6, <1>7, <1>8, Scan, ReplaceStep

\* A new device is passed over, or gets a marked handle.
LEMMA RegisterInv ==
  ASSUME IInv, NEW h \in Handles, register_device(h)
  PROVE  IInv'
<1>1. /\ closing' = closing /\ poll' = [poll EXCEPT !.todo = @ \ {h}]
      /\ poll.pc = "scan" /\ ~usb[h].listed
  BY DEF register_device
<1>2. poll' \in PollType /\ poll'.pc = "scan" /\ poll'.todo = poll.todo \ {h}
  BY <1>1, Scan DEF PollType
<1>3. CASE usb' = usb
  <2>1. "opendir" \notin Faults => \A g \in Handles : Scanned(g)'
    BY <1>1, <1>2, <1>3, Scan DEF Scanned
  <2> QED
    BY <1>1, <1>2, <1>3, <2>1, ScanStep
<1>4. CASE usb' = [usb EXCEPT ![h] =
                     Fresh("present", TRUE, IF h \in Writeable THEN "idle" ELSE "done")]
  <2> DEFINE pc == IF h \in Writeable THEN "idle" ELSE "done"
             v == Fresh("present", TRUE, pc)
  <2>1. pc \in {"idle", "done"} /\ (h \notin Writeable => pc = "done")
    OBVIOUS
  <2>2. usb' = [usb EXCEPT ![h] = v]
    BY <1>4
  <2> HIDE DEF pc
  <2>3. /\ v \in Handle /\ Sound(v) /\ Gone(v) /\ v.rpc = pc /\ v.wpc = pc
        /\ v.dev = "present" /\ v.listed = TRUE /\ v.mark = TRUE
    <3>1. v \in Handle
      BY <2>1 DEF Fresh, Handle, Urb, Status, Reader, Got, Writer, WokenBy, Ret
    <3>2. /\ v.rpc = pc /\ v.wpc = pc /\ v.dev = "present" /\ v.listed = TRUE /\ v.mark = TRUE
          /\ v.dead = FALSE /\ v.urb_in = "none" /\ v.urb_out = "none" /\ v.got = "none"
          /\ v.odd = FALSE /\ v.ret = "none"
      BY DEF Fresh
    <3> HIDE DEF v
    <3>3. Sound(v) /\ Gone(v)
      BY <2>1, <3>2, FreshIsSound
    <3> QED
      BY <3>1, <3>2, <3>3
  <2> HIDE DEF v
  <2>4. usb'[h] = v /\ \A g \in Handles : g # h => usb'[g] = usb[g]
    BY <2>2, Scan
  <2>5. "opendir" \notin Faults => \A g \in Handles : Scanned(g)'
    BY <1>1, <1>2, <2>3, <2>4, Scan DEF Scanned
  <2>6. h \notin Writeable => Idle(v)
    BY <2>1, <2>3 DEF Idle
  <2> QED
    BY <1>1, <1>2, <2>2, <2>3, <2>5, <2>6, Scan, ReplaceStep
<1> QED
  BY <1>3, <1>4 DEF register_device

\* The end of the scan: what is on the list and not marked is of a device that is gone.
LEMMA LockListInv ==
  ASSUME IInv, LockList
  PROVE  IInv'
<1>1. /\ usb' = usb /\ closing' = closing /\ poll.pc = "scan" /\ poll.todo = {}
      /\ poll' = [poll EXCEPT !.pc = "kick", !.todo = Listed]
  BY DEF LockList
<1>2. Listed \subseteq Handles
  BY DEF Listed
<1>3. poll' \in PollType /\ poll'.pc = "kick" /\ poll'.todo = Listed
  BY <1>1, <1>2, Scan DEF PollType
<1>4. "opendir" \notin Faults => \A g \in Handles : Scanned(g)'
  BY <1>1, <1>3, Scan DEF Scanned, Listed
<1> QED
  BY <1>1, <1>3, <1>4, ScanStep

\* One handle of the list: unmarked, kicked, or about to be unregistered.
LEMMA KickInv ==
  ASSUME IInv, NEW h \in Handles, kick_disconnected_devices(h)
  PROVE  IInv'
<1>1. poll.pc = "kick" /\ h \in poll.todo /\ closing' = closing
  BY DEF kick_disconnected_devices
<1>2. usb[h] \in Handle /\ Sound(usb[h])
  BY Of
<1>3. CASE usb[h].mark
  <2> DEFINE v == [usb[h] EXCEPT !.mark = FALSE]
  <2>1. usb' = [usb EXCEPT ![h] = v] /\ poll' = [poll EXCEPT !.todo = @ \ {h}]
    BY <1>3 DEF kick_disconnected_devices
  <2>2. /\ v \in Handle /\ Sound(v)
        /\ Idle(usb[h]) => Idle(v)
        /\ Gone(usb[h]) => Gone(v)
    BY <1>2, MarkIsSound
  <2> HIDE DEF v
  <2>3. poll' \in PollType /\ poll'.pc = "kick" /\ poll'.todo = poll.todo \ {h}
    BY <1>1, <2>1, Scan DEF PollType
  <2>4. \A g \in Handles : g # h => usb'[g] = usb[g]
    BY <2>1, Scan
  <2>5. "opendir" \notin Faults => \A g \in Handles : Scanned(g)'
    BY <1>1, <2>3, <2>4, Scan DEF Scanned
  <2>6. h \notin Writeable => Idle(v)
    BY <2>2, Scan
  <2>7. "opendir" \notin Faults => Gone(v)
    BY <2>2, Scan
  <2> QED
    BY <1>1, <2>1, <2>2, <2>3, <2>5, <2>6, <2>7, Scan, ReplaceStep
<1>4. CASE ~usb[h].mark /\ (h \in Writeable \/ usb[h].dead)
  <2> DEFINE v == Kicked(usb[h])
  <2>1. usb' = [usb EXCEPT ![h] = v] /\ poll' = [poll EXCEPT !.todo = @ \ {h}]
    BY <1>4 DEF kick_disconnected_devices
  <2>2. /\ v \in Handle /\ Sound(v) /\ v.dev = usb[h].dev
        /\ Idle(usb[h]) => Idle(v)
    BY <1>2, KickedIsSound
  <2> HIDE DEF v
  <2>3. poll' \in PollType /\ poll'.pc = "kick" /\ poll'.todo = poll.todo \ {h}
    BY <1>1, <2>1, Scan DEF PollType
  <2>4. \A g \in Handles : g # h => usb'[g] = usb[g]
    BY <2>1, Scan
  <2>5. "opendir" \notin Faults => \A g \in Handles : Scanned(g)'
    BY <1>1, <2>3, <2>4, Scan DEF Scanned
  <2>6. h \notin Writeable => Idle(v)
    BY <2>2, Scan
  <2>7. "opendir" \notin Faults => Gone(v)
    <3>1. "opendir" \notin Faults => usb[h].dev = "gone"
      BY <1>1, <1>4, Scan DEF Scanned
    <3> QED
      BY <2>2, <3>1 DEF Gone
  <2> QED
    BY <1>1, <2>1, <2>2, <2>3, <2>5, <2>6, <2>7, Scan, ReplaceStep
<1>5. CASE ~usb[h].mark /\ ~(h \in Writeable \/ usb[h].dead)
  <2>1. usb' = usb /\ poll' = [poll EXCEPT !.pc = "unregister", !.todo = @ \ {h}, !.at = h]
    BY <1>5 DEF kick_disconnected_devices
  <2>2. /\ poll' \in PollType /\ poll'.pc = "unregister" /\ poll'.at = h
        /\ poll'.todo = poll.todo \ {h}
    BY <2>1, Scan DEF PollType
  <2>3. "opendir" \notin Faults => \A g \in Handles : Scanned(g)'
    BY <1>1, <2>1, <2>2, Scan DEF Scanned
  <2> QED
    BY <1>1, <1>5, <2>1, <2>2, <2>3, ScanStep
<1> QED
  BY <1>3, <1>4, <1>5

\* unregister_usb_transport(): the handle has no threads, so it has no transfers.
LEMMA UnregisterInv ==
  ASSUME IInv, Unregister
  PROVE  IInv'
<1> DEFINE h == poll.at
           u == usb[h]
           v == [u EXCEPT !.dead = TRUE]
<1>1. /\ poll.pc = "unregister" /\ closing' = closing /\ usb' = [usb EXCEPT ![h] = v]
      /\ poll' = [poll EXCEPT !.pc = "kick", !.at = NoHandle]
  BY DEF Unregister
<1>2. h \in Handles \ Writeable
  BY <1>1 DEF IInv, Threads
<1>3. u \in Handle /\ Sound(u) /\ Idle(u)
  BY <1>2, Of, Scan
<1>4. poll' \in PollType /\ poll'.pc = "kick" /\ poll'.todo = poll.todo
  BY <1>1, Scan DEF PollType
<1>5. v \in Handle
  BY <1>3, Assigned
<1>6. /\ v.wpc = u.wpc /\ v.ret = u.ret /\ v.left = u.left /\ v.odd = u.odd
      /\ v.asked = u.asked /\ v.taken = u.taken
      /\ v.dev = u.dev /\ v.listed = u.listed /\ v.mark = u.mark /\ v.dead
      /\ v.urb_in = u.urb_in /\ v.urb_out = u.urb_out
      /\ v.rpc = u.rpc /\ v.got = u.got
  BY <1>3 DEF Handle
<1> HIDE DEF v
<1>7. Sound(v) /\ Idle(v) /\ Gone(v)
  BY <1>3, <1>6 DEF Sound, ReadHeld, WriteHeld, Counted, Idle, Gone
<1>8. usb'[h] = v /\ \A g \in Handles : g # h => usb'[g] = usb[g]
  BY <1>1, <1>2, Scan
<1>9. "opendir" \notin Faults => \A g \in Handles : Scanned(g)'
  BY <1>1, <1>4, <1>6, <1>8, Scan DEF Scanned
<1> QED
  BY <1>1, <1>2, <1>4, <1>5, <1>7, <1>9, Scan, ReplaceStep

\* The thread sleeps until the next scan.
LEMMA SleepInv ==
  ASSUME IInv, Sleep
  PROVE  IInv'
<1>1. usb' = usb /\ closing' = closing /\ poll' = [poll EXCEPT !.pc = "sleep"]
  BY DEF Sleep
<1>2. poll' \in PollType /\ poll'.pc = "sleep"
  BY <1>1, Scan DEF PollType
<1>3. \A g \in Handles : Scanned(g)'
  BY <1>2 DEF Scanned
<1> QED
  BY <1>1, <1>2, <1>3, ScanStep

\* usb_close() takes the handle off the list, which no scan is going through.
LEMMA CloseInv ==
  ASSUME IInv, usb_close
  PROVE  IInv'
<1> DEFINE h == closing
           v == Fresh(usb[h].dev, FALSE, "done")
<1>1. /\ h \in Handles /\ closing' = NoHandle /\ poll' = poll
      /\ usb' = [usb EXCEPT ![h] = v] /\ poll.pc \notin {"kick", "unregister"}
  BY Scan DEF usb_close
<1>2. usb[h].dev \in {"absent", "present", "gone"}
  BY <1>1, Of DEF Handle
<1>3. /\ v \in Handle /\ Sound(v) /\ Gone(v) /\ v.rpc = "done" /\ v.wpc = "done"
      /\ v.listed = FALSE
  <2>1. v \in Handle
    BY <1>2 DEF Fresh, Handle, Urb, Status, Reader, Got, Writer, WokenBy, Ret
  <2>2. /\ v.rpc = "done" /\ v.wpc = "done" /\ v.listed = FALSE
        /\ v.dead = FALSE /\ v.urb_in = "none" /\ v.urb_out = "none" /\ v.got = "none"
        /\ v.odd = FALSE /\ v.ret = "none"
    BY DEF Fresh
  <2> HIDE DEF v
  <2>3. Sound(v) /\ Gone(v)
    BY <2>2, FreshIsSound
  <2> QED
    BY <2>1, <2>2, <2>3
<1> HIDE DEF v
<1>4. usb'[h] = v /\ \A g \in Handles : g # h => usb'[g] = usb[g]
  BY <1>1, Scan
<1>5. "opendir" \notin Faults => \A g \in Handles : Scanned(g)'
  BY <1>1, <1>3, <1>4, Scan DEF Scanned
<1> QED
  BY <1>1, <1>3, <1>5, Scan, ReplaceStep DEF Idle

-----------------------------------------------------------------------------
(* The results                                                             *)

\* Before device_poll_thread() has run there is no handle.
LEMMA InitInv == Init => IInv
<1> SUFFICES ASSUME Init
             PROVE  IInv
  OBVIOUS
<1> DEFINE f == Fresh("absent", FALSE, "done")
<1>1. /\ f \in Handle /\ Sound(f) /\ Gone(f) /\ f.rpc = "done" /\ f.wpc = "done"
  <2>1. f \in Handle
    BY DEF Fresh, Handle, Urb, Status, Reader, Got, Writer, WokenBy, Ret
  <2>2. /\ f.rpc = "done" /\ f.wpc = "done" /\ f.listed = FALSE
        /\ f.dead = FALSE /\ f.urb_in = "none" /\ f.urb_out = "none" /\ f.got = "none"
        /\ f.odd = FALSE /\ f.ret = "none"
    BY DEF Fresh
  <2> HIDE DEF f
  <2>3. Sound(f) /\ Gone(f)
    BY <2>2, FreshIsSound
  <2> QED
    BY <2>1, <2>2, <2>3
<1>2. usb = [h \in Handles |-> f]
  BY DEF Init
<1> HIDE DEF f
<1>3. poll = [pc |-> "sleep", todo |-> {}, at |-> NoHandle] /\ closing = NoHandle
  BY DEF Init
<1>4. TypeOK /\ Threads
  BY <1>1, <1>2, <1>3 DEF TypeOK, Threads
<1>5. OnlyGoneAreKicked /\ \A h \in Handles : Scanned(h) /\ Sound(usb[h])
  BY <1>1, <1>2, <1>3 DEF OnlyGoneAreKicked, Gone, Scanned
<1> QED
  BY <1>4, <1>5 DEF IInv

\* Every step keeps the invariant.
LEMMA NextInv ==
  ASSUME Bounds, IInv, [Next]_vars
  PROVE  IInv'
<1>1. CASE find_usb_device
  BY <1>1, FindInv
<1>2. CASE LockList
  BY <1>2, LockListInv
<1>3. CASE Unregister
  BY <1>3, UnregisterInv
<1>4. CASE Sleep
  BY <1>4, SleepInv
<1>5. ASSUME NEW h \in Handles, known_device(h)
      PROVE  IInv'
  BY <1>5, KnownInv
<1>6. ASSUME NEW h \in Handles, register_device(h)
      PROVE  IInv'
  BY <1>6, RegisterInv
<1>7. ASSUME NEW h \in Handles, kick_disconnected_devices(h)
      PROVE  IInv'
  BY <1>7, KickInv
<1>8. CASE PollStep
  BY <1>1, <1>2, <1>3, <1>4, <1>5, <1>6, <1>7, <1>8 DEF PollStep
<1>9. CASE usb_close
  BY <1>9, CloseInv
<1>10. ASSUME NEW h \in Handles, ReaderStep(h)
       PROVE  IInv'
  BY <1>10, BulkReadInv, EnterReapInv, ReapInv, ReapedInv, ReaderKicksInv,
     ReaderUnrefInv
  DEF ReaderStep
<1>11. ASSUME NEW h \in Handles, BadPacket(h)
       PROVE  IInv'
  BY <1>11, BadPacketInv
<1>12. ASSUME NEW h \in Handles, usb_write(h)
       PROVE  IInv'
  BY <1>12, WriteInv
<1>13. ASSUME NEW h \in Handles, WriterStep(h)
       PROVE  IInv'
  BY <1>13, BulkWriteInv, TimeoutInv, WokenInv, WriterUnrefInv DEF WriterStep
<1>14. ASSUME NEW h \in Handles, WriterEnds(h)
       PROVE  IInv'
  BY <1>14, WriterEndsInv
<1>15. ASSUME NEW h \in Handles, Plug(h) \/ Unplug(h) \/ Complete(h)
       PROVE  IInv'
  BY <1>15, PlugInv, UnplugInv, CompleteInv
<1>16. CASE UNCHANGED vars
  BY <1>16 DEF vars, IInv, TypeOK, Sound, ReadHeld, WriteHeld, Counted, Threads,
               OnlyGoneAreKicked, Scanned
<1> QED
  BY <1>8, <1>9, <1>10, <1>11, <1>12, <1>13, <1>14, <1>15, <1>16 DEF Next

\* The inductive invariant holds of usb_linux.c for any number of devices, which may be
\* written or not, whatever fails, however long a usb_write() is.
THEOREM Invariance == ASSUME Bounds PROVE Spec => []IInv
<1>1. Init => IInv
  BY InitInv
<1>2. IInv /\ [Next]_vars => IInv'
  BY NextInv
<1> QED
  BY <1>1, <1>2, PTL DEF Spec

\* Whatever fails, a usb_bulk_read() or usb_bulk_write() that has returned has left no
\* transfer with the kernel that could still be carried out on the caller's buffer.
THEOREM BuffersReturnedAlways == ASSUME Bounds PROVE Spec => []BuffersReturned
<1>1. IInv => BuffersReturned
  BY DEF IInv, Sound, ReadHeld, WriteHeld, BuffersReturned
<1> QED
  BY <1>1, Invariance, PTL

\* As long as the bus can be read, and no transfer is of ETIMEDOUT bytes, for which a
\* timeout passes as the length, usb_write() reports success only for what the device
\* has taken, buffers are returned, and the scan kicks only devices that are gone.
THEOREM UsbSoundAlways ==
  ASSUME Bounds, "110" \notin Faults, "opendir" \notin Faults
  PROVE  Spec => []UsbSound
<1>1. IInv => WriteIsTrue
  BY DEF IInv, Sound, Counted, WriteIsTrue
<1>2. IInv => OnlyGoneAreKicked
  BY DEF IInv
<1>3. IInv => BuffersReturned
  BY DEF IInv, Sound, ReadHeld, WriteHeld, BuffersReturned
<1>4. IInv => UsbSound
  BY <1>1, <1>2, <1>3 DEF UsbSound
<1> QED
  BY <1>4, Invariance, PTL

=============================================================================

----------------------------- MODULE MCLiveness -----------------------------
(***************************************************************************)
(* What must eventually happen, part by part: a behaviour picks one of     *)
(* Parts and runs it under the fairness of its threads, and the others     *)
(* rest in their initial state.  The instances are the smallest in which   *)
(* something can wait for something else.                                  *)
(***************************************************************************)
EXTENDS Integers

CONSTANTS Parts, t1, t2, th1, th2, i1, i2, i3, h1, none

VARIABLES
  part,
  pageFlip, swapInterval, changes, currentBuffer, currentIdx, is_avail, disp,
  locks, post_pc, buffer, nxtIdx, waited, dpc, nxtBuf, cur_buf, screen,
  now, next, prev, timeout, info, timer_pipe, caller, timer_pc, deadline,
  timer_rfds, ev, saved, removed, fired, taken,
  main, conn_pc, wakefd, pipe, watch_table, rfds, pending, fdtab, s_fdCommand,
  cmdFd, conn, req, origin, pendingRequests, cancelled, writer, spc, job, fd,
  stream, unsol, debugs,
  wakelock, last, timers, param, alloc, overtaken, early, wake_pc, ptr, lpc, lptr,
  messages,
  socks, prog, wire, xfde,
  tr, nxt, prv, slots, regq, toMain, toIn, sock, tr_fds, tr_main, alive,
  mLock, call, op, libmmcamera, mMsgEnabled, mCameraRunning, mPreviewInitialized,
  camframe_timeout_flag, heaps, frame, msgEnabled, terminated, mFrameThreadRunning,
  mReleasedRecordingFrame, lent, snap, mSnapshotFormat, mSnapshotThreadRunning,
  mInSnapshotMode, mShutterPending, mCallbackLock, jpeg, mJpegThreadRunning, mJpegSize,
  af, mAutoFocusThreadRunning, cam_cancelled, pictures, told, crash,
  cmd, kind, local, remote, kept, copy, up, down, broken, sync_pc, sync_req, list, dirs, k,
  flag, ignored, opened, ret, sync_spc, out, cur, sync_fd,
  usb, poll, closing

postVars == <<pageFlip, swapInterval, changes, currentBuffer, currentIdx, is_avail, disp,
              locks, post_pc, buffer, nxtIdx, waited, dpc, nxtBuf, cur_buf, screen>>
timerVars == <<now, next, prev, timeout, info, timer_pipe, caller, timer_pc, deadline,
               timer_rfds, ev, saved, removed, fired, taken>>
connVars == <<main, conn_pc, wakefd, pipe, watch_table, rfds, pending, fdtab, s_fdCommand,
              cmdFd, conn, req, origin, pendingRequests, cancelled, writer, spc, job, fd,
              stream, unsol, debugs>>
wakeVars == <<wakelock, last, timers, param, alloc, overtaken, early, wake_pc, ptr, lpc,
              lptr, messages>>
streamVars == <<socks, prog, wire, xfde>>
transportVars == <<tr, nxt, prv, slots, regq, toMain, toIn, sock, tr_fds, tr_main, alive>>
cameraVars == <<mLock, call, op, libmmcamera, mMsgEnabled, mCameraRunning,
                mPreviewInitialized, camframe_timeout_flag, heaps, frame, msgEnabled,
                terminated, mFrameThreadRunning, mReleasedRecordingFrame, lent, snap,
                mSnapshotFormat, mSnapshotThreadRunning, mInSnapshotMode,
                mShutterPending, mCallbackLock, jpeg, mJpegThreadRunning, mJpegSize, af,
                mAutoFocusThreadRunning, cam_cancelled, pictures, told, crash>>
syncVars == <<cmd, kind, local, remote, kept, copy, up, down, broken, sync_pc, sync_req, list,
              dirs, k, flag, ignored, opened, ret, sync_spc, out, cur, sync_fd>>
usbVars == <<usb, poll, closing>>
vars == <<part, postVars, timerVars, connVars, wakeVars, streamVars, transportVars,
          cameraVars, syncVars, usbVars>>

Post == INSTANCE FramebufferPost WITH
  pc <- post_pc, PageFlips <- {TRUE}, SwapIntervals <- {0, 1}, MaxChanges <- 0,
  IoctlFails <- TRUE, Spurious <- FALSE

\* Two timers, of which the second may be due before the first.
Timer == INSTANCE RilTimer WITH
  pipe <- timer_pipe, pc <- timer_pc, rfds <- timer_rfds, Timers <- {t1, t2},
  Threads <- {th1}, Delays <- {0, 1}, MaxTime <- 2

\* Two clients, of which the second waits until the first has gone away.
Conn == INSTANCE RilConnection WITH
  pc <- conn_pc, Conns <- 1..2, Requests <- {}, LocalRequests <- {},
  Threads <- {th1}, MaxUnsol <- 0, Faults <- {}

Wake == INSTANCE RilWakeLock WITH
  pc <- wake_pc, Threads <- {th1, th2}, Infos <- {i1, i2, i3}, MaxMessages <- 2,
  Overlap <- TRUE

Stream == INSTANCE AdbStream WITH
  sock <- socks, MaxStreams <- 1, Units <- 1, MAX_PAYLOAD <- 1, Openers <- {"host"},
  HowOpened <- {"smart"}, Writers <- {"host", "device"},
  Closers <- {"host", "device"}

\* A usb device and a client.
Transport == INSTANCE AdbTransport WITH
  fds <- tr_fds, main <- tr_main, Transports <- {"u1"},
  Kind <- [t \in {"u1"} |-> "usb"], Serial <- [t \in {"u1"} |-> "A"],
  Port <- [t \in {"u1"} |-> 0], Clients <- {"c1"}, SlotMax <- 2, QueueMax <- 1

\* Previews, two pictures and focusing, of which each may have to wait for the others.
Camera == INSTANCE CameraHardware WITH
  cancelled <- cam_cancelled,
  Calls <- {"startPreview", "takePicture", "autoFocus"},
  Enabled <- {{"preview_frame", "focus", "shutter", "raw_image", "compressed_image"}},
  Msgs <- {}, Formats <- {"jpeg"}, Faults <- {"jpeg_encode", "jpeg_event", "thread"}, Dlopen <- FALSE,
  HasAutoFocus <- TRUE, MaxPictures <- 2, JpegHeapSize <- 1

\* Files of one chunk and a stream that holds one message in each direction.
Sync == INSTANCE FileSync WITH
  pc <- sync_pc, req <- sync_req, spc <- sync_spc, fd <- sync_fd,
  Files <- 1..2, Chunks <- {1}, Capacity <- 1, Commands <- {"sync", "pull_dir"},
  Kinds <- {"reg"}, Faults <- {"write", "read", "break"}

\* Up to four files, one more than "adb sync" can ask for without a standstill.
Many == INSTANCE FileSync WITH
  pc <- sync_pc, req <- sync_req, spc <- sync_spc, fd <- sync_fd,
  Files <- 1..4, Chunks <- {1}, Capacity <- 1, Commands <- {"sync"},
  Kinds <- {"reg", "special"}, Faults <- {}

\* A usb device of a Linux host, which is written to.
Usb == INSTANCE UsbLinux WITH
  Handles <- {h1}, Writeable <- {h1}, NoHandle <- none, MaxChunks <- 1,
  Markers <- {FALSE}, Faults <- {"stuck"}

\* A single state of FileSync to rest in.
SyncRests ==
  /\ cmd = "push" /\ kind = <<"reg", "reg">> /\ local = [f \in 1..2 |-> Sync!ABSENT]
  /\ remote = local /\ copy = local /\ up = << >> /\ down = << >> /\ broken = FALSE
  /\ sync_pc = "exit" /\ sync_req = << >> /\ list = << >> /\ dirs = << >> /\ k = 1
  /\ flag = {} /\ ignored = {} /\ kept = {} /\ opened = FALSE /\ ret = 1
  /\ sync_spc = "closed" /\ out = << >> /\ cur = 0 /\ sync_fd = -1

InPost ==
  /\ part = "post"
  /\ UNCHANGED <<part, timerVars, connVars, wakeVars, streamVars,
                 transportVars, cameraVars, syncVars, usbVars>>
InTimer ==
  /\ part = "timer"
  /\ UNCHANGED <<part, postVars, connVars, wakeVars, streamVars,
                 transportVars, cameraVars, syncVars, usbVars>>
InConn ==
  /\ part = "conn"
  /\ UNCHANGED <<part, postVars, timerVars, wakeVars, streamVars,
                 transportVars, cameraVars, syncVars, usbVars>>
InWake ==
  /\ part = "wake"
  /\ UNCHANGED <<part, postVars, timerVars, connVars, streamVars,
                 transportVars, cameraVars, syncVars, usbVars>>
InStream ==
  /\ part = "stream"
  /\ UNCHANGED <<part, postVars, timerVars, connVars, wakeVars,
                 transportVars, cameraVars, syncVars, usbVars>>
InTransport ==
  /\ part = "transport"
  /\ UNCHANGED <<part, postVars, timerVars, connVars, wakeVars,
                 streamVars, cameraVars, syncVars, usbVars>>
InCamera ==
  /\ part = "camera"
  /\ UNCHANGED <<part, postVars, timerVars, connVars, wakeVars,
                 streamVars, transportVars, syncVars, usbVars>>
InSync ==
  /\ part = "sync"
  /\ UNCHANGED <<part, postVars, timerVars, connVars, wakeVars,
                 streamVars, transportVars, cameraVars, usbVars>>
InMany ==
  /\ part = "many"
  /\ UNCHANGED <<part, postVars, timerVars, connVars, wakeVars,
                 streamVars, transportVars, cameraVars, usbVars>>
InUsb ==
  /\ part = "usb"
  /\ UNCHANGED <<part, postVars, timerVars, connVars, wakeVars,
                 streamVars, transportVars, cameraVars, syncVars>>

Init ==
  /\ part \in Parts
  /\ Post!Init /\ Timer!Init /\ Conn!Init /\ Wake!Init /\ Stream!Init
  /\ Transport!Init /\ Camera!Init /\ Usb!Init
  /\ CASE part = "sync" -> Sync!Init [] part = "many" -> Many!Init [] OTHER -> SyncRests
  /\ part = "many" => \A f \in 1..4 : local[f].t = 1 /\ remote[f] \in {Many!ABSENT, local[f]}
  /\ part # "post" => pageFlip /\ swapInterval = 1

Next ==
  \/ InPost /\ Post!Next
  \/ InTimer /\ Timer!Next
  \/ InConn /\ Conn!Next
  \/ InWake /\ Wake!Next
  \/ InStream /\ Stream!Next
  \/ InTransport /\ Transport!Next
  \/ InCamera /\ Camera!Next
  \/ InSync /\ Sync!Next
  \/ InMany /\ Many!Next
  \/ InUsb /\ Usb!Next

\* The fairness of each module's FairSpec; a part that rests has no steps.  Only one
\* part runs in a behaviour, so that strong fairness of a disjunction of steps of
\* different parts is strong fairness of the step of the part that runs.
WeakFairness ==
  /\ WF_postVars(part = "post" /\ Post!FbPost)
  /\ WF_postVars(part = "post" /\ Post!DispLoop)
  /\ WF_timerVars(part = "timer" /\ timer_pc # "undefined" /\ Timer!Tick)
  /\ WF_timerVars(part = "timer" /\ Timer!Works)
  /\ WF_timerVars(part = "timer" /\ timer_pc # "undefined" /\ Timer!TriggerEvLoop(th1))
  /\ WF_connVars(part = "conn" /\ Conn!Register)
  /\ WF_connVars(part = "conn" /\ Conn!EventLoop)
  /\ WF_wakeVars(part = "wake" /\ Wake!EventLoop)
  /\ \A th \in {th1, th2} : WF_wakeVars(part = "wake" /\ Wake!Handle(th))
  /\ \A side \in {"host", "device"} :
       /\ WF_streamVars(part = "stream" /\ Stream!TransportEvent(side))
       /\ WF_streamVars(part = "stream" /\ Stream!SocketEvent(side, 1))
       /\ WF_streamVars(/\ part = "stream"
                        /\ \E writable \in SUBSET {1} : Stream!Select(side, writable))
  /\ WF_transportVars(part = "transport" /\ Transport!Request("c1"))
  /\ WF_transportVars(part = "transport" /\ Transport!OutputThread("u1"))
  /\ WF_transportVars(part = "transport" /\ Transport!InputThread("u1"))
  /\ WF_cameraVars(part = "camera" /\ Camera!ApiStep)
  /\ WF_cameraVars(part = "camera" /\ Camera!FrameThread)
  /\ WF_cameraVars(part = "camera" /\ Camera!SnapshotThread)
  /\ WF_cameraVars(part = "camera" /\ Camera!receiveJpegPicture)
  /\ WF_cameraVars(part = "camera" /\ Camera!FocusThread)
  /\ WF_syncVars(part = "sync" /\ Sync!ClientStep)
  /\ WF_syncVars(part = "sync" /\ Sync!ServiceStep)
  /\ WF_syncVars(part = "many" /\ Many!ClientStep)
  /\ WF_syncVars(part = "many" /\ Many!ServiceStep)
  /\ WF_usbVars(part = "usb" /\ Usb!PollStep)
  /\ WF_usbVars(part = "usb" /\ Usb!ReaderStep(h1))
  /\ WF_usbVars(part = "usb" /\ Usb!WriterStep(h1))

StrongFairness ==
  /\ SF_vars(\/ InTimer /\ Timer!Select
             \/ InConn /\ Conn!Send(th1)
             \/ InTransport /\ Transport!MainRegistration
             \/ InUsb /\ Usb!WriterEnds(h1))
  /\ SF_vars(\/ InConn /\ Conn!Send("loop")
             \/ InTransport /\ Transport!MainPacket("u1")
             \/ InUsb /\ Usb!usb_close)

Spec == Init /\ [][Next]_vars /\ WeakFairness /\ StrongFairness

-----------------------------------------------------------------------------

(* One part runs in a behaviour, so that one "leads to" can say what       *)
(* several parts promise.                                                  *)

\* fb_post() returns: the condition it waits for is signalled.  The calls of the
\* camera service return, although they wait with mLock for threads to end, and a
\* picture that was asked for is delivered, unless the snapshot thread has left the
\* snapshot mode before takePicture() entered it, or the encoder has failed.  Every
\* push, sync and pull of adb ends, although both of its ends block while they write and
\* read, unless a sync of many files comes to a standstill while it asks for their times.
CallsReturn ==
  /\ (\/ part = "post" /\ post_pc # "idle"
      \/ part = "camera" /\ op # "none"
      \/ part \in {"sync", "many"} /\ sync_pc = "start")
       ~> (\/ part = "post" /\ post_pc = "idle"
           \/ part = "camera" /\ (op = "none" \/ Camera!Hangs)
           \/ part \in {"sync", "many"} /\ sync_pc = "exit" /\ sync_spc = "closed"
           \/ part = "many" /\ Many!SyncStandstill)
  /\ Camera!PictureComes

\* In libril every timer fires or is removed, also one that is inserted while
\* select() waits for a later one or for ever, unless a timer was removed while the loop
\* had a pointer to it; whoever connects is accepted, also when
\* the one before has gone away, and in whatever order the loop and RIL_register()
\* start; and the wake lock of unsolicited messages is released again.
EventLoopServes ==
  \A n \in 1..2 :
    LET t == <<t1, t2>>[n]
    IN (\/ part = "timer" /\ info[t] = "live"
        \/ part = "conn" /\ conn[n] = "backlog" /\ \A d \in 1..2 : conn[d] # "open"
        \/ part = "wake" /\ wakelock)
         ~> (\/ part = "timer" /\ (fired[t] > 0 \/ t \in removed \/ taken # {})
             \/ part = "conn" /\ conn[n] # "backlog"
             \/ part = "wake" /\ ~wakelock)

\* When one end of a connected adb stream closes, the other end closes too and both
\* sockets are freed; when the connection of a transport fails, the transport is
\* removed and freed and its clients are closed, or the server has stopped; and the
\* handle of a usb device that is pulled out is closed, whatever its threads wait for.
StreamsEnd ==
  \A side \in {"host", "device"} :
    (\/ part = "stream" /\ Stream!Closing(side, 1, 1)
     \/ part = "transport" /\ Transport!Failed("u1")
     \/ part = "usb" /\ usb[h1].dev = "gone" /\ usb[h1].listed)
      ~> (\/ part = "stream" /\ Stream!BothFreed(side, 1, 1)
          \/ part = "transport" /\ Transport!CleanedUp("u1")
          \/ part = "usb" /\ ~usb[h1].listed)
=============================================================================

--------------------------- MODULE CameraHardware ---------------------------
(***************************************************************************)
(* libcamera/QualcommCameraHardware.cpp: preview, recording, pictures and  *)
(* focus of one started camera.                                            *)
(*                                                                         *)
(* The calls of the camera service run one at a time under mLock, which    *)
(* they keep while they wait.  Beside them run the frame thread, which the *)
(* camera library drives, the snapshot thread, the jpeg encoder of the     *)
(* library and the focus thread; the video recorder returns its frames     *)
(* without mLock.  release() may be called from the callback of the frame  *)
(* thread, as the comment in deinitPreview() says.                         *)
(*                                                                         *)
(* The target is MSM7627, which storeTargetType() forces.  Callbacks are   *)
(* set.  A condition is modelled by its signal: a thread that waits is     *)
(* woken by one, and a signal with no one waiting is lost.  The library is *)
(* external: it calls the registered callbacks, and camframe_terminate()   *)
(* ends cam_frame() after the callback in progress.                        *)
(***************************************************************************)
EXTENDS Integers, FiniteSets

CONSTANTS
  Calls,          \* calls that the service makes
  Enabled,        \* sets of messages that are enabled at the start
  Msgs,           \* messages that the service enables and disables later
  Formats,        \* picture formats that are asked for
  Faults,         \* calls below that may fail
  Dlopen,         \* the build loads the library: only the timeout callback is set
  HasAutoFocus,   \* sensorType->hasAutoFocusSupport
  MaxPictures,    \* bound: pictures taken
  JpegHeapSize    \* size of mJpegHeap, in fragments

VARIABLES
  mLock, call, op,        \* who is in a call, which one, and its next step
  libmmcamera, mMsgEnabled, mCameraRunning, mPreviewInitialized,
  camframe_timeout_flag, heaps,             \* the heaps that are not NULL
  frame, msgEnabled, terminated,            \* the frame thread
  mFrameThreadRunning,
  mReleasedRecordingFrame, lent,            \* frames that the recorder has
  snap, mSnapshotFormat, mSnapshotThreadRunning, mInSnapshotMode, mShutterPending,
  mCallbackLock,                            \* the snapshot thread has it
  jpeg, mJpegThreadRunning, mJpegSize,      \* the encoder
  af, mAutoFocusThreadRunning, cancelled,   \* the focus thread
  pictures,                                 \* how many have been asked for
  told,                                     \* notifications for the last picture
  crash                                     \* a NULL heap has been used

api == <<mLock, call, op>>
preview == <<mCameraRunning, mPreviewInitialized, camframe_timeout_flag>>
frames == <<frame, msgEnabled, terminated, mFrameThreadRunning>>
record == <<mReleasedRecordingFrame, lent>>
snapshot == <<snap, mSnapshotFormat, mSnapshotThreadRunning, mInSnapshotMode,
              mShutterPending, mCallbackLock>>
encoder == <<jpeg, mJpegThreadRunning, mJpegSize>>
focus == <<af, mAutoFocusThreadRunning, cancelled>>
ghost == <<pictures, told, crash>>
vars == <<api, libmmcamera, mMsgEnabled, preview, heaps, frames, record, snapshot,
          encoder, focus, ghost>>

-----------------------------------------------------------------------------

RawHeaps == {"thumbnail", "jpeg", "raw", "display"}

Init ==
  /\ mLock = "nobody" /\ call = "none" /\ op = "none"
  /\ libmmcamera = TRUE /\ mMsgEnabled \in Enabled
  /\ mCameraRunning = FALSE /\ mPreviewInitialized = FALSE
  /\ camframe_timeout_flag = FALSE /\ heaps = {}
  /\ frame = "none" /\ msgEnabled = {} /\ terminated = FALSE
  /\ mFrameThreadRunning = FALSE
  /\ mReleasedRecordingFrame = FALSE /\ lent = 0
  /\ snap = "none" /\ mSnapshotFormat = "none" /\ mSnapshotThreadRunning = FALSE
  /\ mInSnapshotMode = FALSE /\ mShutterPending = FALSE /\ mCallbackLock = FALSE
  /\ jpeg = "idle" /\ mJpegThreadRunning = FALSE /\ mJpegSize = 0
  /\ af = "none" /\ mAutoFocusThreadRunning = FALSE /\ cancelled = FALSE
  /\ pictures = 0 /\ told = [shutter |-> 0, jpeg |-> 0] /\ crash = FALSE

\* The ioctls and allocations below succeed, or fail where Faults says so.
Fails(f) == f \in Faults
native_start_preview == Fails("start_preview")
native_stop_preview == Fails("stop_preview")
native_prepare_snapshot == Fails("prepare_snapshot")
native_start_snapshot == Fails("start_snapshot")
native_start_raw_snapshot == Fails("start_snapshot")
native_get_picture == Fails("get_picture")
native_set_parm == Fails("set_parm")
native_jpeg_encode == Fails("jpeg_encode")

Return == mLock' = "nobody" /\ call' = "none" /\ op' = "none"
Goto(l) == op' = l /\ UNCHANGED <<mLock, call>>
At(c, l) == call \in c /\ op = l

\* mRecordWait.signal() and the flag it announces.
SignalRecord ==
  /\ mReleasedRecordingFrame' = TRUE
  /\ frame' = IF frame = "waiting" THEN "woken" ELSE frame
  /\ UNCHANGED <<msgEnabled, terminated, mFrameThreadRunning, lent>>

-----------------------------------------------------------------------------
(* The calls of the service                                                *)

\* The service calls from its own thread, and drops the camera after release();
\* or the last reference goes in the preview callback.
Call(h, c) ==
  /\ mLock = "nobody" /\ libmmcamera /\ c \in Calls
  /\ h = "frame" => c = "release" /\ frame = "callback"
  /\ c = "takePicture" => pictures < MaxPictures
  /\ mLock' = h /\ call' = c /\ op' = "enter"
  /\ UNCHANGED <<libmmcamera, mMsgEnabled, preview, heaps, frames, record, snapshot,
                 encoder, focus, ghost>>

\* enableMsgType() and disableMsgType().
SetMsgType(m) ==
  /\ mLock = "nobody" /\ libmmcamera
  /\ mMsgEnabled' = IF m \in mMsgEnabled THEN mMsgEnabled \ {m} ELSE mMsgEnabled \union {m}
  /\ UNCHANGED <<api, libmmcamera, preview, heaps, frames, record, snapshot, encoder,
                 focus, ghost>>

\* startRecording() forgets the frame released last and starts the preview.
startRecording ==
  mReleasedRecordingFrame' =
    IF call = "startRecording" THEN FALSE ELSE mReleasedRecordingFrame

\* startPreview() and startRecording(), up to initPreview().
StartPreview ==
  /\ At({"startPreview", "startRecording"}, "enter")
  /\ startRecording
  /\ IF mCameraRunning THEN Return
     ELSE Goto(IF mPreviewInitialized THEN "start" ELSE "wait_frame")
  /\ UNCHANGED <<libmmcamera, mMsgEnabled, preview, heaps, frames, lent, snapshot, encoder,
                 focus, ghost>>

\* A mutant: initPreview() does not wait for the old frame thread.
WaitFrameThreadNot ==
  /\ op = "wait_frame" /\ Goto("wait_mode")
  /\ UNCHANGED <<libmmcamera, mMsgEnabled, preview, heaps, frames, record, snapshot,
                 encoder, focus, ghost>>

\* initPreview() waits for the old frame thread and for the snapshot mode.
WaitFrameThread ==
  /\ op = "wait_frame" /\ ~mFrameThreadRunning
  /\ Goto("wait_mode")
  /\ UNCHANGED <<libmmcamera, mMsgEnabled, preview, heaps, frames, record, snapshot,
                 encoder, focus, ghost>>

WaitSnapshotMode ==
  /\ op = "wait_mode" /\ ~mInSnapshotMode
  /\ Goto("init")
  /\ UNCHANGED <<libmmcamera, mMsgEnabled, preview, heaps, frames, record, snapshot,
                 encoder, focus, ghost>>

initPreview ==
  /\ op = "init"
  /\ \/ /\ heaps' = heaps \union {"preview"}
        /\ frame' = "created" /\ mFrameThreadRunning' = TRUE /\ terminated' = FALSE
        /\ mPreviewInitialized' = TRUE /\ Goto("start")
     \/ /\ Fails("pmem") /\ heaps' = heaps \ {"preview"} /\ Return
        /\ UNCHANGED <<frame, mFrameThreadRunning, terminated, mPreviewInitialized>>
     \/ /\ native_set_parm \/ Fails("thread")
        /\ heaps' = heaps \union {"preview"} /\ Return
        /\ UNCHANGED <<frame, mFrameThreadRunning, terminated, mPreviewInitialized>>
  /\ UNCHANGED <<libmmcamera, mMsgEnabled, mCameraRunning, camframe_timeout_flag,
                 msgEnabled, record, snapshot, encoder, focus, ghost>>

\* deinitPreview() asks the frame thread to stop, and does not wait.
deinitPreview == mPreviewInitialized' = FALSE /\ terminated' = TRUE

\* startPreviewInternal() after initPreview().
StartCamera ==
  /\ op = "start"
  /\ \/ mCameraRunning' = TRUE /\ UNCHANGED <<mPreviewInitialized, terminated>>
     \/ native_start_preview /\ deinitPreview /\ UNCHANGED mCameraRunning
  /\ Return
  /\ UNCHANGED <<libmmcamera, mMsgEnabled, camframe_timeout_flag, heaps, frame, msgEnabled,
                 mFrameThreadRunning, record, snapshot, encoder, focus, ghost>>

stopPreview ==
  /\ At({"stopPreview"}, "enter")
  /\ IF "video_frame" \in mMsgEnabled THEN Return ELSE Goto("stop")
  /\ UNCHANGED <<libmmcamera, mMsgEnabled, preview, heaps, frames, record, snapshot,
                 encoder, focus, ghost>>

stopRecording ==
  /\ At({"stopRecording"}, "enter")
  /\ SignalRecord
  /\ IF "preview_frame" \in mMsgEnabled THEN Return ELSE Goto("stop")
  /\ UNCHANGED <<libmmcamera, mMsgEnabled, preview, heaps, snapshot, encoder, focus, ghost>>

\* Where a call goes on after stopPreviewInternal().
AfterStop ==
  CASE call = "takePicture" -> Goto("init_raw")
    [] call = "release"     -> Goto("join")
    [] OTHER                -> Return

\* cancelAutoFocusInternal(): cancels only what is in progress.
cancelAutoFocusInternal ==
  cancelled' = (cancelled \/ (HasAutoFocus /\ af = "focusing"))

StopCancelsFocus ==
  /\ op = "stop"
  /\ IF mCameraRunning
     THEN /\ Goto("stop_native")
          /\ IF "focus" \in mMsgEnabled THEN cancelAutoFocusInternal ELSE UNCHANGED cancelled
     ELSE AfterStop /\ UNCHANGED cancelled
  /\ UNCHANGED <<libmmcamera, mMsgEnabled, preview, heaps, frames, record, snapshot,
                 encoder, af, mAutoFocusThreadRunning, ghost>>

\* mCameraRunningLock is the focus thread's while it focuses.
stopPreviewInternal ==
  /\ op = "stop_native" /\ af # "focusing"
  /\ \/ mCameraRunning' = FALSE
     \/ ~camframe_timeout_flag /\ native_stop_preview /\ mCameraRunning' = TRUE
  /\ IF ~mCameraRunning' /\ mPreviewInitialized
     THEN deinitPreview
     ELSE UNCHANGED <<terminated, mPreviewInitialized>>
  /\ AfterStop
  /\ UNCHANGED <<libmmcamera, mMsgEnabled, camframe_timeout_flag, heaps, frame, msgEnabled,
                 mFrameThreadRunning, record, snapshot, encoder, focus, ghost>>

\* takePicture() waits for the old snapshot thread.
takePicture ==
  /\ At({"takePicture"}, "enter") /\ ~mSnapshotThreadRunning
  /\ mSnapshotFormat' \in Formats
  /\ \/ Goto("stop")
     \/ mSnapshotFormat' = "jpeg" /\ native_prepare_snapshot /\ Return
  /\ UNCHANGED <<libmmcamera, mMsgEnabled, preview, heaps, frames, record, snap,
                 mSnapshotThreadRunning, mInSnapshotMode, mShutterPending, mCallbackLock,
                 encoder, focus, ghost>>

\* initRaw() and initRawSnapshot(): the heaps a picture gets.
initRaw ==
  (heaps \ {"jpeg"}) \union {"raw"}
    \union (IF "compressed_image" \in mMsgEnabled THEN {"jpeg", "thumbnail"} ELSE {})
initRawSnapshot == heaps \union {"rawsnapshot"}

\* What is left when one of the pools cannot be made.
NoRaw ==
  IF mSnapshotFormat = "jpeg"
  THEN {heaps \ {"jpeg", "raw"}, heaps \ {"jpeg", "raw", "thumbnail"}}
  ELSE {heaps \ {"rawsnapshot"}}

CreateSnapshot ==
  /\ op = "init_raw"
  /\ \/ /\ heaps' = IF mSnapshotFormat = "jpeg" THEN initRaw ELSE initRawSnapshot
        /\ mShutterPending' = TRUE
        /\ \/ snap' = "created" /\ mSnapshotThreadRunning' = TRUE
           \/ Fails("thread") /\ UNCHANGED <<snap, mSnapshotThreadRunning>>
        /\ pictures' = pictures + 1 /\ told' = [shutter |-> 0, jpeg |-> 0]
        /\ Goto("mode")
     \/ /\ \/ native_set_parm /\ UNCHANGED heaps
           \/ Fails("pmem") /\ heaps' \in NoRaw
        /\ Return /\ UNCHANGED <<mShutterPending, snap, mSnapshotThreadRunning, pictures, told>>
  /\ UNCHANGED <<libmmcamera, mMsgEnabled, preview, frames, record, mSnapshotFormat,
                 mInSnapshotMode, mCallbackLock, encoder, focus, crash>>

\* The last thing that takePicture() does, when the thread already runs, and may already
\* have ended the mode.
SetSnapshotMode ==
  /\ op = "mode" /\ mInSnapshotMode' = TRUE /\ Return
  /\ UNCHANGED <<libmmcamera, mMsgEnabled, preview, heaps, frames, record, snap,
                 mSnapshotFormat, mSnapshotThreadRunning, mShutterPending, mCallbackLock,
                 encoder, focus, ghost>>

release ==
  /\ At({"release"}, "enter")
  /\ IF mCameraRunning /\ "video_frame" \in mMsgEnabled THEN SignalRecord
     ELSE UNCHANGED <<frames, record>>
  /\ Goto(IF mCameraRunning THEN "stop" ELSE "join")
  /\ UNCHANGED <<libmmcamera, mMsgEnabled, preview, heaps, snapshot, encoder, focus, ghost>>

\* release() joins the encoder, clears the heaps and tells the snapshot thread.
ReleaseRaw ==
  /\ op = "join" /\ jpeg = "idle"
  /\ heaps' = heaps \ (RawHeaps \union {"rawsnapshot"})
  /\ mJpegThreadRunning' = FALSE
  /\ libmmcamera' = FALSE /\ Return
  /\ UNCHANGED <<mMsgEnabled, preview, frames, record, snapshot, jpeg, mJpegSize, focus,
                 ghost>>

\* autoFocus() waits for mAutoFocusThreadLock.
autoFocus ==
  /\ At({"autoFocus"}, "enter") /\ af \in {"none", "created"} /\ Return
  /\ \/ ~mAutoFocusThreadRunning /\ af' = "created" /\ mAutoFocusThreadRunning' = TRUE
     \/ /\ mAutoFocusThreadRunning \/ native_prepare_snapshot \/ Fails("thread")
        /\ UNCHANGED <<af, mAutoFocusThreadRunning>>
  /\ UNCHANGED <<libmmcamera, mMsgEnabled, preview, heaps, frames, record, snapshot,
                 encoder, cancelled, ghost>>

cancelAutoFocus ==
  /\ At({"cancelAutoFocus"}, "enter") /\ Return
  /\ IF mCameraRunning /\ "focus" \in mMsgEnabled THEN cancelAutoFocusInternal
     ELSE UNCHANGED cancelled
  /\ UNCHANGED <<libmmcamera, mMsgEnabled, preview, heaps, frames, record, snapshot,
                 encoder, af, mAutoFocusThreadRunning, ghost>>

-----------------------------------------------------------------------------
(* The frame thread and the recorder                                       *)

FrameStep(from, to) ==
  /\ frame = from /\ frame' = to
  /\ UNCHANGED <<api, libmmcamera, mMsgEnabled, preview, snapshot, encoder, focus>>

frame_thread ==
  /\ FrameStep("created", "loop")
  /\ UNCHANGED <<heaps, msgEnabled, terminated, mFrameThreadRunning, record, ghost>>

\* receivePreviewFrame() up to its callbacks: the messages that are enabled are
\* read under mCallbackLock.
receivePreviewFrame ==
  /\ ~Dlopen /\ ~terminated /\ mCameraRunning /\ ~mCallbackLock
  /\ FrameStep("loop", "callback")
  /\ msgEnabled' = mMsgEnabled
  /\ crash' = (crash \/ "preview" \notin heaps)
  /\ UNCHANGED <<heaps, terminated, mFrameThreadRunning, record, pictures, told>>

\* The callbacks return; a frame has been lent to the recorder.
PreviewCallback ==
  /\ frame = "callback" /\ mLock # "frame"
  /\ IF "video_frame" \in msgEnabled
     THEN FrameStep("callback", "record") /\ lent' = 1
     ELSE FrameStep("callback", "loop") /\ UNCHANGED lent
  /\ crash' = (crash \/ "preview" \notin heaps)
  /\ UNCHANGED <<heaps, msgEnabled, terminated, mFrameThreadRunning, mReleasedRecordingFrame,
                 pictures, told>>

\* Waits, with an if, until the recorder has released the frame.
RecordWait ==
  /\ \/ /\ mReleasedRecordingFrame \/ frame = "woken"
        /\ \E l \in {"record", "woken"} : FrameStep(l, "loop")
        /\ mReleasedRecordingFrame' = FALSE
     \/ /\ ~mReleasedRecordingFrame /\ FrameStep("record", "waiting")
        /\ UNCHANGED mReleasedRecordingFrame
  /\ UNCHANGED <<heaps, msgEnabled, terminated, mFrameThreadRunning, lent, ghost>>

releaseRecordingFrame ==
  /\ lent > 0 /\ lent' = 0
  /\ mReleasedRecordingFrame' = TRUE
  /\ frame' = IF frame = "waiting" THEN "woken" ELSE frame
  /\ UNCHANGED <<api, libmmcamera, mMsgEnabled, preview, heaps, msgEnabled, terminated,
                 mFrameThreadRunning, snapshot, encoder, focus, ghost>>

\* runFrameThread() after cam_frame(): the heap goes first.
FrameClears ==
  /\ terminated /\ FrameStep("loop", "ending")
  /\ heaps' = heaps \ {"preview"}
  /\ UNCHANGED <<msgEnabled, terminated, mFrameThreadRunning, record, ghost>>

FrameEnds ==
  /\ FrameStep("ending", "none") /\ mFrameThreadRunning' = FALSE
  /\ UNCHANGED <<heaps, msgEnabled, terminated, record, ghost>>

\* receive_camframetimeout(), from the library in the frame thread.
receive_camframetimeout ==
  /\ Dlopen /\ Fails("timeout") /\ frame = "loop" /\ mCameraRunning
  /\ op # "stop_native"     \* mCamframeTimeoutLock
  /\ ~camframe_timeout_flag /\ camframe_timeout_flag' = TRUE
  /\ UNCHANGED <<api, libmmcamera, mMsgEnabled, mCameraRunning, mPreviewInitialized, heaps,
                 frames, record, snapshot, encoder, focus, ghost>>

-----------------------------------------------------------------------------
(* The snapshot thread and the encoder                                     *)

SnapStep(from, to) ==
  /\ snap = from /\ snap' = to
  /\ UNCHANGED <<api, libmmcamera, mMsgEnabled, preview, frames, record, focus, pictures,
                 mSnapshotThreadRunning>>

runSnapshotThread ==
  /\ \/ \E l \in {"raw", "rawsnapshot"} :
          /\ l = IF mSnapshotFormat = "jpeg" THEN "raw" ELSE "rawsnapshot"
          /\ ~mCallbackLock /\ SnapStep("created", l) /\ mCallbackLock' = TRUE
     \/ /\ IF mSnapshotFormat = "jpeg" THEN native_start_snapshot ELSE native_start_raw_snapshot
        /\ SnapStep("created", "mode") /\ UNCHANGED mCallbackLock
  /\ UNCHANGED <<heaps, mSnapshotFormat, mInSnapshotMode, mShutterPending, encoder, told,
                 crash>>

\* notifyShutter(): once for a picture, and it picks the heap to display.
notifyShutter(h) ==
  IF mShutterPending /\ "shutter" \in mMsgEnabled
  THEN /\ told' = [told EXCEPT !.shutter = @ + 1] /\ mShutterPending' = FALSE
       /\ heaps' = IF h \in heaps THEN heaps \union {"display"} ELSE heaps \ {"display"}
  ELSE UNCHANGED <<told, mShutterPending, heaps>>

\* receiveRawPicture() with mCallbackLock: the picture is fetched, cropped when
\* zoomed, and displayed from the main image or, if that is large, the thumbnail.
RawPicture(zoomed, display) ==
  /\ snap = "raw"
  /\ IF "raw_image" \in mMsgEnabled
     THEN \/ /\ SnapStep("raw", "encode") /\ notifyShutter(display)
             /\ crash' = (crash \/ (zoomed /\ ~({"raw", "thumbnail"} \subseteq heaps))
                                \/ "display" \notin heaps')
             /\ UNCHANGED mCallbackLock
          \/ /\ native_get_picture /\ SnapStep("raw", "mode") /\ mCallbackLock' = FALSE
             /\ UNCHANGED <<told, mShutterPending, heaps, crash>>
     ELSE SnapStep("raw", "encode") /\ UNCHANGED <<told, mShutterPending, heaps, crash,
                                                   mCallbackLock>>
  /\ UNCHANGED <<mSnapshotFormat, mInSnapshotMode, encoder>>

\* The second half: the encoder is started, or the heaps are cleared.
EncodePicture ==
  /\ SnapStep("encode", "mode") /\ mCallbackLock' = FALSE
  /\ \/ /\ "compressed_image" \in mMsgEnabled
        /\ mJpegThreadRunning' = TRUE /\ mJpegSize' = 0
        /\ crash' = (crash \/ ~({"raw", "thumbnail"} \subseteq heaps))
        /\ \/ jpeg' = "encoding" /\ UNCHANGED heaps
           \/ native_jpeg_encode /\ UNCHANGED jpeg /\ heaps' = heaps \ RawHeaps
     \/ /\ "compressed_image" \notin mMsgEnabled \/ Fails("jpeg_init")
        /\ heaps' = heaps \ RawHeaps
        /\ UNCHANGED <<mJpegThreadRunning, mJpegSize, crash, jpeg>>
  /\ UNCHANGED <<mSnapshotFormat, mInSnapshotMode, mShutterPending, told>>

\* receiveRawSnapshot().
RawSnapshot ==
  /\ SnapStep("rawsnapshot", "mode") /\ mCallbackLock' = FALSE
  /\ IF "compressed_image" \in mMsgEnabled
     THEN \/ LET shutter == mShutterPending /\ "shutter" \in mMsgEnabled IN
             /\ crash' = (crash \/ "rawsnapshot" \notin heaps)
             /\ told' = [told EXCEPT !.shutter = IF shutter THEN @ + 1 ELSE @, !.jpeg = @ + 1]
             /\ mShutterPending' = (mShutterPending /\ ~shutter)
             /\ heaps' = heaps \ ({"rawsnapshot"} \union
                                  IF shutter /\ "raw" \notin heaps THEN {"display"} ELSE {})
          \/ native_get_picture /\ UNCHANGED <<told, mShutterPending, heaps, crash>>
     ELSE heaps' = heaps \ {"rawsnapshot"} /\ UNCHANGED <<told, mShutterPending, crash>>
  /\ UNCHANGED <<mSnapshotFormat, mInSnapshotMode, encoder>>

\* The snapshot mode ends, whether or not takePicture() has come to set it.
SnapshotMode ==
  /\ SnapStep("mode", "wait_jpeg")
  /\ mInSnapshotMode' = FALSE /\ mSnapshotFormat' = "none"
  /\ UNCHANGED <<heaps, mShutterPending, mCallbackLock, encoder, told, crash>>

\* A mutant: the thread does not wait for the encoder.
SnapshotEndsEarly ==
  /\ snap = "wait_jpeg" /\ snap' = "none"
  /\ heaps' = heaps \ RawHeaps /\ mSnapshotThreadRunning' = FALSE
  /\ UNCHANGED <<api, libmmcamera, mMsgEnabled, preview, frames, record, mSnapshotFormat,
                 mInSnapshotMode, mShutterPending, mCallbackLock, encoder, focus, ghost>>

SnapshotEnds == ~mJpegThreadRunning /\ jpeg = "idle" /\ SnapshotEndsEarly

JpegStep(from, to) ==
  /\ jpeg = from /\ jpeg' = to
  /\ UNCHANGED <<api, libmmcamera, mMsgEnabled, preview, heaps, frames, record, snapshot,
                 focus, pictures>>

\* A mutant: what does not fit is not cut off.
FragmentUncut(n) ==
  /\ ~Dlopen /\ JpegStep("encoding", "encoding")
  /\ crash' = (crash \/ "jpeg" \notin heaps)
  /\ mJpegSize <= JpegHeapSize
  /\ mJpegSize' = mJpegSize + n
  /\ UNCHANGED <<mJpegThreadRunning, told>>

\* receiveJpegPictureFragment(): truncates to what remains.
receiveJpegPictureFragment(n) ==
  /\ ~Dlopen /\ JpegStep("encoding", "encoding")
  /\ crash' = (crash \/ "jpeg" \notin heaps)
  /\ LET remaining == JpegHeapSize - mJpegSize
     IN mJpegSize' = mJpegSize + IF n > remaining THEN remaining ELSE n
  /\ UNCHANGED <<mJpegThreadRunning, told>>

\* A mutant: the snapshot thread is not told.
receiveJpegPictureUntold ==
  /\ ~mCallbackLock /\ JpegStep("encoding", "idle") /\ told' = [told EXCEPT !.jpeg = @ + 1]
  /\ UNCHANGED <<mJpegThreadRunning, mJpegSize, crash>>

\* The encoder is done: receive_jpeg_callback() ignores every event but
\* JPEG_EVENT_DONE, and receiveJpegPicture() delivers the picture.
receiveJpegPicture ==
  /\ JpegStep("encoding", "idle")
  /\ \/ /\ ~Dlopen /\ ~mCallbackLock
        /\ crash' = (crash \/ ("compressed_image" \in mMsgEnabled /\ "jpeg" \notin heaps))
        /\ told' = IF "compressed_image" \in mMsgEnabled
                   THEN [told EXCEPT !.jpeg = @ + 1] ELSE told
        /\ mJpegThreadRunning' = FALSE
     \/ /\ Dlopen \/ Fails("jpeg_event")
        /\ UNCHANGED <<mJpegThreadRunning, told, crash>>
  /\ UNCHANGED mJpegSize

-----------------------------------------------------------------------------
(* The focus thread                                                        *)

FocusStep(from, to) ==
  /\ af = from /\ af' = to
  /\ UNCHANGED <<api, libmmcamera, mMsgEnabled, preview, heaps, frames, record, snapshot,
                 encoder, ghost>>

\* runAutoFocus(): nothing is done by a sensor without focus or focused at
\* infinity, on a camera that does not run, or if the device does not open.
runAutoFocus ==
  /\ \/ /\ HasAutoFocus /\ mCameraRunning
        /\ FocusStep("created", "focusing") /\ UNCHANGED mAutoFocusThreadRunning
     \/ FocusStep("created", "done") /\ UNCHANGED mAutoFocusThreadRunning
     \/ /\ Fails("af_open") /\ HasAutoFocus /\ FocusStep("created", "none")
        /\ mAutoFocusThreadRunning' = FALSE
  /\ UNCHANGED cancelled

\* native_set_afmode() returns, with or without a cancel.
Focused ==
  /\ FocusStep("focusing", "done") /\ cancelled' = FALSE
  /\ UNCHANGED mAutoFocusThreadRunning

FocusEnds ==
  /\ FocusStep("done", "none") /\ mAutoFocusThreadRunning' = FALSE
  /\ UNCHANGED cancelled

-----------------------------------------------------------------------------

ApiStep ==
  \/ StartPreview \/ WaitFrameThread \/ WaitSnapshotMode \/ initPreview \/ StartCamera
  \/ stopPreview \/ stopRecording \/ StopCancelsFocus \/ stopPreviewInternal
  \/ takePicture \/ CreateSnapshot \/ SetSnapshotMode \/ release \/ ReleaseRaw
  \/ autoFocus \/ cancelAutoFocus

FrameThread ==
  \/ frame_thread \/ receivePreviewFrame \/ PreviewCallback \/ RecordWait
  \/ FrameClears \/ FrameEnds

SnapshotThread ==
  \/ runSnapshotThread
  \/ \E zoomed \in BOOLEAN, display \in {"raw", "thumbnail"} : RawPicture(zoomed, display)
  \/ EncodePicture \/ RawSnapshot \/ SnapshotMode \/ SnapshotEnds

Fragment == \E n \in 1..2 : receiveJpegPictureFragment(n)

FocusThread == runAutoFocus \/ Focused \/ FocusEnds

Next ==
  \/ \E c \in Calls : \E h \in {"app", "frame"} : Call(h, c)
  \/ \E m \in Msgs : SetMsgType(m)
  \/ ApiStep \/ FrameThread \/ releaseRecordingFrame \/ receive_camframetimeout
  \/ SnapshotThread \/ Fragment \/ receiveJpegPicture \/ FocusThread

Spec == Init /\ [][Next]_vars

\* Every thread goes on; the driver and the library deliver frames, pictures and
\* focus, and the encoder ends.
Fairness ==
  /\ WF_vars(ApiStep) /\ WF_vars(FrameThread) /\ WF_vars(SnapshotThread)
  /\ WF_vars(receiveJpegPicture) /\ WF_vars(FocusThread)

FairSpec == Spec /\ Fairness

-----------------------------------------------------------------------------

TypeOK ==
  /\ mLock \in {"nobody", "app", "frame"} /\ call \in Calls \union {"none"}
  /\ op \in {"none", "enter", "wait_frame", "wait_mode", "init", "start", "stop",
             "stop_native", "init_raw", "mode", "join"}
  /\ libmmcamera \in BOOLEAN /\ mMsgEnabled \subseteq (Msgs \union UNION Enabled)
  /\ mCameraRunning \in BOOLEAN /\ mPreviewInitialized \in BOOLEAN
  /\ camframe_timeout_flag \in BOOLEAN
  /\ heaps \subseteq RawHeaps \union {"preview", "rawsnapshot"}
  /\ frame \in {"none", "created", "loop", "callback", "record", "waiting", "woken", "ending"}
  /\ mFrameThreadRunning = (frame # "none") /\ terminated \in BOOLEAN
  /\ mReleasedRecordingFrame \in BOOLEAN /\ lent \in 0..1
  /\ snap \in {"none", "created", "raw", "rawsnapshot", "encode", "mode", "wait_jpeg"}
  /\ mSnapshotThreadRunning = (snap # "none") /\ mInSnapshotMode \in BOOLEAN
  /\ mCallbackLock = (snap \in {"raw", "rawsnapshot", "encode"})
  /\ mSnapshotFormat \in Formats \union {"none"} /\ mShutterPending \in BOOLEAN
  /\ jpeg \in {"idle", "encoding"} /\ mJpegThreadRunning \in BOOLEAN
  /\ af \in {"none", "created", "focusing", "done"} /\ cancelled \in BOOLEAN
  /\ mAutoFocusThreadRunning = (af # "none")
  /\ pictures \in 0..MaxPictures /\ crash \in BOOLEAN

\* The heaps that the frame thread, the snapshot thread and the encoder work on
\* are there when they use them: none is cleared under another's hands.
HeapsAreThere == ~crash /\ (frame = "callback" => "preview" \in heaps)

\* One frame thread at a time: initPreview() creates the next one only when the
\* last has cleared its heap and ended.
OneFrameThread == frame' = "created" => frame \in {"none", "created"}

\* The camera is not stopped while it focuses: mCameraRunningLock.
FocusWhileRunning == af = "focusing" => mCameraRunning

\* The client hears of a picture's shutter and gets its picture at most once,
\* and the encoder's output never leaves its heap.
OncePerPicture == told.shutter <= 1 /\ told.jpeg <= 1 /\ mJpegSize <= JpegHeapSize

\* The snapshot mode was set when its thread had ended it, or never ran: nobody ends it.
ModeLeft == mInSnapshotMode /\ snap \in {"none", "wait_jpeg"} /\ op # "mode"

\* The encoder has failed to start or ended with an error, so that there is no picture:
\* nobody tells the snapshot thread, which waits for it.
EncoderLost == snap = "wait_jpeg" /\ mJpegThreadRunning /\ jpeg = "idle" /\ told.jpeg = 0

\* A call of the service that does not return: initPreview() waits for a mode that nobody
\* ends, or takePicture() for the thread of a picture that was not encoded.
Hangs ==
  \/ op = "wait_mode" /\ ModeLeft
  \/ At({"takePicture"}, "enter") /\ EncoderLost

\* Every other call returns, although it waits with mLock for the frame thread, the
\* snapshot mode, the snapshot thread or the focus to end; and a picture that was asked
\* for is delivered, unless the encoder fails.
CallsReturn == op # "none" ~> op = "none" \/ Hangs
PictureComes == snap = "created" ~> told.jpeg = 1 \/ EncoderLost
Served == CallsReturn /\ PictureComes

\* The same without exception.
AllCallsReturn == op # "none" ~> op = "none"
=============================================================================

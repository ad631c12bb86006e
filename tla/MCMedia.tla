------------------------------ MODULE MCMedia -------------------------------
(***************************************************************************)
(* libaudio and libcamera, which media server loads, and libsensors, which *)
(* the system server loads, one of Parts at a time:                        *)
(*                                                                         *)
(*   route     the three threads of AudioFlinger change devices, the TTY   *)
(*             mode and dual microphones at the same time; the sets of     *)
(*             devices are chosen so that two requests can ask for the     *)
(*             same device and for different ones; the mode is fixed.      *)
(*   play      playing starts and stops, the mode, the output and the mute *)
(*             change, and the sound driver may fail.                      *)
(*   record    the same with recording.                                    *)
(*   objects   two clients of the camera service make and release cameras, *)
(*             three in all, so that a client meets one that is being      *)
(*             destroyed.                                                  *)
(*   video     preview, recording and focus; the driver may fail.          *)
(*   picture   two pictures, in both formats; the driver may fail.         *)
(*   release   release(), from the service or from the frame callback.     *)
(*   dlopen    the library is loaded at run time and times out.            *)
(*   settings  one client after another sets something on the defaults,    *)
(*             with initDefaultParameters() called and, as the code is,    *)
(*             not called.                                                 *)
(*   colours   clients change what getParameters() returns, and the driver *)
(*             may refuse; white balance, effect and hand jitter reduction *)
(*             are the settings that depend on each other.                 *)
(*   exif      pictures with and without a location.                       *)
(*   sizes     one input of the pure functions after another.              *)
(*   sensors   rings of one and four input events instead of one and 32,   *)
(*             which wrap; two reports of one sensor and one of another;   *)
(*             room for one and two events.                                *)
(*   three     the same with one report of each of the three sensors.      *)
(***************************************************************************)
EXTENDS CameraSingleton, Sequences

CONSTANT Parts

VARIABLES
  part,
  mMode, mMicMute, mBuiltinMicSelected, mCurSndDevice, mTtyMode, mDualMicEnabled,
  outDevices, inDevices, mStandby, mStartCount, mState, snd_device,
  post_proc_feature_mask, playback_in_progress, hw, dsp, failed, audio_lock,
  audio_stage, new, todo,
  mLock, call, op, libmmcamera, mMsgEnabled, mCameraRunning, mPreviewInitialized,
  camframe_timeout_flag, heaps, frame, msgEnabled, terminated, mFrameThreadRunning,
  mReleasedRecordingFrame, lent, snap, mSnapshotFormat, mSnapshotThreadRunning,
  mInSnapshotMode, mShutterPending, mCallbackLock, jpeg, mJpegThreadRunning, mJpegSize,
  af, mAutoFocusThreadRunning, cancelled, pictures, told, crash,
  mParameters, driver, mHJR, mBrightness, mMaxZoom, mInitialized, exif_data, taken,
  crashed, input,
  kernel, sensor, ctx, out, discarded, calls

audioVars == <<mMode, mMicMute, mBuiltinMicSelected, mCurSndDevice, mTtyMode,
               mDualMicEnabled, outDevices, inDevices, mStandby, mStartCount, mState,
               snd_device, post_proc_feature_mask, playback_in_progress, hw, dsp, failed,
               audio_lock, audio_stage, new, todo>>
hardwareVars == <<mLock, call, op, libmmcamera, mMsgEnabled, mCameraRunning,
                  mPreviewInitialized, camframe_timeout_flag, heaps, frame, msgEnabled,
                  terminated, mFrameThreadRunning, mReleasedRecordingFrame, lent, snap,
                  mSnapshotFormat, mSnapshotThreadRunning, mInSnapshotMode,
                  mShutterPending, mCallbackLock, jpeg, mJpegThreadRunning, mJpegSize, af,
                  mAutoFocusThreadRunning, cancelled, pictures, told, crash>>
settingVars == <<mParameters, driver, mHJR, mBrightness, mMaxZoom, mInitialized, exif_data,
                 taken, crashed>>
sensorVars == <<kernel, sensor, ctx, out, discarded, calls>>
mediaVars == <<part, audioVars, vars, hardwareVars, settingVars, input, sensorVars>>

-----------------------------------------------------------------------------

AllEndpoints == {"CURRENT", "HANDSET", "SPEAKER", "BT", "HEADSET", "HEADSET_AND_SPEAKER",
                 "IN_S_SADC_OUT_HANDSET", "IN_S_SADC_OUT_SPEAKER_PHONE", "TTY_HEADSET",
                 "TTY_HCO", "TTY_VCO"}

Routing == INSTANCE AudioRouting WITH
  mLock <- audio_lock, stage <- audio_stage, Endpoints <- AllEndpoints,
  Outputs <- {{"earpiece"}, {"speaker"}, {"headset"}},
  Inputs <- {"none", "builtin_mic", "wired_headset", "voice_call"},
  ModeValues <- {"normal", "in_call"}, TtyValues <- {"off", "full"},
  Calls <- {"out_route", "in_route", "tty", "dualmic", "bt_name"}, RpcFails <- FALSE

Playing == INSTANCE AudioRouting WITH
  mLock <- audio_lock, stage <- audio_stage, Endpoints <- AllEndpoints,
  Outputs <- {{"earpiece"}, {"speaker"}}, Inputs <- {"builtin_mic"},
  ModeValues <- {"normal", "in_call"}, TtyValues <- {"off"},
  Calls <- {"out_route", "write", "mode", "mic_mute"}, RpcFails <- TRUE

Recording == INSTANCE AudioRouting WITH
  mLock <- audio_lock, stage <- audio_stage, Endpoints <- AllEndpoints,
  Outputs <- {{"earpiece"}, {"speaker"}}, Inputs <- {"builtin_mic"},
  ModeValues <- {"normal", "in_call"}, TtyValues <- {"off"},
  Calls <- {"out_route", "read", "mode", "mic_mute"}, RpcFails <- TRUE

Wanted == {"preview_frame", "focus", "shutter", "raw_image", "compressed_image"}

Video == INSTANCE CameraHardware WITH
  Calls <- {"startPreview", "stopPreview", "startRecording", "stopRecording", "autoFocus",
            "cancelAutoFocus"},
  Enabled <- {{"preview_frame", "focus"}}, Msgs <- {"video_frame", "preview_frame"},
  Formats <- {}, Faults <- {"stop_preview", "start_preview", "pmem", "af_open"},
  Dlopen <- FALSE, HasAutoFocus <- TRUE, MaxPictures <- 0, JpegHeapSize <- 0

Picture == INSTANCE CameraHardware WITH
  Calls <- {"startPreview", "stopPreview", "takePicture", "autoFocus"},
  Enabled <- {Wanted}, Msgs <- {}, Formats <- {"jpeg", "raw"},
  Faults <- {"start_snapshot", "prepare_snapshot", "pmem", "thread", "jpeg_init",
             "get_picture"},
  Dlopen <- FALSE, HasAutoFocus <- TRUE, MaxPictures <- 2, JpegHeapSize <- 2

Releasing == INSTANCE CameraHardware WITH
  Calls <- {"startPreview", "stopPreview", "startRecording", "stopRecording", "release"},
  Enabled <- {Wanted, Wanted \union {"video_frame"}}, Msgs <- {}, Formats <- {},
  Faults <- {"stop_preview"}, Dlopen <- FALSE, HasAutoFocus <- FALSE, MaxPictures <- 0,
  JpegHeapSize <- 0

Loaded == INSTANCE CameraHardware WITH
  Calls <- {"startPreview", "stopPreview", "takePicture"},
  Enabled <- {Wanted}, Msgs <- {}, Formats <- {"jpeg", "raw"},
  Faults <- {"stop_preview", "timeout"}, Dlopen <- TRUE, HasAutoFocus <- FALSE,
  MaxPictures <- 1, JpegHeapSize <- 1

Location == {"latitude", "latitude-ref", "longitude", "longitude-ref", "altitude",
             "altitude-ref"}
FiveMegapixels ==
  [name |-> "5mp", rawHeight |-> 1960, focus |-> TRUE,
   max |-> [width |-> 2592, height |-> 1944], bitMask |-> 4095]
Of(k, S) == {[x \in {k} |-> v] : v \in S}

Settings == INSTANCE CameraSettings WITH
  Offered <- Of("wb", {"daylight", "none"}) \union Of("effect", {"mono", "solarize"})
               \union Of("iso", {"ISO_HJR", "ISO100", "none"}) \union Of("zoom", 1..4)
               \union Of("fps", {9, 10, 25, 26}) \union Of("brightness", {4})
               \union Of("flash", {"on", "torch"}) \union Of("saturation", {4, 5})
               \union Of("picture", {[width |-> 2592, height |-> 1944],
                                     [width |-> 448, height |-> 336],
                                     [width |-> 100, height |-> 100]}),
  FromCurrent <- FALSE, Sensor <- FiveMegapixels, SensorName <- "ov5642",
  FlashEnabled <- TRUE, Refused <- {{}}, MaxZooms <- {0, 3}, MaxPictures <- 0

Colours == INSTANCE CameraSettings WITH
  Offered <- Of("wb", {"auto", "daylight"}) \union Of("effect", {"none", "mono", "solarize"})
               \union Of("iso", {"ISO_HJR", "ISO100"})
               \union {[wb |-> "daylight", effect |-> "mono"]},
  FromCurrent <- TRUE, Sensor <- FiveMegapixels, SensorName <- "mt9p012",
  FlashEnabled <- FALSE, Refused <- {{}, {"wb"}, {"effect"}, {"hjr"}}, MaxZooms <- {3},
  MaxPictures <- 0

Exif == INSTANCE CameraSettings WITH
  Offered <- Of("gps", {{"latitude", "latitude-ref"}, {"longitude"},
                        {"latitude", "longitude", "longitude-ref"}, Location}),
  FromCurrent <- TRUE, Sensor <- FiveMegapixels, SensorName <- "mt9p012",
  FlashEnabled <- FALSE, Refused <- {{}}, MaxZooms <- {3}, MaxPictures <- 2

\* Positions with a sum, without one, and one whose halves are cut off one by one.
Readings == {<<2, 1>>, <<2, -2>>, <<1, 1>>}

Polled == INSTANCE Sensors WITH
  numEvents <- [s \in {"kxte9", "yas529", "orient"} |-> IF s = "kxte9" THEN 1 ELSE 4],
  MaxReports <- [s \in {"kxte9", "yas529", "orient"} |->
                   CASE s = "kxte9" -> 1 [] s = "yas529" -> 2 [] s = "orient" -> 0],
  MaxCalls <- 1, Counts <- {1, 2}, Unit <- 2, Positions <- Readings,
  Faults <- {"sysfs", "poll", "read"}

PolledOnce == INSTANCE Sensors WITH
  numEvents <- [s \in {"kxte9", "yas529", "orient"} |-> IF s = "kxte9" THEN 1 ELSE 4],
  MaxReports <- [s \in {"kxte9", "yas529", "orient"} |-> 1],
  MaxCalls <- 1, Counts <- {1, 2}, Unit <- 2, Positions <- Readings,
  Faults <- {"sysfs", "poll", "read"}

\* Inputs of the pure functions: the sizes of the lists and some that are valid
\* without being listed, small pictures to crop, lengths to zoom, and codes of
\* countries around the ends of the table and inside it.
Inputs ==
  [of : {"sensor"}, ret : BOOLEAN, rawHeight : {1960, 1944, 1544, 1200, 480}]
    \union [of : {"size"},
            size : {Settings!picture_sizes[i] : i \in DOMAIN Settings!picture_sizes}
                     \union {[width |-> 448, height |-> 336], [width |-> 64, height |-> 48]}]
    \union [of : {"preview"},
            size : {Settings!preview_sizes[i] : i \in DOMAIN Settings!preview_sizes}]
    \union [of : {"crop"}, w : {4, 6, 8}, h : {4, 6}, cw : {2, 4}, ch : {2, 4}]
    \union [of : {"zoom"}, out : 1..12, in : 1..12]
    \union [of : {"country"}, code : (200..220) \union (309..317) \union (650..659) \union (745..751)]

-----------------------------------------------------------------------------

InAudio == UNCHANGED <<part, vars, hardwareVars, settingVars, input, sensorVars>>
InObjects == UNCHANGED <<part, audioVars, hardwareVars, settingVars, input, sensorVars>>
InHardware == UNCHANGED <<part, audioVars, vars, settingVars, input, sensorVars>>
InSettings == UNCHANGED <<part, audioVars, vars, hardwareVars, input, sensorVars>>
InSizes == UNCHANGED <<part, audioVars, vars, hardwareVars, settingVars, sensorVars>>
InSensors == UNCHANGED <<part, audioVars, vars, hardwareVars, settingVars, input>>

MediaInit ==
  /\ part \in Parts
  /\ Init /\ input = [of |-> "none"]
  /\ IF part = "sensors" THEN Polled!Init ELSE PolledOnce!Init
  /\ IF part = "settings" THEN Settings!Init ELSE Exif!Init
  /\ CASE part = "video" -> Video!Init
       [] part = "picture" -> Picture!Init
       [] part = "release" -> Releasing!Init
       [] OTHER -> Loaded!Init
  /\ CASE part = "route" -> Routing!Init
       [] part = "record" -> Recording!Init
       [] OTHER -> Playing!Init
  /\ part \in {"route", "play", "record"}
       \/ (mMode = "normal" /\ mTtyMode = "off" /\ outDevices = {"speaker"})

MediaNext ==
  \/ part = "route" /\ Routing!Next /\ InAudio
  \/ part = "play" /\ Playing!Next /\ InAudio
  \/ part = "record" /\ Recording!Next /\ InAudio
  \/ part = "objects" /\ InObjects /\ Next
  \/ part = "video" /\ InHardware /\ Video!Next
  \/ part = "picture" /\ InHardware /\ Picture!Next
  \/ part = "release" /\ InHardware /\ Releasing!Next
  \/ part = "dlopen" /\ InHardware /\ Loaded!Next
  \/ part = "settings" /\ InSettings /\ Settings!Next
  \/ part = "colours" /\ InSettings /\ Colours!Next
  \/ part = "exif" /\ InSettings /\ Exif!Next
  \/ part = "sizes" /\ InSizes /\ input.of = "none" /\ input' \in Inputs
  \/ part = "sensors" /\ InSensors /\ Polled!Next
  \/ part = "three" /\ InSensors /\ PolledOnce!Next

MediaSpec == MediaInit /\ [][MediaNext]_mediaVars

-----------------------------------------------------------------------------

\* When no call is in progress the driver is on a device that the settings ask
\* for now: no outdated choice of a doRouting() is left.
\* What doRouting() remembers in mCurSndDevice is where the driver and the post
\* processing are, and the driver mutes the microphone as setMicMute() was told
\* last.
RoutingCoherent ==
  /\ part = "route" => Routing!TypeOK /\ Routing!RouteIsCurrent
  /\ part \in {"play", "record"} =>
       Playing!TypeOK /\ Playing!DeviceCoherent /\ Playing!MicMuteCoherent

\* setMode() takes effect: "make sure that doAudioRouteOrMute() is called by
\* doRouting() even if the new device selected is the same as current one".
ModeTakesEffect == part \in {"play", "record"} => Playing!ModeTakesEffect

\* None of the frame thread, the snapshot thread and the encoder finds its heap
\* cleared by another thread, and the camera is not stopped while it focuses.
\* initPreview() creates a frame thread only when the last one has ended.
FrameThreadSound ==
  [](Video!HeapsAreThere /\ Video!FocusWhileRunning) /\ [][Video!OneFrameThread]_mediaVars

\* The shutter of a picture and the picture itself are announced once at most,
\* and fragments of the encoder never run over the heap.
OncePerPicture == part = "picture" => Picture!TypeOK /\ Picture!OncePerPicture

\* Where initDefaultParameters() has run, getParameters() reports what the driver has,
\* unless the driver refused, and never both a colour effect and a white balance.  (Its
\* call is commented out, and the first setParameters() without it crashes before it has
\* set anything: see SettersSurvive.)  The exif table keeps to its size and has no tag
\* twice.
SettingsCoherent ==
  /\ part = "settings" => Settings!DriverFollows
  /\ Settings!ColoursExclusive /\ Settings!ExifSound

\* What is offered and allocated fits: picture sizes and the sensor, buffers and
\* frames (the raw picture apart, see README), cropped and zoomed rectangles; and
\* the search finds each country.
SizesFit ==
  CASE input.of = "sensor" -> Settings!OfferedFit(Settings!findSensorType(input.ret, input.rawHeight))
    [] input.of = "size" -> /\ Settings!PoolSound(Settings!RawPool(input.size))
                            /\ Settings!PoolSound(Settings!ThumbnailPool(input.size))
                            /\ Settings!FrameFits(Settings!ThumbnailPool(input.size))
    [] input.of = "preview" -> /\ Settings!PoolSound(Settings!PreviewPool(input.size))
                               /\ Settings!FrameFits(Settings!PreviewPool(input.size))
    [] input.of = "crop" -> Settings!CropIsCentred(input.w, input.h, input.cw, input.ch)
    [] input.of = "zoom" -> Settings!ZoomInside(input.out, input.in)
    [] input.of = "country" -> Settings!LocationFound(input.code)
    [] OTHER -> TRUE

\* pollEvents() returns every report of an enabled sensor once, whole and in order, unless
\* its values cancel each other ("if(sum == 0) continue") or the poll() of that call fails
\* later, and it stays within the buffer unless a read() is interrupted; no input event is
\* left in a ring that nobody looks at.
SensorsSound ==
  part \in {"sensors", "three"} =>
    /\ Polled!WholeReports /\ Polled!NoneLost /\ Polled!RoomKept /\ Polled!NothingKept

\* "Thumbnail height should be smaller than Picture height".
ThumbnailSmaller ==
  input.of = "size" => Settings!Thumbnail(input.size).height < input.size.height

\* A raw picture fits into the buffer whose size is rounded by CEILING16().
RawFits == input.of = "size" => Settings!FrameFits(Settings!RawPool(input.size))
=============================================================================

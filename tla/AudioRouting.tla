---------------------------- MODULE AudioRouting ----------------------------
(***************************************************************************)
(* libaudio/AudioHardware.cpp: who decides which sound device is on.       *)
(*                                                                         *)
(* The playback thread, the record thread and a binder thread change the   *)
(* devices of their streams, the mode, the TTY mode or the mute, and then  *)
(* call doRouting(), which picks a device, switches the driver to it and   *)
(* remembers it in mCurSndDevice so as not to switch twice.  doRouting()   *)
(* runs under mLock; what it reads is written without it.                  *)
(*                                                                         *)
(* A call is a list of steps that its thread still has to take.  The       *)
(* output and one input are open, the filters have been read, and the      *)
(* control device of the post processing opens.  FM radio is not in this   *)
(* build.                                                                  *)
(***************************************************************************)
EXTENDS Integers, Sequences

CONSTANTS
  Endpoints,   \* names the sound driver knows
  Outputs,     \* sets of output devices that are asked for
  Inputs,      \* input devices that are asked for; "none" is 0
  ModeValues,  \* subset of {"normal", "in_call"}
  TtyValues,   \* subset of {"off", "vco", "hco", "full"}
  Calls,       \* names of the calls that are made
  RpcFails     \* SND_SET_DEVICE may fail

VARIABLES
  mMode, mMicMute, mBuiltinMicSelected, mCurSndDevice, mTtyMode, mDualMicEnabled,
  outDevices, inDevices,        \* mDevices of the two streams
  mStandby, mStartCount,        \* of the output stream
  mState,                       \* of the input stream
  snd_device, post_proc_feature_mask, playback_in_progress,
  hw,       \* what the driver was last told: device, ear_mute, mic_mute
  dsp,      \* features that AUDIO_ENABLE_AUDPP has enabled
  failed,   \* an SND_SET_DEVICE has failed since the last full one
  mLock,    \* the thread that has it
  stage,    \* where that thread is in doRouting()
  new,      \* its new_snd_device and new_post_proc_feature_mask
  todo      \* the steps each thread has yet to take

settings == <<mMode, mTtyMode, mDualMicEnabled, outDevices, inDevices>>
playback == <<mStandby, mStartCount, playback_in_progress>>
postproc == <<snd_device, post_proc_feature_mask, dsp>>
routing == <<mLock, stage, new>>
mutes == <<mMicMute, mBuiltinMicSelected>>
driver == <<hw, failed>>
vars == <<settings, playback, postproc, routing, mutes, driver, mCurSndDevice, mState, todo>>

-----------------------------------------------------------------------------

Threads == {"play", "rec", "ctl"}

AUDIO_HW_NUM_OUT_BUF == 2

Features == {"adrc", "eq", "rx_iir", "mbadrc"}

\* All the *_DISABLE masks are 0x0000: what is and-ed with one is cleared.
DISABLE == {}

\* SND_DEVICE_x is -1 unless the constructor finds x among the endpoints; it
\* does not look for CARKIT and NO_MIC_HEADSET.
SND_DEVICE(x) == IF x \in Endpoints \ {"CARKIT", "NO_MIC_HEADSET"} THEN x ELSE "none"

isInCall == mMode = "in_call"

\* The device of an input; "none" if the output is to decide.
InputRoute(in, out) ==
  CASE in = "none"          -> [device |-> "none", mask |-> {}]
    [] in = "bt_sco"        -> [device |-> SND_DEVICE("BT"), mask |-> {}]
    [] in = "wired_headset" -> [device |-> SND_DEVICE("HEADSET"), mask |-> {}]
    [] OTHER -> IF "speaker" \in out
                THEN [device |-> SND_DEVICE("SPEAKER"), mask |-> Features]
                ELSE [device |-> SND_DEVICE("HANDSET"), mask |-> {}]

\* The order of preference among the output devices.
OutputRoute(out) ==
  CASE out \intersect {"sco", "sco_headset"} # {} ->
         [device |-> SND_DEVICE("BT"), mask |-> {}]
    [] out \intersect {"sco", "sco_headset"} = {} /\ "carkit" \in out ->
         [device |-> SND_DEVICE("CARKIT"), mask |-> {}]
    [] OTHER ->
         IF "speaker" \in out /\ out \intersect {"headset", "headphone"} # {}
         THEN [device |-> SND_DEVICE("HEADSET_AND_SPEAKER"), mask |-> Features]
         ELSE IF "headphone" \in out
         THEN [device |-> SND_DEVICE("NO_MIC_HEADSET"), mask |-> {}]
         ELSE [device |-> SND_DEVICE(IF "headset" \in out THEN "HEADSET"
                                     ELSE IF "speaker" \in out THEN "SPEAKER"
                                     ELSE "HANDSET"), mask |-> Features]

TtyRoute ==
  [device |-> CASE mTtyMode = "full" -> SND_DEVICE("TTY_HEADSET")
                [] mTtyMode = "vco" -> SND_DEVICE("TTY_VCO")
                [] mTtyMode = "hco" -> SND_DEVICE("TTY_HCO")
                [] OTHER -> "none",
   mask |-> {}]

\* A mask that was set while no device was found stays set.
Fallback(r) ==
  LET o == IF mTtyMode # "off" /\ mMode = "in_call" /\ "headset" \in outDevices
           THEN TtyRoute ELSE OutputRoute(outDevices)
  IN IF r.device # "none" THEN r
     ELSE [device |-> o.device, mask |-> r.mask \union o.mask]

DualMic(r) ==
  IF ~(mDualMicEnabled /\ mMode = "in_call") THEN r
  ELSE [r EXCEPT !.device =
          CASE @ = "HANDSET" -> SND_DEVICE("IN_S_SADC_OUT_HANDSET")
            [] @ = "SPEAKER" -> SND_DEVICE("IN_S_SADC_OUT_SPEAKER_PHONE")
            [] OTHER -> @]

\* The device that doRouting() picks for an input ("none" for no input).
Route(in) == DualMic(Fallback(InputRoute(in, outDevices)))

\* doAudioRouteOrMute(): whether the ear is muted.
EarMute(device) ==
  ~isInCall /\ (device = "HANDSET" => ~mBuiltinMicSelected)

-----------------------------------------------------------------------------

Init ==
  /\ mMode \in ModeValues /\ mMicMute = TRUE /\ mBuiltinMicSelected = FALSE
  /\ mCurSndDevice = "none"
  /\ mTtyMode \in TtyValues \union {"garbage"}   \* not initialised
  /\ mDualMicEnabled = FALSE
  /\ outDevices \in Outputs /\ inDevices \in Inputs \ {"none"}
  /\ mStandby = TRUE /\ mStartCount = 0
  /\ mState = "opened"
  /\ snd_device = "none" /\ post_proc_feature_mask = {} /\ playback_in_progress = FALSE
  /\ hw = [device |-> "none", ear_mute |-> TRUE, mic_mute |-> TRUE]
  /\ dsp = {} /\ failed = FALSE
  /\ mLock = "nobody" /\ stage = "none" /\ new = [device |-> "none", mask |-> {}]
  /\ todo = [t \in Threads |-> <<>>]

Idle(t) == todo[t] = <<>>

Quiet == \A t \in Threads : Idle(t)

May(t, call) == Idle(t) /\ call \in Calls

Then(t, steps) == todo' = [todo EXCEPT ![t] = steps]

At(t, step) == todo[t] # <<>> /\ Head(todo[t]) = step

Done(t) == todo' = [todo EXCEPT ![t] = Tail(@)]

-----------------------------------------------------------------------------
(* The calls                                                               *)

\* setParameters() of the output stream with the key routing; it has no
\* tty_mode, so the one of the hardware resets it.
OutSetParameters ==
  /\ May("play", "out_route")
  /\ outDevices' \in Outputs
  /\ Then("play", <<"tty_off", "route", "route">>)
  /\ UNCHANGED <<mMode, mTtyMode, mDualMicEnabled, inDevices, playback, postproc, routing,
                 mutes, driver, mCurSndDevice, mState>>

\* write() of the output stream: opens the driver, and starts it when
\* AUDIO_HW_NUM_OUT_BUF buffers are in.  Opening or writing may fail.
OutWrite ==
  /\ May("play", "write")
  /\ mStandby \/ mStartCount > 0
  /\ mStandby' = FALSE
  /\ LET count == IF mStandby THEN AUDIO_HW_NUM_OUT_BUF ELSE mStartCount IN
       \/ /\ mStartCount' = count - 1
          /\ playback_in_progress' = (playback_in_progress \/ count = 1)
          /\ Then("play", IF count = 1 THEN <<"post_on", "post_apply_on">> ELSE <<>>)
       \/ /\ mStandby
          /\ mStartCount' = count
          /\ UNCHANGED <<playback_in_progress, todo>>
  /\ UNCHANGED <<settings, postproc, routing, mutes, driver, mCurSndDevice, mState>>

OutStandby ==
  /\ May("play", "write")
  /\ ~mStandby
  /\ Then("play", <<"post_off", "post_apply_off", "stop">>)
  /\ UNCHANGED <<settings, playback, postproc, routing, mutes, driver, mCurSndDevice,
                 mState>>

\* setParameters() of the input stream.
InSetParameters ==
  /\ May("rec", "in_route")
  /\ inDevices' \in Inputs
  /\ Then("rec", <<"route_in">>)
  /\ UNCHANGED <<mMode, mTtyMode, mDualMicEnabled, outDevices, playback, postproc, routing,
                 mutes, driver, mCurSndDevice, mState>>

\* read() of the input stream, as far as it starts the recording.  set() runs
\* under mLock; it may fail, also after it has set the state.
InRead ==
  /\ May("rec", "read")
  /\ mState # "started"
  /\ mState = "closed" => mLock = "nobody"
  /\ \/ /\ mState' = "started"
        /\ Then("rec", <<"clear", "route_in", "start">>)
     \/ /\ mState = "closed"
        /\ mState' \in {"closed", "opened"}
        /\ UNCHANGED todo
  /\ UNCHANGED <<settings, playback, postproc, routing, mutes, driver, mCurSndDevice>>

InStandby ==
  /\ May("rec", "read")
  /\ mState' = "closed"
  /\ Then("rec", <<"clear", "route_in">>)
  /\ UNCHANGED <<settings, playback, postproc, routing, mutes, driver, mCurSndDevice>>

\* AudioHardwareBase::setMode() stores the mode; clearCurDevice() follows.
SetMode ==
  /\ May("ctl", "mode")
  /\ mMode' \in ModeValues \ {mMode}
  /\ Then("ctl", <<"clear">>)
  /\ UNCHANGED <<mTtyMode, mDualMicEnabled, outDevices, inDevices, playback, postproc,
                 routing, mutes, driver, mCurSndDevice, mState>>

\* setParameters() of the hardware with tty_mode, with dualmic_enabled, or
\* with a bt_headset_name that is not among the endpoints.
SetTtyMode ==
  /\ May("ctl", "tty")
  /\ mTtyMode' \in TtyValues
  /\ Then("ctl", <<"route">>)
  /\ UNCHANGED <<mMode, mDualMicEnabled, outDevices, inDevices, playback, postproc,
                 routing, mutes, driver, mCurSndDevice, mState>>

SetDualMic ==
  /\ May("ctl", "dualmic")
  /\ mDualMicEnabled' \in BOOLEAN
  /\ Then("ctl", <<"route", "tty_off", "route">>)
  /\ UNCHANGED <<mMode, mTtyMode, outDevices, inDevices, playback, postproc, routing,
                 mutes, driver, mCurSndDevice, mState>>

SetBluetoothName ==
  /\ May("ctl", "bt_name")
  /\ Then("ctl", <<"route", "tty_off", "route">>)
  /\ UNCHANGED <<settings, playback, postproc, routing, mutes, driver, mCurSndDevice,
                 mState>>

\* setMicMute(), and checkMicMute() which mutes when not in a call: the driver
\* is told about its current device.
SetMicMute ==
  /\ May("ctl", "mic_mute")
  /\ mLock = "nobody"
  /\ mMicMute' = ~mMicMute
  /\ \/ /\ hw' = [hw EXCEPT !.ear_mute = EarMute("CURRENT"), !.mic_mute = mMicMute']
        /\ UNCHANGED failed
     \/ /\ RpcFails
        /\ failed' = TRUE
        /\ UNCHANGED hw
  /\ UNCHANGED <<settings, playback, postproc, routing, mBuiltinMicSelected, mCurSndDevice,
                 mState, todo>>

-----------------------------------------------------------------------------
(* The steps of the calls                                                  *)

TtyOff(t) ==
  /\ At(t, "tty_off")
  /\ mTtyMode' = "off"
  /\ Done(t)
  /\ UNCHANGED <<mMode, mDualMicEnabled, outDevices, inDevices, playback, postproc, routing,
                 mutes, driver, mCurSndDevice, mState>>

\* clearCurDevice(), which does not take mLock.
Clear(t) ==
  /\ At(t, "clear")
  /\ mCurSndDevice' = "none"
  /\ Done(t)
  /\ UNCHANGED <<settings, playback, postproc, routing, mutes, driver, mState>>

\* ioctl(AUDIO_START); when it fails read() goes to standby().
Start(t) ==
  /\ At(t, "start")
  /\ \/ Done(t) /\ UNCHANGED mState
     \/ /\ mState' = "closed"
        /\ Then(t, <<"clear", "route_in">>)
  /\ UNCHANGED <<settings, playback, postproc, routing, mutes, driver, mCurSndDevice>>

\* The end of standby() of the output stream.
Stop(t) ==
  /\ At(t, "stop")
  /\ playback_in_progress' = FALSE /\ mStandby' = TRUE
  /\ Done(t)
  /\ UNCHANGED <<mStartCount, settings, postproc, routing, mutes, driver, mCurSndDevice,
                 mState>>

\* msm72xx_enable_postproc() up to its last ioctl: each of its branches takes
\* the mask with one of the *_DISABLE.
Configure == IF snd_device = "none" THEN post_proc_feature_mask
             ELSE post_proc_feature_mask \intersect DISABLE

\* Its last ioctl; to disable, the mask is put together from *_DISABLE.
Apply(on) == IF snd_device = "none" THEN dsp
             ELSE IF on THEN post_proc_feature_mask ELSE DISABLE

\* It is called without mLock by write() and standby().
PostProc(t) ==
  /\ \/ /\ At(t, "post_on") \/ At(t, "post_off")
        /\ post_proc_feature_mask' = Configure
        /\ UNCHANGED dsp
     \/ /\ At(t, "post_apply_on") \/ At(t, "post_apply_off")
        /\ dsp' = Apply(At(t, "post_apply_on"))
        /\ UNCHANGED post_proc_feature_mask
  /\ Done(t)
  /\ UNCHANGED <<settings, playback, snd_device, routing, mutes, driver, mCurSndDevice,
                 mState>>

-----------------------------------------------------------------------------
(* doRouting()                                                             *)

NoRoute == [device |-> "none", mask |-> {}]

\* Mutant: only a change of the input selects a device.
ChooseIgnoringOutput(t) ==
  LET in == IF At(t, "route_in") THEN inDevices ELSE "none"
      r == Route(in)
      switch == /\ in # "voice_call" /\ r.device # "none"
                /\ r.device # mCurSndDevice
                /\ mCurSndDevice = "none" \/ in # "none"
  IN
  /\ At(t, "route") \/ At(t, "route_in")
  /\ mLock = "nobody"
  /\ mBuiltinMicSelected' =
       IF At(t, "route_in") THEN in = "builtin_mic" ELSE mBuiltinMicSelected
  /\ IF switch THEN mLock' = t /\ stage' = "rpc" /\ new' = r /\ UNCHANGED todo
               ELSE Done(t) /\ UNCHANGED routing
  /\ UNCHANGED <<settings, playback, postproc, driver, mMicMute, mCurSndDevice, mState>>

\* mLock is taken and a device picked; if it is the current one, or none, or
\* the input records a call, there is nothing to do.
Choose(t) ==
  LET in == IF At(t, "route_in") THEN inDevices ELSE "none"
      r == Route(in)
      switch == in # "voice_call" /\ r.device # "none" /\ r.device # mCurSndDevice
  IN
  /\ At(t, "route") \/ At(t, "route_in")
  /\ mLock = "nobody"
  /\ mBuiltinMicSelected' =
       IF At(t, "route_in") THEN in = "builtin_mic" ELSE mBuiltinMicSelected
  /\ IF switch THEN mLock' = t /\ stage' = "rpc" /\ new' = r /\ UNCHANGED todo
               ELSE Done(t) /\ UNCHANGED routing
  /\ UNCHANGED <<settings, playback, postproc, driver, mMicMute, mCurSndDevice, mState>>

Stage(t, from, to) == mLock = t /\ stage = from /\ stage' = to

\* do_route_audio_rpc(): the mic is muted first in any case; either of the two
\* ioctls may fail, and what it returns is not looked at.
DoRoute(t) ==
  LET full == [device |-> new.device, ear_mute |-> EarMute(new.device),
               mic_mute |-> mMicMute] IN
  /\ Stage(t, "rpc", "post_off")
  /\ \/ hw' = full /\ failed' = FALSE
     \/ /\ RpcFails
        /\ hw' \in {hw} \union (IF mMicMute THEN {} ELSE {[full EXCEPT !.mic_mute = TRUE]})
        /\ failed' = TRUE
  /\ UNCHANGED <<settings, playback, postproc, mLock, new, mutes, mCurSndDevice, mState, todo>>

\* "disable post proc first for previous session"
PostOff(t) ==
  /\ \/ /\ Stage(t, "post_off", IF playback_in_progress THEN "post_apply_off" ELSE "switch")
        /\ post_proc_feature_mask' =
             IF playback_in_progress THEN Configure ELSE post_proc_feature_mask
        /\ UNCHANGED dsp
     \/ /\ Stage(t, "post_apply_off", "switch")
        /\ dsp' = Apply(FALSE)
        /\ UNCHANGED post_proc_feature_mask
  /\ UNCHANGED <<settings, playback, snd_device, mLock, new, mutes, driver, mCurSndDevice,
                 mState, todo>>

Switch(t) ==
  /\ Stage(t, "switch", "post_on")
  /\ snd_device' = new.device /\ post_proc_feature_mask' = new.mask
  /\ UNCHANGED <<settings, playback, dsp, mLock, new, mutes, driver, mCurSndDevice, mState,
                 todo>>

\* "enable post proc for new device"
PostOn(t) ==
  /\ \/ /\ Stage(t, "post_on", IF playback_in_progress THEN "post_apply_on" ELSE "store")
        /\ post_proc_feature_mask' =
             IF playback_in_progress THEN Configure ELSE post_proc_feature_mask
        /\ UNCHANGED dsp
     \/ /\ Stage(t, "post_apply_on", "store")
        /\ dsp' = Apply(TRUE)
        /\ UNCHANGED post_proc_feature_mask
  /\ UNCHANGED <<settings, playback, snd_device, mLock, new, mutes, driver, mCurSndDevice,
                 mState, todo>>

\* The end of doRouting().
Store(t) ==
  /\ Stage(t, "store", "none")
  /\ mCurSndDevice' = new.device
  /\ mLock' = "nobody" /\ new' = NoRoute
  /\ Done(t)
  /\ UNCHANGED <<settings, playback, postproc, mutes, driver, mState>>

DoRouting(t) == Choose(t) \/ DoRoute(t) \/ PostOff(t) \/ Switch(t) \/ PostOn(t) \/ Store(t)

Step(t) == TtyOff(t) \/ Clear(t) \/ Start(t) \/ Stop(t) \/ PostProc(t) \/ DoRouting(t)

Next ==
  \/ OutSetParameters \/ OutWrite \/ OutStandby
  \/ InSetParameters \/ InRead \/ InStandby
  \/ SetMode \/ SetTtyMode \/ SetDualMic \/ SetBluetoothName \/ SetMicMute
  \/ \E t \in Threads : Step(t)

Spec == Init /\ [][Next]_vars

-----------------------------------------------------------------------------

Devices == Endpoints \union {"none"}

Steps == {"tty_off", "clear", "route", "route_in", "start", "stop", "post_on", "post_off",
          "post_apply_on", "post_apply_off"}

TypeOK ==
  /\ mMode \in ModeValues /\ mTtyMode \in {"off", "vco", "hco", "full", "garbage"}
  /\ mMicMute \in BOOLEAN /\ mBuiltinMicSelected \in BOOLEAN /\ mDualMicEnabled \in BOOLEAN
  /\ mCurSndDevice \in Devices /\ snd_device \in Devices
  /\ outDevices \in Outputs /\ inDevices \in Inputs \union {"none"}
  /\ mStandby \in BOOLEAN /\ mStartCount \in 0..AUDIO_HW_NUM_OUT_BUF
  /\ playback_in_progress \in BOOLEAN
  /\ mState \in {"closed", "opened", "started"}
  /\ post_proc_feature_mask \subseteq Features /\ dsp \subseteq Features
  /\ hw \in [device : Devices, ear_mute : BOOLEAN, mic_mute : BOOLEAN]
  /\ failed \in BOOLEAN
  /\ mLock \in Threads \union {"nobody"}
  /\ stage \in {"none", "rpc", "post_off", "post_apply_off", "switch", "post_on",
                "post_apply_on", "store"}
  /\ new \in [device : Devices, mask : SUBSET Features]
  /\ todo \in [Threads -> Seq(Steps)]

\* What doRouting() remembers is where the driver and the post processing
\* are, although clearCurDevice() comes at any time: only then is it right to
\* skip a switch to mCurSndDevice.
DeviceCoherent ==
  mLock = "nobody" /\ mCurSndDevice # "none" =>
    snd_device = mCurSndDevice /\ (~failed => hw.device = mCurSndDevice)

\* The driver mutes the microphone as setMicMute() was told last, across
\* every switch of the device.
MicMuteCoherent ==
  mLock = "nobody" /\ ~failed => hw.mic_mute = mMicMute

\* When no call is in progress the device is one that the settings ask for
\* now: whatever two threads change and in which order they come to
\* doRouting(), no outdated choice is left.  A device that is not among the
\* endpoints, and an input that records a call, change nothing.
RouteIsCurrent ==
  LET routes == {Route("none").device, Route(inDevices).device} IN
  Quiet /\ ~failed /\ mCurSndDevice # "none" /\ "none" \notin routes
        /\ inDevices # "voice_call" => hw.device \in routes

\* setMode() takes effect with the next doRouting(): "make sure that
\* doAudioRouteOrMute() is called by doRouting() even if the new device
\* selected is the same as current one".
ModeTakesEffect ==
  Quiet /\ ~failed /\ mCurSndDevice \notin {"none", "HANDSET"} => hw.ear_mute = ~isInCall

\* "enable routing to earpiece (unmute) if mic is selected as input", for an
\* input that is recording.
EarpieceWhileRecording ==
  Quiet /\ ~failed /\ mState = "started" /\ mBuiltinMicSelected
        /\ hw.device = "HANDSET" => ~hw.ear_mute

\* standby() of the input stream is to "restore output routing if necessary":
\* after it the device is the one of the output.
StandbyRestores ==
  Quiet /\ mState = "closed" /\ mCurSndDevice # "none" =>
    mCurSndDevice = Route("none").device

\* "Headset speaker combo device not supported on this target"
NoComboDevice == hw.device # "HEADSET_AND_SPEAKER"

\* A stream that plays through a device with filters has them: "enable post
\* processing", "enable post proc for new device".
PostProcessed ==
  Quiet /\ playback_in_progress /\ snd_device = "SPEAKER" => dsp # {}
=============================================================================

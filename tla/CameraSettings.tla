--------------------------- MODULE CameraSettings ---------------------------
(***************************************************************************)
(* libcamera/QualcommCameraHardware.cpp: setParameters(), the parameters   *)
(* that getParameters() reports, what the driver has been told of them,    *)
(* and the exif table of a picture.                                        *)
(*                                                                         *)
(* The call of initDefaultParameters() in createInstance() is commented    *)
(* out.  Without it sensorType is a null pointer, which setParameters()    *)
(* follows: the first one crashes.  The model has both programs: one that  *)
(* goes on without initDefaultParameters(), and one in which it is called  *)
(* as everything else in the file assumes.                                 *)
(* "null" is a parameter that is not there.  Settings of several numbers   *)
(* that the code treats alike (jpeg qualities, the parts of the location)  *)
(* are one parameter each.                                                 *)
(***************************************************************************)
EXTENDS CameraSizes, TLC

CONSTANTS
  Offered,        \* the changes that a client asks for, as functions
  FromCurrent,    \* to what getParameters() returns, or to the defaults
  Sensor,         \* what findSensorType() finds
  SensorName,     \* mSensorInfo.name
  FlashEnabled,   \* mSensorInfo.flash_enabled
  Refused,        \* sets of driver parameters that one call may see refused
  MaxZooms,       \* what the driver may report as the maximum zoom
  MaxPictures     \* bound: pictures between two starts of the preview

VARIABLES
  mParameters,    \* the settings
  driver,         \* the last value of each that the driver took
  mHJR, mBrightness, mMaxZoom, mInitialized,
  exif_data,      \* tags of the table; exif_table_numEntries is its length
  taken,          \* pictures since the preview started
  crashed         \* a null sensorType was followed

vars == <<mParameters, driver, mHJR, mBrightness, mMaxZoom, mInitialized, exif_data,
          taken, crashed>>

-----------------------------------------------------------------------------
(* The tables: names of the parameters and values of the driver            *)

whitebalance ==
  "auto" :> "WB_AUTO" @@ "incandescent" :> "WB_INCANDESCENT" @@ "fluorescent" :> "WB_FLUORESCENT"
    @@ "daylight" :> "WB_DAYLIGHT" @@ "cloudy-daylight" :> "WB_CLOUDY_DAYLIGHT"
effects ==
  "none" :> "EFFECT_OFF" @@ "mono" :> "EFFECT_MONO" @@ "negative" :> "EFFECT_NEGATIVE"
    @@ "solarize" :> "EFFECT_SOLARIZE" @@ "sepia" :> "EFFECT_SEPIA"
    @@ "posterize" :> "EFFECT_POSTERIZE" @@ "whiteboard" :> "EFFECT_WHITEBOARD"
    @@ "blackboard" :> "EFFECT_BLACKBOARD" @@ "aqua" :> "EFFECT_AQUA"
autoexposure ==
  "frame-average" :> "AEC_FRAME_AVERAGE" @@ "center-weighted" :> "AEC_CENTER_WEIGHTED"
    @@ "spot-metering" :> "AEC_SPOT_METERING"
flash == "off" :> "LED_OFF" @@ "auto" :> "LED_AUTO" @@ "on" :> "LED_ON" @@ "torch" :> "LED_ON"
iso ==
  "auto" :> "ISO_AUTO" @@ "ISO_HJR" :> "ISO_DEBLUR" @@ "ISO100" :> "ISO_100"
    @@ "ISO200" :> "ISO_200" @@ "ISO400" :> "ISO_400" @@ "ISO800" :> "ISO_800"
focus_modes == {"auto", "infinity", "normal", "macro"}
lensshade == "enable" :> TRUE @@ "disable" :> FALSE
picture_formats == {"jpeg", "raw"}

\* Effects that replace the colours.
ColourEffects == {"EFFECT_MONO", "EFFECT_NEGATIVE", "EFFECT_AQUA", "EFFECT_SEPIA"}

\* What initDefaultParameters() sets.
Defaults ==
  [preview |-> Pair(640, 480), fps |-> 15, picture |-> Pair(1024, 768), quality |-> 85,
   exposure |-> "frame-average", wb |-> "auto", effect |-> "none",
   flash |-> IF FlashEnabled THEN "off" ELSE "null", gps |-> {}, rotation |-> "null",
   zoom |-> 0, focus |-> "auto", orientation |-> "null", brightness |-> 3, expcomp |-> 2,
   lens |-> "enable", iso |-> "auto", format |-> "jpeg", sharpness |-> 2, contrast |-> 3,
   saturation |-> 2]

\* A new object has no parameters.
NoParameters == [k \in DOMAIN Defaults |-> IF k = "gps" THEN {} ELSE "null"]

\* Parameters of native_set_parm().
DriverParms == {"fps", "exposure", "wb", "effect", "flash", "zoom", "brightness", "expcomp",
                "lens", "iso", "hjr", "sharpness", "contrast", "saturation"}

-----------------------------------------------------------------------------
(* The setters: c is [par, drv, hjr, bright], p the parameters asked for,  *)
(* F the driver parameters that are refused in this call.                  *)

Is2mp == Sensor.name = "2mp"
Vx6953 == SensorName \in {"vx6953", "VX6953"}
Ov5642 == SensorName = "ov5642"

Store(c, k, v) == [c EXCEPT !.par[k] = v]
native_set_parm(c, k, v, F) == IF k \in F THEN c ELSE [c EXCEPT !.drv[k] = v]
Set(c, k, v, value, F) == native_set_parm(Store(c, k, v), k, value, F)
attr_lookup(table, v) == IF v \in DOMAIN table THEN table[v] ELSE "NOT_FOUND"

SetAttr(c, p, F, k, table) ==
  IF p[k] \in DOMAIN table THEN Set(c, k, p[k], attr_lookup(table, p[k]), F) ELSE c
SetRange(c, p, F, k, range) ==
  IF p[k] \in range THEN Set(c, k, p[k], p[k], F) ELSE c
StoreIf(c, p, k, S) == IF p[k] \in S THEN Store(c, k, p[k]) ELSE c

\* The lists that initDefaultParameters() makes.
PreviewSizes == ToSet(filterPreviewSizes(SensorName, Sensor))
PictureSizes == ToSet(filterPictureSizes(Sensor))

MINIMUM_FPS == 10
MAXIMUM_FPS == 25
CAMERA_MAX_SHARPNESS == 4
CAMERA_MAX_CONTRAST == 4
CAMERA_MAX_SATURATION == 4

setPreviewSize(c, p) == StoreIf(c, p, "preview", PreviewSizes)

setPreviewFrameRate(c, p, F) ==
  IF Vx6953 \/ Is2mp \/ (mInitialized /\ p.fps = c.par.fps) THEN c
  ELSE SetRange(c, p, F, "fps", MINIMUM_FPS..MAXIMUM_FPS)

\* A size of the list, which one sensor cannot have as large, or a valid one.
setPictureSize(c, p) ==
  LET listed == p.picture \in PictureSizes
  IN IF listed /\ Ov5642 /\ p.picture.width = 2592 THEN Store(c, "picture", Pair(2560, 1920))
     ELSE IF listed \/ isValidDimension(p.picture, Sensor) THEN Store(c, "picture", p.picture)
     ELSE c

setJpegQuality(c, p) == StoreIf(c, p, "quality", 1..100)

\* Returns before it does anything, for every sensor.
setAntibanding(c) == c

setAutoExposure(c, p, F) == IF Is2mp THEN c ELSE SetAttr(c, p, F, "exposure", autoexposure)

\* Not while an effect replaces the colours: the one in use, not the one asked for.
setWhiteBalance(c, p, F) ==
  IF attr_lookup(effects, c.par.effect) \in ColourEffects THEN c
  ELSE SetAttr(c, p, F, "wb", whitebalance)

\* A mutant: a colour effect is set whatever the white balance is.
setEffectAnyway(c, p, F) == SetAttr(c, p, F, "effect", effects)

setEffect(c, p, F) ==
  LET value == attr_lookup(effects, p.effect)
  IN IF \/ /\ Is2mp /\ value \notin {"EFFECT_OFF", "EFFECT_MONO", "EFFECT_NEGATIVE",
                                     "EFFECT_SOLARIZE", "EFFECT_SEPIA"}
        \/ value \in ColourEffects /\ attr_lookup(whitebalance, c.par.wb) # "WB_AUTO"
     THEN c ELSE SetAttr(c, p, F, "effect", effects)

setFlash(c, p, F) == IF FlashEnabled THEN SetAttr(c, p, F, "flash", flash) ELSE c
setGpsLocation(c, p) == Store(c, "gps", c.par.gps \union p.gps)
setRotation(c, p) == StoreIf(c, p, "rotation", {"0", "90", "180", "270"})
setZoom(c, p, F) == SetRange(c, p, F, "zoom", 0..mMaxZoom)
setFocusMode(c, p) == StoreIf(c, p, "focus", focus_modes)
setOrientation(c, p) == StoreIf(c, p, "orientation", {"portrait", "landscape"})

\* Kept in mBrightness only: mParameters has the default.
setBrightness(c, p, F) ==
  IF p.brightness = c.bright THEN c
  ELSE native_set_parm([c EXCEPT !.bright = p.brightness], "brightness", p.brightness, F)

setExposureCompensation(c, p, F) == Set(c, "expcomp", p.expcomp, p.expcomp + 2, F)

setLensshadeValue(c, p, F) ==
  IF Is2mp \/ Vx6953 \/ Ov5642 THEN c ELSE SetAttr(c, p, F, "lens", lensshade)

\* Hand jitter reduction is an iso mode of its own and a switch of the driver.
setISOValue(c, p, F) ==
  LET value == attr_lookup(iso, p.iso)
      hjr == IF value = "ISO_DEBLUR"
             THEN [native_set_parm(c, "hjr", TRUE, F) EXCEPT !.hjr = value]
             ELSE IF c.hjr = "ISO_DEBLUR"
             THEN [native_set_parm(c, "hjr", FALSE, F) EXCEPT !.hjr = value]
             ELSE c
  IN IF value = "NOT_FOUND" THEN c ELSE Set(hjr, "iso", p.iso, value, F)

setPictureFormat(c, p) == StoreIf(c, p, "format", picture_formats)
setSharpness(c, p, F) == IF Is2mp THEN c ELSE SetRange(c, p, F, "sharpness", 0..CAMERA_MAX_SHARPNESS)
setContrast(c, p, F) == IF Is2mp THEN c ELSE SetRange(c, p, F, "contrast", 0..CAMERA_MAX_CONTRAST)

\* By the effect that is asked for, not the one in use.
setSaturation(c, p, F) ==
  IF Is2mp \/ attr_lookup(effects, p.effect) \in ColourEffects THEN c
  ELSE SetRange(c, p, F, "saturation", 0..CAMERA_MAX_SATURATION)

\* In the order of setParameters(), which ignores what each returns.
Apply(par, p, F) ==
  LET c0 == [par |-> par, drv |-> driver, hjr |-> mHJR, bright |-> mBrightness]
      c1 == setPictureSize(setPreviewFrameRate(setPreviewSize(c0, p), p, F), p)
      c2 == setAutoExposure(setAntibanding(setJpegQuality(c1, p)), p, F)
      c3 == setFlash(setEffect(setWhiteBalance(c2, p, F), p, F), p, F)
      c4 == setZoom(setRotation(setGpsLocation(c3, p), p), p, F)
      c5 == setBrightness(setOrientation(setFocusMode(c4, p), p), p, F)
      c6 == setLensshadeValue(setExposureCompensation(c5, p, F), p, F)
      c7 == setPictureFormat(setISOValue(c6, p, F), p)
  IN setSaturation(setContrast(setSharpness(c7, p, F), p, F), p, F)

\* sensorType is followed by setAntibanding() at the latest, whatever is asked for.
setParameters(p, F) ==
  LET c == Apply(mParameters, p, F)
  IN \/ /\ mInitialized
        /\ mParameters' = c.par /\ driver' = c.drv /\ mHJR' = c.hjr /\ mBrightness' = c.bright
        /\ UNCHANGED <<mMaxZoom, mInitialized, exif_data, taken, crashed>>
     \/ /\ ~mInitialized /\ crashed' = TRUE
        /\ UNCHANGED <<mParameters, driver, mHJR, mBrightness, mMaxZoom, mInitialized,
                       exif_data, taken>>

-----------------------------------------------------------------------------
(* The exif table                                                          *)

MAX_EXIF_TABLE_ENTRIES == 7

addExifTag(table, tag) ==
  IF Len(table) = MAX_EXIF_TABLE_ENTRIES THEN table ELSE Append(table, tag)

\* Latitude first: without it there is no location at all.
setGpsParameters ==
  LET g == mParameters.gps
  IN IF "latitude" \notin g THEN <<>>
     ELSE <<"latitude">>
       \o (IF "latitude-ref" \in g THEN <<"latitude-ref">> ELSE <<>>)
       \o (IF "longitude" \in g THEN <<"longitude">> ELSE <<>>)
       \o (IF {"longitude", "longitude-ref"} \subseteq g THEN <<"longitude-ref">> ELSE <<>>)
       \o (IF "altitude" \in g THEN <<"altitude">> ELSE <<>>)
       \o (IF {"altitude", "altitude-ref"} \subseteq g THEN <<"altitude-ref">> ELSE <<>>)

\* native_jpeg_encode(): the tags of this picture behind those already there.
native_jpeg_encode ==
  /\ taken < MaxPictures /\ taken' = taken + 1
  /\ exif_data' = FoldLeft(addExifTag, exif_data,
                     setGpsParameters \o <<"datetime-original", "datetime", "maker", "model">>)
  /\ UNCHANGED <<mParameters, driver, mHJR, mBrightness, mMaxZoom, mInitialized, crashed>>

\* startPreviewInternal(), as far as it touches the settings.
StartPreview(zoom) ==
  /\ exif_data' = <<>> /\ taken' = 0 /\ mMaxZoom' = zoom
  /\ UNCHANGED <<mParameters, driver, mHJR, mBrightness, mInitialized, crashed>>

-----------------------------------------------------------------------------

Init ==
  /\ mParameters = NoParameters /\ driver = [k \in DriverParms |-> "unset"]
  /\ mHJR = "none" /\ mBrightness = 0 /\ mMaxZoom = 0 /\ mInitialized = FALSE
  /\ exif_data = <<>> /\ taken = 0 /\ crashed = FALSE

\* What createInstance() would do but for the comment: the defaults, findSensorType(),
\* and setParameters() of them.
initDefaultParameters ==
  LET c == Apply(Defaults, Defaults, {})
  IN /\ ~mInitialized /\ mInitialized' = TRUE
     /\ mParameters' = c.par /\ driver' = c.drv /\ mHJR' = c.hjr /\ mBrightness' = c.bright
     /\ UNCHANGED <<mMaxZoom, exif_data, taken, crashed>>

Next ==
  /\ ~crashed
  /\ \/ initDefaultParameters
     \/ \E o \in Offered, F \in Refused :
          setParameters(o @@ (IF FromCurrent THEN mParameters ELSE Defaults), F)
     \/ \E zoom \in MaxZooms : StartPreview(zoom)
     \/ native_jpeg_encode

Spec == Init /\ [][Next]_vars

-----------------------------------------------------------------------------

\* What a setting means to the driver.
Meaning(k) ==
  CASE k = "wb" -> attr_lookup(whitebalance, mParameters.wb)
    [] k = "effect" -> attr_lookup(effects, mParameters.effect)
    [] k = "exposure" -> attr_lookup(autoexposure, mParameters.exposure)
    [] k = "flash" -> attr_lookup(flash, mParameters.flash)
    [] k = "iso" -> attr_lookup(iso, mParameters.iso)
    [] k = "lens" -> attr_lookup(lensshade, mParameters.lens)
    [] k = "expcomp" -> mParameters.expcomp + 2
    [] k = "brightness" -> mBrightness
    [] k = "hjr" -> mParameters.iso = "ISO_HJR"
    [] OTHER -> mParameters[k]

\* No client crashes the media server with setParameters().
SettersSurvive == ~crashed

\* As long as the driver refuses nothing, it has every setting as getParameters()
\* reports it: the settings that a setter skips, because of another one or of
\* the sensor, are neither reported nor set.
DriverFollows ==
  Refused = {{}} =>
    \A k \in DriverParms :
      ToString(driver[k]) = "\"unset\"" \/ ToString(driver[k]) = ToString(Meaning(k))

\* A colour effect and a white balance other than auto are never both reported,
\* in whatever order and in how many calls they were asked for.
ColoursExclusive ==
  mParameters.effect \in DOMAIN effects /\ effects[mParameters.effect] \in ColourEffects =>
    mParameters.wb = "auto"

\* The table never outgrows its array, and a picture taken after the preview was
\* started has no tag twice.
ExifSound ==
  /\ Len(exif_data) <= MAX_EXIF_TABLE_ENTRIES
  /\ taken <= 1 => IsInjective(exif_data)

\* "Set maker and model": every picture after a start of the preview has both.
MakerAndModel == taken = 1 => {"maker", "model"} \subseteq ToSet(exif_data)
=============================================================================

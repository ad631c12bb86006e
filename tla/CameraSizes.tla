---------------------------- MODULE CameraSizes ----------------------------
(***************************************************************************)
(* libcamera/QualcommCameraHardware.cpp: the sizes the camera offers and   *)
(* accepts, the buffers that are made for them, and the copying of a       *)
(* zoomed picture.  Everything here is a function of its arguments.        *)
(***************************************************************************)
EXTENDS Integers, Sequences, SequencesExt

Pair(w, h) == [width |-> w, height |-> h]

preview_sizes ==
  << Pair(1280, 720), Pair(800, 480), Pair(768, 432), Pair(720, 480), Pair(640, 480),
     Pair(576, 432), Pair(480, 320), Pair(384, 288), Pair(352, 288), Pair(320, 240),
     Pair(240, 160), Pair(176, 144) >>

picture_sizes ==
  << Pair(2592, 1944), Pair(2560, 1920), Pair(2048, 1536), Pair(1600, 1200),
     Pair(1280, 768), Pair(1280, 720), Pair(1024, 768), Pair(800, 480), Pair(640, 480),
     Pair(352, 288), Pair(320, 240), Pair(176, 144) >>

\* thumbnail_sizes[], by aspect ratio in Q12.
thumbnail_sizes ==
  << [ratio |-> 7281, size |-> Pair(512, 288)], [ratio |-> 6826, size |-> Pair(480, 288)],
     [ratio |-> 6144, size |-> Pair(432, 288)], [ratio |-> 5461, size |-> Pair(512, 384)],
     [ratio |-> 5006, size |-> Pair(352, 288)] >>

sensorTypes ==
  << [name |-> "5mp", rawHeight |-> 1960, focus |-> TRUE,  max |-> Pair(2592, 1944), bitMask |-> 4095],
     [name |-> "5mp", rawHeight |-> 1944, focus |-> FALSE, max |-> Pair(2592, 1944), bitMask |-> 4095],
     [name |-> "3mp", rawHeight |-> 1544, focus |-> FALSE, max |-> Pair(2048, 1536), bitMask |-> 2047],
     [name |-> "2mp", rawHeight |-> 1200, focus |-> FALSE, max |-> Pair(1600, 1200), bitMask |-> 2047] >>

\* The first sensor of the height the driver reports, and the first of all if
\* there is none or the driver does not answer.
findSensorType(ret, rawHeight) ==
  LET found == {i \in DOMAIN sensorTypes : sensorTypes[i].rawHeight = rawHeight}
  IN IF ret /\ found # {} THEN sensorTypes[CHOOSE i \in found : \A j \in found : i <= j]
     ELSE sensorTypes[1]

Bit(mask, n) == (mask \div 2^n) % 2 = 1

\* previewSizeMask of TARGET_MSM7627, 0x6ff, and 0xff for one sensor.
boardMask(sensorName) == IF sensorName = "ov5642" THEN 255 ELSE 1791

\* The preview sizes whose bit, from the highest, is in both masks.
filterPreviewSizes(sensorName, sensor) ==
  LET n == Len(preview_sizes)
      Kept(i) == Bit(boardMask(sensorName), n - i) /\ Bit(sensor.bitMask, n - i)
      kept == SelectSeq([i \in 1..n |-> i], Kept)
  IN [i \in 1..Len(kept) |-> preview_sizes[kept[i]]]

Within(s, max) == s.width <= max.width /\ s.height <= max.height

\* All picture sizes from the first that the sensor has.
filterPictureSizes(sensor) ==
  LET fits == {i \in DOMAIN picture_sizes : Within(picture_sizes[i], sensor.max)}
      first == CHOOSE i \in fits : \A j \in fits : i <= j
  IN SubSeq(picture_sizes, first, Len(picture_sizes))

\* The macro of that name: it rounds down.
CEILING16(x) == 16 * (x \div 16)

AspectRatio(s) == (s.width * 4096) \div s.height
RatioIndex(s) == {i \in DOMAIN thumbnail_sizes : thumbnail_sizes[i].ratio = AspectRatio(s)}

isValidDimension(s, sensor) ==
  /\ s.width = CEILING16(s.width) /\ s.height = CEILING16(s.height)
  /\ Within(s, sensor.max)
  /\ RatioIndex(s) # {}

\* The thumbnail that initRaw() asks for.
Thumbnail(picture) ==
  IF picture.height > thumbnail_sizes[3].size.height
  THEN IF RatioIndex(picture) # {}
       THEN thumbnail_sizes[CHOOSE i \in RatioIndex(picture) : \A j \in RatioIndex(picture) : i <= j].size
       ELSE thumbnail_sizes[3].size
  ELSE Pair((144 * picture.width) \div picture.height, 144)

-----------------------------------------------------------------------------
(* Buffers.  A pool is [buffer_size, num_buffers, frame_size, name].       *)

PageSize == 4096
AlignedBufferSize(size) == ((size + PageSize - 1) \div PageSize) * PageSize

kPreviewBufferCount == 4
NUM_MORE_BUFS == 2

Yuv(s) == (s.width * s.height * 3) \div 2

\* The pools that initPreview() and initRaw() make.
PreviewPool(s) ==
  [name |-> "preview", buffer_size |-> Yuv(s), frame_size |-> Yuv(s),
   num_buffers |-> kPreviewBufferCount + NUM_MORE_BUFS]
RawPool(s) ==
  [name |-> "snapshot", frame_size |-> Yuv(s), num_buffers |-> 1,
   buffer_size |-> (CEILING16(s.width) * CEILING16(s.height) * 3) \div 2]
ThumbnailPool(s) ==
  [name |-> "thumbnail", buffer_size |-> Yuv(Thumbnail(s)), frame_size |-> Yuv(Thumbnail(s)),
   num_buffers |-> 1]

HeapSize(p) == AlignedBufferSize(p.buffer_size) * p.num_buffers
BufferAt(p, i) == AlignedBufferSize(p.buffer_size) * i

\* How many buffers the constructor and the destructor of a PmemPool tell the
\* driver of, and which of them the driver may write to at first.
RegisteredCount(p) == IF p.name = "preview" THEN kPreviewBufferCount ELSE p.num_buffers
register_buf(p) ==
  {[offset |-> BufferAt(p, i), len |-> p.buffer_size,
    active |-> p.name # "preview" \/ i < RegisteredCount(p) - 1]
     : i \in 0..(RegisteredCount(p) - 1)}
UnregisteredOffsets(p) == {BufferAt(p, i) : i \in 0..(RegisteredCount(p) - 1)}

\* A mutant: the zoomed frame goes to a buffer after the last one.
ZoomBufferLast(dstOffset) == kPreviewBufferCount + 1 + ((dstOffset + 1) % NUM_MORE_BUFS)

\* The buffer that receivePreviewFrame() puts a zoomed frame in.
ZoomBuffer(dstOffset) == kPreviewBufferCount + ((dstOffset + 1) % NUM_MORE_BUFS)

\* Where the rectangle that native_zoom_image() enlarges begins; out is what the
\* driver delivered and in what is shown.  The field is unsigned: -1 is huge.
ZoomOrigin(out, in) == (out - in + 1) \div 2 - 1

-----------------------------------------------------------------------------
(* crop_yuv420: in place, row by row.  An image is a function from its     *)
(* bytes to the bytes of the picture they came from.                       *)

CopyRow(image, dst, src, n) ==
  [b \in DOMAIN image |-> IF b \in dst..(dst + n - 1) THEN image[src + b - dst] ELSE image[b]]

crop_yuv420(width, height, cropped_width, cropped_height, image) ==
  LET x == (((width - cropped_width) \div 2) \div 2) * 2
      y == (((height - cropped_height) \div 2) \div 2) * 2
      Luma[i \in 0..cropped_height] ==
        IF i = 0 THEN image
        ELSE CopyRow(Luma[i - 1], (i - 1) * cropped_width, width * (y + i - 1) + x, cropped_width)
      Chroma[i \in 0..(cropped_height \div 2)] ==
        IF i = 0 THEN Luma[cropped_height]
        ELSE CopyRow(Chroma[i - 1], cropped_width * cropped_height + (i - 1) * cropped_width,
                     width * height + width * (y \div 2 + i - 1) + x, cropped_width)
  IN Chroma[cropped_height \div 2]

-----------------------------------------------------------------------------
(* camera_get_location: the table of countries, and those with 60 Hz.      *)

country_numeric ==
  << 202, 204, 206, 208, 212, 213, 214, 216, 219, 220, 222, 226, 228, 230, 231, 232,
     234, 235, 238, 240, 242, 244, 246, 247, 248, 250, 255, 257, 259, 260, 262, 266,
     268, 270, 272, 274, 276, 278, 280, 282, 283, 284, 286, 288, 290, 293, 294, 295,
     297, 302, 310, 311, 312, 313, 314, 315, 316, 330, 334, 338, 340, 342, 346, 350,
     352, 354, 362, 363, 364, 365, 366, 368, 370, 372, 401, 402, 404, 405, 410, 413,
     414, 415, 416, 417, 418, 419, 420, 421, 422, 424, 425, 426, 427, 428, 429, 430,
     431, 432, 434, 436, 437, 438, 440, 441, 452, 454, 455, 456, 457, 460, 466, 470,
     472, 502, 505, 510, 514, 515, 520, 525, 530, 535, 536, 537, 539, 541, 542, 544,
     545, 546, 548, 602, 603, 604, 605, 606, 607, 608, 609, 610, 611, 613, 614, 616,
     617, 618, 619, 620, 621, 622, 623, 624, 625, 627, 631, 633, 634, 636, 637, 638,
     639, 640, 641, 642, 643, 645, 646, 647, 648, 649, 650, 651, 652, 653, 654, 655,
     657, 702, 704, 706, 708, 710, 712, 714, 722, 724, 730, 732, 734, 736, 738, 740,
     742, 744, 746, 748, 750 >>

SixtyHz ==
  {302, 310, 311, 312, 313, 314, 315, 316, 330, 334, 346, 350, 354, 363, 364, 365, 368,
   370, 372, 420, 440, 441, 466, 515, 535, 544, 702, 704, 706, 708, 710, 712, 714, 724,
   732, 734, 738, 740, 746}

Hertz(code) == IF code \in SixtyHz THEN 60 ELSE 50

\* The binary search of camera_get_location(); 60 Hz for a country not listed.
camera_get_location(code) ==
  LET n == Len(country_numeric)
      Search[left \in 0..n, right \in -1..(n - 1)] ==
        IF left > right THEN 60
        ELSE LET index == (left + right) \div 2
                 here == country_numeric[index + 1]
             IN IF here = code THEN Hertz(here)
                ELSE IF here > code THEN Search[left, index - 1] ELSE Search[index + 1, right]
  IN Search[0, n - 1]

-----------------------------------------------------------------------------

\* The picture sizes that are offered are ones the sensor has, although only the
\* first of them is compared with it.
OfferedFit(sensor) ==
  \A i \in DOMAIN filterPictureSizes(sensor) : Within(filterPictureSizes(sensor)[i], sensor.max)

\* The pixel at row r and column c of the cropped picture is the one at row
\* r + y and column c + x, in luma and in the chroma of its block of four, for
\* the centred even x and y.
CropIsCentred(w, h, cw, ch) ==
  LET image == crop_yuv420(w, h, cw, ch, [b \in 0..((w * h * 3) \div 2 - 1) |-> b])
      x == ((w - cw) \div 4) * 2
      y == ((h - ch) \div 4) * 2
  IN \A r \in 0..(ch - 1), c \in 0..(cw - 1) :
       /\ image[cw * r + c] = w * (r + y) + c + x
       /\ \A k \in 0..1 :
            image[cw * ch + cw * (r \div 2) + (c \div 2) * 2 + k] =
              w * h + w * ((r + y) \div 2) + ((c + x) \div 2) * 2 + k

\* What is registered with the driver lies in the heap without overlap and is
\* what is unregistered later; a zoomed frame goes to a buffer of the heap that
\* the driver does not know, as the comment on NUM_MORE_BUFS says.
PoolSound(p) ==
  /\ {b.offset : b \in register_buf(p)} = UnregisteredOffsets(p)
  /\ \A b \in register_buf(p) :
       /\ b.offset + b.len <= HeapSize(p)
       /\ \A c \in register_buf(p) \ {b} :
            b.offset + b.len <= c.offset \/ c.offset + c.len <= b.offset
  /\ p.name = "preview" =>
       \A d \in 0..(NUM_MORE_BUFS - 1) :
         /\ BufferAt(p, ZoomBuffer(d)) + p.frame_size <= HeapSize(p)
         /\ BufferAt(p, ZoomBuffer(d)) \notin UnregisteredOffsets(p)

\* A frame fits into each buffer of its pool.
FrameFits(p) == p.frame_size <= AlignedBufferSize(p.buffer_size)

\* The search finds every country of the table and nothing else.
LocationFound(code) ==
  camera_get_location(code) =
    IF \E i \in DOMAIN country_numeric : country_numeric[i] = code THEN Hertz(code) ELSE 60

\* The rectangle that is enlarged lies in the frame, if anything is cut off.
ZoomInside(out, in) ==
  in < out => ZoomOrigin(out, in) >= 0 /\ ZoomOrigin(out, in) + in <= out
=============================================================================

---------------------------- MODULE BufferSizes ----------------------------
(***************************************************************************)
(* The sizes that libgralloc computes: gpu_context_t::alloc_impl() for the *)
(* buffers it allocates, calculateBufferSize() for those it is asked       *)
(* about, and clp2() for the mappings of /dev/pmem_adsp.  A call takes any *)
(* arguments; TLC walks over all of them.                                  *)
(***************************************************************************)
EXTENDS Integers, Bitwise, FiniteSetsExt

CONSTANTS
  Widths, Heights,  \* of buffers, in pixels
  WordBits          \* width of unsigned in clp2(): 32, or less for checking

VARIABLES input, result

vars == <<input, result>>

-----------------------------------------------------------------------------

EINVAL == -22

\* Bytes per pixel of the packed formats.
Packed == [RGBA_8888 |-> 4, RGB_888 |-> 3, RGB_565 |-> 2]

Formats == DOMAIN Packed \union {"NV21_ADRENO", "NV12_TILED", "YV12", "NV21"}

\* Mutant: what is over a multiple is dropped.
AlignDown(n, a) == (n \div a) * a

\* (x + align-1) & ~(align-1), for a power of two
Align(n, a) == ((n + a - 1) \div a) * a

\* alloc_impl(): the size in bytes, or an error.
AllocSize(w, h, f) ==
  LET alignedw == Align(w, 32)
      alignedh == Align(h, 32)
  IN CASE f \in DOMAIN Packed -> alignedw * alignedh * Packed[f]
       [] f = "NV21_ADRENO" ->
            Align(alignedw * alignedh, 4096)
              + Align(2 * Align(w \div 2, 32) * Align(h \div 2, 32), 4096)
       [] f = "NV12_TILED" ->
            Align(Align(w, 128) * alignedh, 8192)
              + Align(Align(w, 128) * Align(h \div 2, 32), 4096)
       [] f = "YV12" /\ w % 2 = 0 /\ h % 2 = 0 ->
            Align(w, 16) * h + Align(Align(w, 16) \div 2, 16) * (h \div 2) * 2
       [] OTHER -> EINVAL

\* alloc_impl(): *pStride
Stride(w, f) ==
  CASE f = "NV12_TILED" -> Align(w, 128)
    [] f = "YV12" -> Align(w, 16)
    [] OTHER -> Align(w, 32)

\* calculateBufferSize(): 0 for a format it does not know.
CalculateBufferSize(w, h, f) ==
  CASE f = "NV12_TILED" ->
         Align(Align(Align(w, 128) * Align(h, 32), 8192)
                 + Align(w, 128) * Align(h \div 2, 32), 8192)
    [] f = "NV21_ADRENO" ->
         Align(Align(Align(w, 32) * Align(h, 32), 4096)
                 + 2 * Align(w \div 2, 32) * Align(h \div 2, 32), 4096)
    [] f = "NV21" ->
         Align(w, 16) * h + ((Align(w \div 2, 16) * h) \div 2) * 2
    [] OTHER -> 0

Word(n) == n % (2 ^ WordBits)

Smear(n, k) == n | (n \div (2 ^ k))

\* clp2(), on a word of WordBits bits
Clp2(n) ==
  Word(Smear(Smear(Smear(Smear(Smear(Word(n - 1), 1), 2), 4), 8), 16) + 1)

-----------------------------------------------------------------------------

NoInput == [op |-> "none"]

Init == input = NoInput /\ result = {}

Alloc(w, h, f) ==
  /\ input' = [op |-> "alloc", w |-> w, h |-> h, format |-> f]
  /\ result' = [size |-> AllocSize(w, h, f), stride |-> Stride(w, f),
                decoder |-> CalculateBufferSize(w, h, f)]

MapAdsp(x) ==
  /\ input' = [op |-> "clp2", x |-> x]
  /\ result' = Clp2(x)

\* The call returns.
Return ==
  /\ input # NoInput
  /\ input' = NoInput /\ result' = {}

Next ==
  \/ /\ input = NoInput
     /\ \E w \in Widths, h \in Heights, f \in Formats : Alloc(w, h, f)
  \/ /\ input = NoInput
     /\ \E x \in 0..(2 ^ WordBits - 1) : MapAdsp(x)
  \/ Return

Spec == Init /\ [][Next]_vars

-----------------------------------------------------------------------------

Allocated == input.op = "alloc" /\ result.size # EINVAL

\* The planes of an image of the size that was asked for, at the stride that was
\* answered, end inside the buffer: the chroma plane starts at the alignment that
\* the GPU or the video decoder needs, and has a row for every two rows of luma.
ImageFits ==
  Allocated =>
    LET w == input.w  h == input.h  f == input.format  s == result.stride
    IN result.size >=
         CASE f \in DOMAIN Packed -> s * h * Packed[f]
           [] f = "YV12" -> s * h + 2 * (s \div 2) * (h \div 2)
           [] f = "NV12_TILED" -> Align(s * h, 8192) + s * (h \div 2)
           [] OTHER -> Align(s * h, 4096) + (w \div 2) * 2 * (h \div 2)

\* What calculateBufferSize() tells the video renderer is what alloc_impl()
\* allocates.  In the tiled format it is that rounded up to 8192 bytes, which
\* may be 4096 more than there are; the planes by which it is computed end
\* inside the buffer all the same.
RendererAgrees ==
  LET w == input.w  h == input.h
  IN /\ Allocated /\ input.format = "NV21_ADRENO" => result.decoder = result.size
     /\ Allocated /\ input.format = "NV12_TILED" =>
          /\ result.decoder = Align(result.size, 8192)
          /\ Align(Align(w, 128) * Align(h, 32), 8192)
               + Align(w, 128) * Align(h \div 2, 32) <= result.size

\* alloc_impl(): "The GPU needs 4K alignment, but the video decoder needs 8K".
\* The renderer is told of no byte that was not allocated.
RendererFits ==
  Allocated /\ input.format \in {"NV12_TILED", "NV21_ADRENO"} => result.decoder <= result.size

\* clp2() is the least power of two that is not smaller, and 0 when there is
\* none or for 0.
Clp2IsNextPower ==
  input.op = "clp2" =>
    LET powers == {2 ^ k : k \in 0..(WordBits - 1)}
        above == {p \in powers : p >= input.x}
    IN result = IF input.x = 0 \/ above = {} THEN 0 ELSE Min(above)
=============================================================================

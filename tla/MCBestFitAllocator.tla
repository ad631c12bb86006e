------------------------ MODULE MCBestFitAllocator ------------------------
(***************************************************************************)
(* A heap of four pages, and requests smaller than, equal to and larger    *)
(* than a page, so that chunks are split in front, behind and on both      *)
(* sides, holes are filled exactly and requests fail.                      *)
(***************************************************************************)
EXTENDS BestFitAllocator

MCHeapSizes == {16000}
MCRequests == {100, 4096, 4100, 8192}
=============================================================================

---------------------------- MODULE MCBufferLock ----------------------------
(***************************************************************************)
(* Three threads, which is what it takes for an exchange to fail twice, or *)
(* for a reader to find the buffer being mapped by another while a third   *)
(* one leaves; and at most one failed mmap() for each usage.               *)
(***************************************************************************)
EXTENDS BufferLock, TLC

Symmetry == Permutations(Threads)
=============================================================================

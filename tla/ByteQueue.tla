----------------------------- MODULE ByteQueue ------------------------------
(***************************************************************************)
(* What one direction of an adb_socketpair() promises: bytes come out in   *)
(* the order they went in, and at most Capacity of them are in between.    *)
(* The bytes are numbered as they are written.                             *)
(***************************************************************************)
EXTENDS Integers

CONSTANT Capacity

VARIABLES
  written, taken,
  inOrder           \* every byte that came out was the next one

Init == written = 0 /\ taken = 0 /\ inOrder = TRUE

Write == \E n \in 1..(Capacity - (written - taken)) :
           written' = written + n /\ UNCHANGED <<taken, inOrder>>

\* The bytes taken+1 to taken+n are delivered.
Read == \E n \in 1..(written - taken) :
          taken' = taken + n /\ UNCHANGED <<written, inOrder>>

Next == Write \/ Read

Spec == Init /\ [][Next]_<<written, taken, inOrder>>
=============================================================================

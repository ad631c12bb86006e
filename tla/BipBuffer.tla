----------------------------- MODULE BipBuffer ------------------------------
(***************************************************************************)
(* tools/adb/sysdeps_win32.c: one direction of an emulated socket pair, a  *)
(* circular buffer of two regions with a writer and a reader in different  *)
(* threads, and the closing of the pair by both of them.                   *)
(*                                                                         *)
(* bip_buffer_read() and bip_buffer_write() work under the lock of the     *)
(* buffer; bip_buffer_close() and the count of the pair take no lock.  The *)
(* bytes are numbered as they are written.                                 *)
(***************************************************************************)
EXTENDS Integers

CONSTANTS
  BIP_BUFFER_SIZE,
  Lens,        \* lengths that are asked for
  MaxBytes     \* bound: how many bytes are written

ASSUME BipAssumption ==
  /\ BIP_BUFFER_SIZE \in Nat \ {0}
  /\ Lens \subseteq Nat \ {0}
  /\ MaxBytes \in Nat

VARIABLES
  a_start, a_end, b_end, buff,
  can_read, can_write, evt_read, evt_write,
  closed,
  lock,          \* the critical section
  used, freed,   \* of the pair
  pc,            \* of the writer and the reader
  len,           \* what they have asked for, and "used" as they have read it
  written, taken,
  inOrder        \* every byte delivered so far was the next one

regions == <<a_start, a_end, b_end, buff>>
flags == <<can_read, can_write>>
events == <<evt_read, evt_write>>
pair == <<used, freed>>
ghost == <<written, taken, inOrder>>
vars == <<regions, flags, events, closed, lock, pair, pc, len, ghost>>

-----------------------------------------------------------------------------

Ends == {"w", "r"}
Least(x, y) == IF x < y THEN x ELSE y

\* bip_buffer_init(), and adb_socketpair() for the count.
Init ==
  /\ a_start = 0 /\ a_end = 0 /\ b_end = 0
  /\ buff = [i \in 0..(BIP_BUFFER_SIZE - 1) |-> 0]
  /\ can_read = FALSE /\ can_write = TRUE /\ evt_read = FALSE /\ evt_write = TRUE
  /\ closed = FALSE /\ lock = "free" /\ used = 2 /\ freed = FALSE
  /\ pc = [e \in Ends |-> "idle"] /\ len = [e \in Ends |-> 0]
  /\ written = 0 /\ taken = 0 /\ inOrder = TRUE

Goto(e, l) == pc' = [pc EXCEPT ![e] = l]

Call(e, n) ==
  /\ pc[e] = "idle" /\ len' = [len EXCEPT ![e] = n] /\ Goto(e, "enter")
  /\ UNCHANGED <<regions, flags, events, closed, lock, pair, ghost>>

\* Nothing can be done: the lock is left, and a closed pair ends the call.
Block(e) ==
  /\ pc[e] = "enter" /\ lock = "free"
  /\ IF e = "w" THEN ~can_write ELSE ~can_read
  /\ Goto(e, "blocked")
  /\ UNCHANGED <<regions, flags, events, closed, lock, pair, len, ghost>>

Blocked(e) ==
  /\ pc[e] = "blocked" /\ Goto(e, IF closed THEN "idle" ELSE "wait")
  /\ UNCHANGED <<regions, flags, events, closed, lock, pair, len, ghost>>

Wake(e) ==
  /\ pc[e] = "wait" /\ IF e = "w" THEN evt_write ELSE evt_read
  /\ Goto(e, IF closed THEN "idle" ELSE "enter")
  /\ UNCHANGED <<regions, flags, events, closed, lock, pair, len, ghost>>

\* Bytes from the number first on are put at position at and after.
Put(b, at, n, first) ==
  [i \in DOMAIN b |-> IF i \in at..(at + n - 1) THEN first + (i - at) ELSE b[i]]

\* bip_buffer_write(): as much as fits behind region A, and then in region B.
Write ==
  LET na == Least(BIP_BUFFER_SIZE - a_end, len["w"])
      full == a_end < BIP_BUFFER_SIZE /\ a_end + na = BIP_BUFFER_SIZE /\ a_start = 0
      nb == IF full THEN 0 ELSE Least(a_start - b_end, len["w"] - na)
  IN /\ pc["w"] = "enter" /\ lock = "free" /\ can_write
     /\ written + len["w"] <= MaxBytes
     /\ a_end' = a_end + na
     /\ b_end' = IF len["w"] = na THEN b_end ELSE b_end + nb
     /\ buff' = IF len["w"] = na THEN Put(buff, a_end, na, written + 1)
                ELSE Put(Put(buff, a_end, na, written + 1), b_end, nb, written + na + 1)
     /\ can_write' = ~(full \/ (len["w"] # na /\ b_end + nb = a_start))
     /\ written' = IF len["w"] = na THEN written + na ELSE written + na + nb
     /\ lock' = "w" /\ Goto("w", "leave")
     /\ UNCHANGED <<a_start, can_read, events, closed, pair, len, taken, inOrder>>

\* The events follow the flags, and the lock is left.
WriteLeave ==
  /\ pc["w"] = "leave"
  /\ evt_write' = (evt_write /\ can_write)
  /\ can_read' = TRUE /\ evt_read' = (evt_read \/ ~can_read)
  /\ lock' = "free" /\ Goto("w", "idle")
  /\ UNCHANGED <<regions, can_write, closed, pair, len, ghost>>

\* A mutant: the length that was asked for is reported, not the length that was read.
ReadReportsLen ==
  LET na == Least(a_end - a_start, len["r"])
      swap == a_start + na = a_end
      nb == IF swap THEN Least(b_end, len["r"] - na) ELSE 0
      empty == swap /\ nb = b_end
  IN /\ pc["r"] = "enter" /\ lock = "free" /\ can_read
     /\ a_start' = IF empty THEN 0 ELSE IF swap THEN nb ELSE a_start + na
     /\ a_end' = IF empty THEN 0 ELSE IF swap THEN b_end ELSE a_end
     /\ b_end' = IF swap THEN 0 ELSE b_end
     /\ can_read' = ~empty
     /\ taken' = taken + len["r"]
     /\ lock' = "r" /\ Goto("r", "leave")
     /\ UNCHANGED <<buff, can_write, events, closed, pair, len, written, inOrder>>

\* bip_buffer_read(): region A, then what was region B.
Read ==
  LET na == Least(a_end - a_start, len["r"])
      swap == a_start + na = a_end
      nb == IF swap THEN Least(b_end, len["r"] - na) ELSE 0
      empty == swap /\ nb = b_end
  IN /\ pc["r"] = "enter" /\ lock = "free" /\ can_read
     /\ a_start' = IF empty THEN 0 ELSE IF swap THEN nb ELSE a_start + na
     /\ a_end' = IF empty THEN 0 ELSE IF swap THEN b_end ELSE a_end
     /\ b_end' = IF swap THEN 0 ELSE b_end
     /\ can_read' = ~empty
     /\ inOrder' = (/\ inOrder
                    /\ \A i \in 0..(na - 1) : buff[a_start + i] = taken + 1 + i
                    /\ \A i \in 0..(nb - 1) : buff[i] = taken + na + 1 + i)
     /\ taken' = taken + na + nb
     /\ lock' = "r" /\ Goto("r", "leave")
     /\ UNCHANGED <<buff, can_write, events, closed, pair, len, written>>

\* A mutant: a writer that found the buffer full is not told of the room.
ReadLeaveSilent ==
  /\ pc["r"] = "leave"
  /\ evt_read' = (evt_read /\ can_read)
  /\ lock' = "free" /\ Goto("r", "idle")
  /\ UNCHANGED <<regions, flags, evt_write, closed, pair, len, ghost>>

ReadLeave ==
  /\ pc["r"] = "leave"
  /\ evt_read' = (evt_read /\ can_read)
  /\ can_write' = TRUE /\ evt_write' = (evt_write \/ ~can_write)
  /\ lock' = "free" /\ Goto("r", "idle")
  /\ UNCHANGED <<regions, can_read, closed, pair, len, ghost>>

-----------------------------------------------------------------------------
(* _fh_socketpair_close(), by the thread that has this end                 *)

CloseMark(e) ==
  /\ pc[e] = "idle" /\ closed' = TRUE /\ Goto(e, "close_read")
  /\ UNCHANGED <<regions, flags, events, lock, pair, len, ghost>>

CloseRead(e) ==
  /\ pc[e] = "close_read" /\ evt_read' = (evt_read \/ ~can_read) /\ Goto(e, "close_write")
  /\ UNCHANGED <<regions, flags, evt_write, closed, lock, pair, len, ghost>>

CloseWrite(e) ==
  /\ pc[e] = "close_write" /\ evt_write' = (evt_write \/ ~can_write) /\ Goto(e, "count")
  /\ UNCHANGED <<regions, flags, evt_read, closed, lock, pair, len, ghost>>

\* --pair->used is a load and a store.
CountLoad(e) ==
  /\ pc[e] = "count" /\ len' = [len EXCEPT ![e] = used] /\ Goto(e, "store")
  /\ UNCHANGED <<regions, flags, events, closed, lock, pair, ghost>>

CountStore(e) ==
  /\ pc[e] = "store" /\ used' = len[e] - 1 /\ freed' = (freed \/ used' = 0)
  /\ Goto(e, "gone")
  /\ UNCHANGED <<regions, flags, events, closed, lock, len, ghost>>

-----------------------------------------------------------------------------

EndStep(e) ==
  \/ Block(e) \/ Blocked(e) \/ Wake(e)
  \/ CloseRead(e) \/ CloseWrite(e) \/ CountLoad(e) \/ CountStore(e)

Next ==
  \/ \E e \in Ends : (\E n \in Lens : Call(e, n)) \/ CloseMark(e) \/ EndStep(e)
  \/ Write \/ WriteLeave \/ Read \/ ReadLeave

Spec == Init /\ [][Next]_vars

\* Each thread goes on with its call, and so does the holder of the lock; the
\* critical section is not kept from a thread for ever.
Fairness ==
  /\ \A e \in Ends : WF_vars(EndStep(e))
  /\ WF_vars(WriteLeave) /\ WF_vars(ReadLeave) /\ SF_vars(Write) /\ SF_vars(Read)
  /\ \A e \in Ends : SF_vars(Block(e))

-----------------------------------------------------------------------------

TypeOK ==
  /\ a_start \in Nat /\ a_end \in Nat /\ b_end \in Nat
  /\ buff \in [0..(BIP_BUFFER_SIZE - 1) -> Nat]
  /\ can_read \in BOOLEAN /\ can_write \in BOOLEAN
  /\ evt_read \in BOOLEAN /\ evt_write \in BOOLEAN /\ closed \in BOOLEAN
  /\ lock \in {"free", "w", "r"} /\ used \in Int /\ freed \in BOOLEAN
  /\ pc \in [Ends -> {"idle", "enter", "blocked", "wait", "leave", "close_read",
                      "close_write", "count", "store", "gone"}]
  /\ len \in [Ends -> Int]
  /\ written \in Nat /\ taken \in Nat /\ inOrder \in BOOLEAN

\* The comment on the emulated pairs: region B lies before region A and is used
\* only when A reaches the end of the buffer; the flags say, outside the lock,
\* whether there is data and whether there is room ("avail > 0 since can_write is
\* TRUE").
RegionsSound ==
  /\ a_start <= a_end /\ a_end <= BIP_BUFFER_SIZE /\ b_end <= a_start
  /\ b_end > 0 => a_end = BIP_BUFFER_SIZE
  /\ a_start = a_end => a_end = 0
  /\ can_read => a_start < a_end
  /\ can_write => a_end < BIP_BUFFER_SIZE \/ b_end < a_start
  /\ lock = "free" => (can_read <=> a_start < a_end)
  /\ lock = "free" => (can_write <=> (a_end < BIP_BUFFER_SIZE \/ b_end < a_start))

\* Bytes are delivered once and in order.
DeliversInOrder == inOrder

\* The buffer implements a bounded queue of bytes.
Queue == INSTANCE ByteQueue WITH Capacity <- BIP_BUFFER_SIZE
ImplementsQueue == Queue!Spec

\* The pair is freed only when both ends are done with it.
FreedLast == freed => \A e \in Ends : pc[e] = "gone"

\* Nobody waits for ever for a pair that is closed, or for data that is there.
WaitEnds ==
  /\ (pc["r"] = "wait" /\ (can_read \/ closed)) ~> pc["r"] # "wait"
  /\ (pc["w"] = "wait" /\ (can_write \/ closed)) ~> pc["w"] # "wait"
=============================================================================

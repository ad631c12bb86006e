------------------------------ MODULE RilNitz ------------------------------
(***************************************************************************)
(* The copy of the last network time (NITZ) that libril keeps when the     *)
(* message could not be sent: stored by RIL_onUnsolicitedResponse() on a   *)
(* thread of the vendor's library, sent and freed by onNewCommandConnect() *)
(* on the event loop, both without a lock and in any interleaving.         *)
(*                                                                         *)
(* A write that fails closes the descriptor and leaves s_fdCommand as it   *)
(* is: the connection is "broken" until the loop sees the end of the       *)
(* stream, or ends because it waits on a closed descriptor.                *)
(***************************************************************************)
EXTENDS Integers

CONSTANTS
  MaxTimes,   \* bound on the times that the network sends
  Blocks      \* addresses of copies

VARIABLES
  connected, \* "no" when s_fdCommand < 0, "broken" when it is a closed descriptor
  data,      \* s_lastNITZTimeData
  copy,      \* what is stored at each address, 0 when it is free
  received,  \* the last time that the network sent
  delivered, \* the last one that was sent to a client
  dropped,   \* the last one whose only copy was freed although it was not sent
  raced,     \* the thread and onNewCommandConnect() have run at the same time
  pc, block, \* of the thread
  lpc,       \* of the event loop
  freedTwice

vars == <<connected, data, copy, received, delivered, dropped, raced, pc, block, lpc,
          freedTwice>>

-----------------------------------------------------------------------------

NULL == "NULL"

Init ==
  /\ connected = "no" /\ data = NULL
  /\ copy = [b \in Blocks |-> 0]
  /\ received = 0 /\ delivered = 0 /\ dropped = 0
  /\ raced = FALSE
  /\ pc = "idle" /\ block = NULL
  /\ lpc = "idle"
  /\ freedTwice = FALSE

\* free()
FreeBlock(b) ==
  /\ copy' = [copy EXCEPT ![b] = 0]
  /\ freedTwice' = (freedTwice \/ copy[b] = 0)

\* sendResponseRaw(): a write that fails closes the descriptor.
SendSucceeds == connected = "yes" /\ UNCHANGED connected
SendFails == connected' = IF connected = "yes" THEN "broken" ELSE connected

\* RIL_onUnsolicitedResponse(): the message is sent, or is to be kept.
Receive ==
  /\ pc = "idle" /\ received < MaxTimes
  /\ received' = received + 1
  /\ \/ SendSucceeds /\ delivered' = received + 1 /\ UNCHANGED pc
     \/ SendFails /\ pc' = "keep" /\ UNCHANGED delivered
  /\ raced' = (raced \/ lpc \in {"deliver", "free"})
  /\ UNCHANGED <<data, copy, dropped, block, lpc, freedTwice>>

\* if (s_lastNITZTimeData != NULL)
Keep ==
  /\ pc = "keep"
  /\ block' = data
  /\ pc' = IF data = NULL THEN "store" ELSE "free"
  /\ UNCHANGED <<connected, data, copy, received, delivered, dropped, raced, lpc, freedTwice>>

FreeOld ==
  /\ pc = "free"
  /\ FreeBlock(block)
  /\ data' = NULL
  /\ pc' = "store"
  /\ UNCHANGED <<connected, received, delivered, dropped, raced, block, lpc>>

\* malloc(), memcpy()
Store(b) ==
  /\ pc = "store" /\ copy[b] = 0
  /\ copy' = [copy EXCEPT ![b] = received]
  /\ data' = b
  /\ block' = NULL
  /\ pc' = "idle"
  /\ UNCHANGED <<connected, received, delivered, dropped, raced, lpc, freedTwice>>

\* listenCallback(), and the radio state that onNewCommandConnect() sends first
Connect ==
  /\ connected = "no" /\ lpc = "idle"
  /\ connected' \in {"yes", "broken"}
  /\ lpc' = "deliver"
  /\ raced' = (raced \/ pc # "idle")
  /\ UNCHANGED <<data, copy, received, delivered, dropped, pc, block, freedTwice>>

\* onNewCommandConnect(): the copy is sent, and nobody looks whether that failed ...
Deliver ==
  /\ lpc = "deliver"
  /\ IF data = NULL THEN lpc' = "idle" /\ UNCHANGED <<connected, delivered, dropped>>
     ELSE /\ lpc' = "free"
          /\ \/ SendSucceeds /\ delivered' = copy[data] /\ UNCHANGED dropped
             \/ SendFails /\ dropped' = copy[data] /\ UNCHANGED delivered
  /\ UNCHANGED <<data, copy, received, raced, pc, block, freedTwice>>

\* ... freed and forgotten.
FreeDelivered ==
  /\ lpc = "free"
  /\ IF data = NULL THEN UNCHANGED <<copy, freedTwice>> ELSE FreeBlock(data)
  /\ data' = NULL
  /\ lpc' = "idle"
  /\ UNCHANGED <<connected, received, delivered, dropped, raced, pc, block>>

\* processCommandsCallback()
Disconnect ==
  /\ connected # "no" /\ lpc = "idle"
  /\ connected' = "no"
  /\ UNCHANGED <<data, copy, received, delivered, dropped, raced, pc, block, lpc, freedTwice>>

\* select() fails with EBADF, and ril_event_loop() returns.
LoopEnds ==
  /\ connected = "broken" /\ lpc = "idle"
  /\ lpc' = "ended"
  /\ UNCHANGED <<connected, data, copy, received, delivered, dropped, raced, pc, block,
                 freedTwice>>

Next ==
  \/ Receive \/ Keep \/ FreeOld \/ (\E b \in Blocks : Store(b))
  \/ Connect \/ Deliver \/ FreeDelivered \/ Disconnect \/ LoopEnds

Spec == Init /\ [][Next]_vars

-----------------------------------------------------------------------------

AtRest == pc = "idle" /\ lpc \in {"idle", "ended"}

\* The last time is in the copy that is kept.
InCopy == data # NULL /\ copy[data] = received

\* "keep a copy of the last NITZ response ... so we can deliver it when it is
\* connected": between the calls the last time was sent, or it is kept and no client
\* is connected that could get it; or its copy was freed after the send on
\* connecting, whose result onNewCommandConnect() ignores, had failed.
NitzDelivered ==
  AtRest => delivered = received \/ (InCopy /\ connected # "yes") \/ dropped = received

\* A copy is freed once, by the thread or by the loop.
FreedOnce == ~freedTwice

\* Both hold as long as onNewCommandConnect() has not run together with the thread.
UnsolicitedSound == ~raced => NitzDelivered /\ FreedOnce

\* What the comment promises without condition: a client that is connected has got
\* the last time.
NitzReaches == AtRest /\ connected = "yes" => delivered = received
=============================================================================

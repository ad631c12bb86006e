------------------------------- MODULE MCRil -------------------------------
(***************************************************************************)
(* libril, part by part: a behaviour picks one of Parts and runs it, and   *)
(* the others rest in their initial state.                                 *)
(*                                                                         *)
(*   timer   three timers, as few as it takes for one to be inserted       *)
(*           between two and for a callback to remove the next of two that *)
(*           have expired, and two threads that remove any of them.        *)
(*   conn    two connections, so that one follows another, a request of    *)
(*           the client and one of the debug port, and failing writes,     *)
(*           failing accept(), strangers, and an order to close.           *)
(*   quiet   the same with two threads that answer and send unsolicited    *)
(*           messages, and clients that go away only while nothing is      *)
(*           being sent.                                                   *)
(*   wake    two threads racing with the timers, and addresses that        *)
(*           malloc() uses again.                                          *)
(*   serial  one thread, and timers that fire between messages.            *)
(*   nitz    a few times of the network, two addresses, sends that fail,   *)
(*           and the thread racing with the loop.                          *)
(*   parcel  every request and answer with up to two records and arrays    *)
(*           of at most one byte.                                          *)
(***************************************************************************)
EXTENDS RilConnection, TLC

CONSTANTS Parts, t1, t2, t3, th1, th2, th3, i1, i2, i3, b1, b2

VARIABLES
  part,
  now, next, prev, timeout, info, timer_pipe, caller, timer_pc, deadline,
  timer_rfds, ev, saved, removed, fired, taken,
  wakelock, last, timers, param, alloc, overtaken, early, wake_pc, ptr, wake_lpc,
  lptr, messages,
  connected, data, copy, received, delivered, dropped, raced, nitz_pc, block, nitz_lpc,
  freedTwice,
  htc, version, fn, msg, phase, ret, parcel, whole, result

timerVars == <<now, next, prev, timeout, info, timer_pipe, caller, timer_pc, deadline,
               timer_rfds, ev, saved, removed, fired, taken>>
wakeVars == <<wakelock, last, timers, param, alloc, overtaken, early, wake_pc, ptr,
              wake_lpc, lptr, messages>>
nitzVars == <<connected, data, copy, received, delivered, dropped, raced, nitz_pc, block,
              nitz_lpc, freedTwice>>
parcelVars == <<htc, version, fn, msg, phase, ret, parcel, whole, result>>
rilVars == <<part, timerVars, vars, wakeVars, nitzVars, parcelVars>>

Timer == INSTANCE RilTimer WITH
  pipe <- timer_pipe, pc <- timer_pc, rfds <- timer_rfds,
  Timers <- {t1, t2, t3}, Threads <- {th1, th2}, Delays <- {0, 2}, MaxTime <- 4

Orderly == INSTANCE RilConnection WITH
  LocalRequests <- {}, Threads <- {th1, th2}, MaxUnsol <- 1,
  Faults <- {"accept", "invalid"}

Wake == INSTANCE RilWakeLock WITH
  pc <- wake_pc, lpc <- wake_lpc, Threads <- {th1, th2}, Infos <- {i1, i2, i3},
  MaxMessages <- 3, Overlap <- TRUE

Serial == INSTANCE RilWakeLock WITH
  pc <- wake_pc, lpc <- wake_lpc, Threads <- {th3}, Infos <- {i1, i2, i3},
  MaxMessages <- 4, Overlap <- FALSE

Nitz == INSTANCE RilNitz WITH
  pc <- nitz_pc, lpc <- nitz_lpc, MaxTimes <- 5, Blocks <- {b1, b2}

Parcel == INSTANCE RilParcel WITH
  MaxRecords <- 2, ADDRESS_MAX <- 1, SUBADDRESS_MAX <- 1, BEARER_DATA_MAX <- 1,
  MAX_INFO_RECS <- 1

RilInit ==
  /\ part \in Parts
  /\ Timer!Init /\ Nitz!Init
  /\ IF part = "quiet" THEN Orderly!Init ELSE Init
  /\ IF part = "wake" THEN Wake!Init ELSE Serial!Init
  /\ IF part = "parcel" THEN Parcel!Init
     ELSE /\ htc = FALSE /\ version = 3 /\ fn = "Void"
          /\ msg = [null |-> FALSE, odd |-> FALSE, recs |-> << >>]
          /\ phase = "write" /\ ret = 0 /\ parcel = << >> /\ whole = TRUE
          /\ result = Parcel!Nothing

RilNext ==
  \/ /\ part = "timer" /\ Timer!Next
     /\ UNCHANGED <<part, vars, wakeVars, nitzVars, parcelVars>>
  \/ /\ part = "conn" /\ Next
     /\ UNCHANGED <<part, timerVars, wakeVars, nitzVars, parcelVars>>
  \/ /\ part = "quiet" /\ Orderly!Next
     /\ UNCHANGED <<part, timerVars, wakeVars, nitzVars, parcelVars>>
  \/ /\ part = "wake" /\ Wake!Next
     /\ UNCHANGED <<part, timerVars, vars, nitzVars, parcelVars>>
  \/ /\ part = "serial" /\ Serial!Next
     /\ UNCHANGED <<part, timerVars, vars, nitzVars, parcelVars>>
  \/ /\ part = "nitz" /\ Nitz!Next
     /\ UNCHANGED <<part, timerVars, vars, wakeVars, parcelVars>>
  \/ /\ part = "parcel" /\ Parcel!Next
     /\ UNCHANGED <<part, timerVars, vars, wakeVars, nitzVars>>

RilSpec == RilInit /\ [][RilNext]_rilVars

Symmetry == Permutations({t1, t2, t3}) \union Permutations({th1, th2})

-----------------------------------------------------------------------------

\* addToList() and removeFromList() keep both lists linked both ways, every
\* allocated timer in exactly one of them, and callbacks in the order of their
\* times, although threads and callbacks remove any timer at any moment.  No
\* callback runs before its time or twice, nor when its timer was removed; a
\* pointer that the loop has without listMutex is to an allocated timer, unless
\* that timer was removed since the loop read the pointer (after which the
\* program is in no defined state: RilTimer.RemovalSafe does not hold).
TimersSound ==
  part = "timer" => /\ Timer!TypeOK /\ Timer!ListsLinked /\ Timer!InOrder
                    /\ Timer!NeverEarly /\ Timer!RemovedNeverFires

\* While clients go away only when nothing is being sent, an answer goes to the
\* connection that sent the request; and what a client reads is whole messages, although two threads and the loop write:
\* s_writeMutex is held for the length and the data.  The event loop never waits on a
\* closed descriptor, which would end it, and the assert()s of
\* processCommandsCallback() and listenCallback() hold.
AnswersWhenQuiet ==
  part = "quiet" => Orderly!TypeOK /\ Orderly!AnswersGoHomeWhenQuiet

\* While the wake lock is held a timer is set, or about to be, that releases it:
\* no race for s_last_wake_timeout_info cancels the last one.  Without races the
\* timer of an earlier message does not release the lock of a later one, and the
\* pointer never dangles.  The last network time was sent, or is kept for the client
\* that connects, and s_lastNITZTimeData is freed once; but for a send that fails when
\* the client connects, which loses the copy, and for connections that are accepted
\* while a thread is keeping a time.
UnsolicitedSound ==
  /\ part = "wake" => Wake!UnsolicitedSound
  /\ part = "serial" => Serial!UnsolicitedSound
  /\ part = "nitz" => Nitz!UnsolicitedSound

\* What the response functions write can be read to its end, with the counts of
\* the records that follow and no integer missing.  A whole request reaches the
\* vendor library field by field, and one that ends early never with an integer
\* that was not read.
ParcelsExact == part = "parcel" => Parcel!AnswersDecodable /\ Parcel!RequestsExact
=============================================================================

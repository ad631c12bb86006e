---------------------------- MODULE RilWakeLock ----------------------------
(***************************************************************************)
(* The wake lock of libril: RIL_onUnsolicitedResponse() takes it, cancels  *)
(* the timer of the message before and asks for a timer that will release  *)
(* it.  s_last_wake_timeout_info is shared by all threads without a lock,  *)
(* and the event loop frees what it points to.  The timers all run for the *)
(* same time, so they fire in the order in which they were asked for.      *)
(***************************************************************************)
EXTENDS Integers, Sequences

CONSTANTS
  Threads,     \* threads that call RIL_onUnsolicitedResponse()
  Infos,       \* addresses at which malloc() places a UserCallbackInfo
  MaxMessages, \* bound on messages
  Overlap      \* whether timers fire while a message is being handled

VARIABLES
  wakelock, \* the wake lock is held
  last,     \* s_last_wake_timeout_info
  timers,   \* the timers in ril_event's list
  param,    \* userParam at each address
  alloc,    \* addresses that are allocated
  overtaken,    \* timers that are older than the last message
  early,    \* the lock was released by such a timer
  pc, ptr,  \* of each thread: where it is, and the pointer it has read
  lpc, lptr,\* the same for the event loop
  messages

vars == <<wakelock, last, timers, param, alloc, overtaken, early, pc, ptr, lpc, lptr, messages>>

-----------------------------------------------------------------------------

NULL == "NULL"

Init ==
  /\ wakelock = FALSE /\ last = NULL /\ timers = <<>>
  /\ param = [i \in Infos |-> 0]
  /\ alloc = {} /\ overtaken = {} /\ early = FALSE
  /\ pc = [t \in Threads |-> "idle"]
  /\ ptr = [t \in Threads |-> NULL]
  /\ lpc = "wait" /\ lptr = NULL
  /\ messages = 0

\* grabPartialWakeLock()
Grab(t) ==
  /\ pc[t] = "idle" /\ messages < MaxMessages
  /\ Overlap \/ lpc = "wait"
  /\ messages' = messages + 1
  /\ wakelock' = TRUE
  /\ overtaken' = alloc
  /\ pc' = [pc EXCEPT ![t] = "respond"]
  /\ UNCHANGED <<last, timers, param, alloc, early, ptr, lpc, lptr>>

\* The message is built and sent.
Respond(t) ==
  /\ pc[t] = "respond"
  /\ pc' = [pc EXCEPT ![t] = "cancel"]
  /\ UNCHANGED <<wakelock, last, timers, param, alloc, overtaken, early, ptr, lpc, lptr, messages>>

\* error_exit: the message cannot be built
RespondFails(t) ==
  /\ pc[t] = "respond"
  /\ wakelock' = FALSE
  /\ pc' = [pc EXCEPT ![t] = "idle"]
  /\ UNCHANGED <<last, timers, param, alloc, overtaken, early, ptr, lpc, lptr, messages>>

\* "Cancel the previous request": the pointer is read ...
ReadLast(t) ==
  /\ pc[t] = "cancel"
  /\ ptr' = [ptr EXCEPT ![t] = last]
  /\ pc' = [pc EXCEPT ![t] = IF last = NULL THEN "schedule" ELSE "mark"]
  /\ UNCHANGED <<wakelock, last, timers, param, alloc, overtaken, early, lpc, lptr, messages>>

\* Mutant: the request before is not cancelled.
MarkNothing(t) ==
  /\ pc[t] = "mark"
  /\ pc' = [pc EXCEPT ![t] = "schedule"]
  /\ UNCHANGED <<wakelock, last, timers, param, alloc, overtaken, early, ptr, lpc, lptr, messages>>

\* ... and what it points to is written, whatever is there by now.
Mark(t) ==
  /\ pc[t] = "mark"
  /\ param' = [param EXCEPT ![ptr[t]] = 1]
  /\ pc' = [pc EXCEPT ![t] = "schedule"]
  /\ UNCHANGED <<wakelock, last, timers, alloc, overtaken, early, ptr, lpc, lptr, messages>>

\* internalRequestTimedCallback(): malloc() and ril_timer_add()
Schedule(t, i) ==
  /\ pc[t] = "schedule" /\ i \notin alloc
  /\ alloc' = alloc \union {i}
  /\ overtaken' = overtaken \ {i}
  /\ param' = [param EXCEPT ![i] = 0]
  /\ timers' = Append(timers, i)
  /\ ptr' = [ptr EXCEPT ![t] = i]
  /\ pc' = [pc EXCEPT ![t] = "store"]
  /\ UNCHANGED <<wakelock, last, early, lpc, lptr, messages>>

StoreLast(t) ==
  /\ pc[t] = "store"
  /\ last' = ptr[t]
  /\ ptr' = [ptr EXCEPT ![t] = NULL]
  /\ pc' = [pc EXCEPT ![t] = "idle"]
  /\ UNCHANGED <<wakelock, timers, param, alloc, overtaken, early, lpc, lptr, messages>>

\* firePending() and wakeTimeoutCallback(): a timer that was cancelled does
\* nothing.
WakeTimeout ==
  /\ lpc = "wait" /\ timers # <<>>
  /\ Overlap \/ \A t \in Threads : pc[t] = "idle"
  /\ lptr' = Head(timers)
  /\ timers' = Tail(timers)
  /\ wakelock' = (wakelock /\ param[Head(timers)] # 0)
  /\ early' = (early \/ (wakelock /\ param[Head(timers)] = 0 /\ Head(timers) \in overtaken))
  /\ lpc' = "compare"
  /\ UNCHANGED <<last, param, alloc, overtaken, pc, ptr, messages>>

\* userTimerCallback(): is this the last one?
Compare ==
  /\ lpc = "compare"
  /\ lpc' = IF last = lptr THEN "clear" ELSE "free"
  /\ UNCHANGED <<wakelock, last, timers, param, alloc, overtaken, early, pc, ptr, lptr, messages>>

Clear ==
  /\ lpc = "clear"
  /\ last' = NULL
  /\ lpc' = "free"
  /\ UNCHANGED <<wakelock, timers, param, alloc, overtaken, early, pc, ptr, lptr, messages>>

Free ==
  /\ lpc = "free"
  /\ alloc' = alloc \ {lptr}
  /\ lptr' = NULL
  /\ lpc' = "wait"
  /\ UNCHANGED <<wakelock, last, timers, param, overtaken, early, pc, ptr, messages>>

-----------------------------------------------------------------------------

Handle(t) ==
  \/ Respond(t) \/ RespondFails(t) \/ ReadLast(t) \/ Mark(t) \/ StoreLast(t)
  \/ \E i \in Infos : Schedule(t, i)

EventLoop == WakeTimeout \/ Compare \/ Clear \/ Free

Next == EventLoop \/ \E t \in Threads : Grab(t) \/ Handle(t)

Spec == Init /\ [][Next]_vars

FairSpec ==
  Spec /\ WF_vars(EventLoop) /\ \A t \in Threads : WF_vars(Handle(t))

-----------------------------------------------------------------------------

\* "we'll either release it immediately or set a timer to release it later":
\* while the lock is held there is a timer that was not cancelled, or a thread
\* that has yet to ask for one, in spite of the unprotected pointer.
ReleaseComes ==
  wakelock =>
    \/ \E k \in DOMAIN timers : param[timers[k]] = 0
    \/ \E t \in Threads : pc[t] \in {"respond", "cancel", "mark", "schedule"}

\* "Cancel the previous request": the lock is never released by the timer of an
\* earlier message than the last.
HeldForTheLast == ~early

\* "clear it when the callback occurs": the pointer that the next message will
\* write through is allocated, or null.
LastIsAllocated == last \in alloc \union {NULL}

\* One thread, whose messages the timers do not interrupt.
OneByOne == ~Overlap /\ \A t, u \in Threads : t = u

\* The lock is always on its way to be released; and the pointer does what the
\* comments say of it, without races.
UnsolicitedSound == ReleaseComes /\ (OneByOne => HeldForTheLast /\ LastIsAllocated)

\* The phone goes to sleep again after the last message.
WakeLockReleased == wakelock ~> ~wakelock
=============================================================================

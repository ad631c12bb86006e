------------------------ MODULE RilUnsolicited_proofs ------------------------
(***************************************************************************)
(* What RIL_onUnsolicitedResponse() leaves behind: the wake lock, which is *)
(* always on its way to be released whoever races for                      *)
(* s_last_wake_timeout_info, that pointer, which does what its comments    *)
(* say while nothing races for it, and the network time kept for the       *)
(* client that will connect.  Any number of threads, messages, timers,     *)
(* connections and addresses.                                              *)
(***************************************************************************)
EXTENDS RilWakeLock, TLAPS

-----------------------------------------------------------------------------
(* The wake lock: the inductive invariants.                                *)

Set == {timers[k] : k \in DOMAIN timers}

TypeOK ==
  /\ wakelock \in BOOLEAN /\ early \in BOOLEAN
  /\ timers \in Seq(Infos)
  /\ param \in [Infos -> {0, 1}]
  /\ alloc \subseteq Infos /\ overtaken \subseteq Infos
  /\ last \in Infos \union {NULL} /\ lptr \in Infos \union {NULL}
  /\ pc \in [Threads -> {"idle", "respond", "cancel", "mark", "schedule", "store"}]
  /\ ptr \in [Threads -> Infos \union {NULL}]
  /\ lpc \in {"wait", "compare", "clear", "free"}

\* ReleaseComes, in terms of the set of timers.
Asking == {"respond", "cancel", "mark", "schedule"}

Coming == wakelock => (\E i \in Set : param[i] = 0) \/ \E t \in Threads : pc[t] \in Asking

\* Nothing else is needed, whoever races with whom.
RInv == TypeOK /\ Coming

\* Every timer in the list is allocated, once; and so is the one that has fired, which
\* the pointer no longer names when it is freed.
Allocated ==
  /\ Set \subseteq alloc
  /\ \A k, l \in DOMAIN timers : timers[k] = timers[l] => k = l
  /\ lpc # "wait" => lptr \in alloc /\ lptr \notin Set
  /\ lpc = "clear" => last = lptr
  /\ lpc = "free" => last # lptr
  /\ last \in alloc \union {NULL}

\* The thread and the loop take turns.
Turns == \A t \in Threads : pc[t] # "idle" => lpc = "wait"

\* The timers that were not cancelled: the one that the pointer names at most, until the
\* thread has cancelled it, and then the one that it has just asked for.
Live(i) ==
  \A t \in Threads :
    /\ pc[t] \in {"idle", "respond", "cancel"} => i = last
    /\ pc[t] = "mark" => i = last /\ ptr[t] = last
    /\ pc[t] # "schedule"
    /\ pc[t] = "store" => i = ptr[t]

\* Between messages a lock that is held is not one that an overtaken timer releases.
Owned ==
  (\A t \in Threads : pc[t] = "idle") /\ wakelock =>
    \A i \in Set : param[i] = 0 => i \notin overtaken

SInv ==
  /\ TypeOK /\ Allocated /\ Turns
  /\ \A i \in Set : param[i] = 0 => Live(i)
  /\ \A t \in Threads : pc[t] = "store" => ptr[t] \in alloc /\ ptr[t] \notin overtaken
  /\ Owned
  /\ ~early

-----------------------------------------------------------------------------
(* The list of timers                                                      *)

\* ril_timer_add() puts a timer at the end.
LEMMA Appended ==
  ASSUME TypeOK, NEW i \in Infos, timers' = Append(timers, i)
  PROVE  /\ timers' \in Seq(Infos) /\ Set' = Set \union {i}
         /\ DOMAIN timers' = DOMAIN timers \union {Len(timers) + 1}
         /\ \A k \in DOMAIN timers : timers'[k] = timers[k]
         /\ timers'[Len(timers) + 1] = i
<1>1. timers \in Seq(Infos)
  BY DEF TypeOK
<1>2. /\ timers' \in Seq(Infos)
      /\ DOMAIN timers' = DOMAIN timers \union {Len(timers) + 1}
      /\ \A k \in DOMAIN timers : timers'[k] = timers[k]
      /\ timers'[Len(timers) + 1] = i
  BY <1>1
<1>3. Set' = Set \union {i}
  BY <1>2 DEF Set
<1> QED
  BY <1>2, <1>3

\* The first timer is taken off the list.
LEMMA Taken ==
  ASSUME TypeOK, timers # <<>>, timers' = Tail(timers)
  PROVE  /\ timers' \in Seq(Infos) /\ Head(timers) \in Infos /\ Head(timers) = timers[1]
         /\ 1 \in DOMAIN timers /\ Set' \subseteq Set /\ Set \subseteq Set' \union {Head(timers)}
         /\ \A k \in DOMAIN timers' : k + 1 \in DOMAIN timers /\ timers'[k] = timers[k + 1] /\ k \in Nat
<1>1. timers \in Seq(Infos)
  BY DEF TypeOK
<1>2. /\ timers' \in Seq(Infos) /\ Head(timers) \in Infos /\ Head(timers) = timers[1]
      /\ 1 \in DOMAIN timers
  BY <1>1
<1>3. \A k \in DOMAIN timers' : k + 1 \in DOMAIN timers /\ timers'[k] = timers[k + 1] /\ k \in Nat
  BY <1>1
<1>4. \A k \in DOMAIN timers : k # 1 => k - 1 \in DOMAIN timers' /\ timers'[k - 1] = timers[k]
  BY <1>1
<1>5. Set' \subseteq Set
  BY <1>3 DEF Set
<1>6. ASSUME NEW i \in Set
      PROVE  i \in Set' \union {Head(timers)}
  <2>1. PICK k \in DOMAIN timers : i = timers[k]
    BY DEF Set
  <2>2. CASE k = 1
    BY <1>2, <2>1, <2>2
  <2>3. CASE k # 1
    <3>1. k - 1 \in DOMAIN timers' /\ timers'[k - 1] = i
      BY <1>4, <2>1, <2>3
    <3> QED
      BY <3>1 DEF Set
  <2> QED
    BY <2>2, <2>3
<1> QED
  BY <1>2, <1>3, <1>5, <1>6

-----------------------------------------------------------------------------
(* ReleaseComes                                                            *)

\* Every step keeps the types.
LEMMA TypeStep ==
  ASSUME TypeOK, [Next]_vars
  PROVE  TypeOK'
<1>1. ASSUME NEW t \in Threads, Grab(t)
      PROVE  TypeOK'
  BY <1>1 DEF TypeOK, Grab
<1>2. ASSUME NEW t \in Threads, Respond(t) \/ RespondFails(t)
      PROVE  TypeOK'
  BY <1>2 DEF TypeOK, Respond, RespondFails
<1>3. ASSUME NEW t \in Threads, ReadLast(t) \/ StoreLast(t)
      PROVE  TypeOK'
  BY <1>3 DEF TypeOK, ReadLast, StoreLast
<1>4. ASSUME NEW t \in Threads, Mark(t)
      PROVE  TypeOK'
  BY <1>4 DEF TypeOK, Mark
<1>5. ASSUME NEW t \in Threads, NEW i \in Infos, Schedule(t, i)
      PROVE  TypeOK'
  <2>1. timers' \in Seq(Infos)
    BY <1>5, Appended DEF Schedule
  <2> QED
    BY <1>5, <2>1 DEF TypeOK, Schedule
<1>6. CASE WakeTimeout
  <2>1. timers' \in Seq(Infos) /\ Head(timers) \in Infos
    BY <1>6, Taken DEF WakeTimeout
  <2>2. wakelock' \in BOOLEAN /\ early' \in BOOLEAN
    BY <1>6 DEF WakeTimeout
  <2> QED
    BY <1>6, <2>1, <2>2 DEF TypeOK, WakeTimeout
<1>7. CASE Compare \/ Clear \/ Free
  BY <1>7 DEF TypeOK, Compare, Clear, Free
<1>8. CASE UNCHANGED vars
  BY <1>8 DEF TypeOK, vars
<1> QED
  BY <1>1, <1>2, <1>3, <1>4, <1>5, <1>6, <1>7, <1>8 DEF Next, EventLoop, Handle

\* Whatever a thread writes through a stale pointer, it goes on to ask for a timer of its
\* own; and a timer that was cancelled releases nothing.
LEMMA ComesStep ==
  ASSUME RInv, [Next]_vars
  PROVE  Coming'
<1>0. TypeOK /\ Coming
  BY DEF RInv
<1>1. ASSUME NEW t \in Threads, Grab(t) \/ Respond(t) \/ ReadLast(t) \/ Mark(t)
      PROVE  Coming'
  <2>1. pc'[t] \in Asking
    BY <1>0, <1>1 DEF TypeOK, Grab, Respond, ReadLast, Mark, Asking
  <2> QED
    BY <2>1 DEF Coming
<1>2. ASSUME NEW t \in Threads, RespondFails(t)
      PROVE  Coming'
  BY <1>2 DEF RespondFails, Coming
<1>3. ASSUME NEW t \in Threads, StoreLast(t)
      PROVE  Coming'
  <2>1. \A u \in Threads : pc[u] \in Asking => pc'[u] \in Asking
    BY <1>0, <1>3 DEF TypeOK, StoreLast, Asking
  <2> QED
    BY <1>0, <1>3, <2>1 DEF StoreLast, Coming, Set
<1>4. ASSUME NEW t \in Threads, NEW i \in Infos, Schedule(t, i)
      PROVE  Coming'
  <2>1. i \in Set' /\ param'[i] = 0
    BY <1>0, <1>4, Appended DEF TypeOK, Schedule
  <2> QED
    BY <2>1 DEF Coming
<1>5. CASE WakeTimeout
  <2>1. Set \subseteq Set' \union {Head(timers)} /\ param' = param /\ pc' = pc
    BY <1>0, <1>5, Taken DEF WakeTimeout
  <2>2. wakelock' => wakelock /\ param[Head(timers)] # 0
    BY <1>5 DEF WakeTimeout
  <2> QED
    BY <1>0, <2>1, <2>2, Zenon DEF Coming
<1>6. CASE Compare \/ Clear \/ Free
  BY <1>0, <1>6 DEF Compare, Clear, Free, Coming, Set
<1>7. CASE UNCHANGED vars
  BY <1>0, <1>7 DEF vars, Coming, Set
<1> QED
  BY <1>1, <1>2, <1>3, <1>4, <1>5, <1>6, <1>7 DEF Next, EventLoop, Handle

-----------------------------------------------------------------------------
(* One thread, and timers between its messages                             *)

\* A message begins: what is allocated now belongs to earlier ones.
LEMMA GrabStep ==
  ASSUME SInv, OneByOne, NEW t \in Threads, Grab(t), TypeOK'
  PROVE  SInv'
<1>1. pc'[t] = "respond" /\ lpc = "wait" /\ \A u \in Threads : u = t
  BY DEF SInv, TypeOK, Grab, OneByOne
<1>2. Allocated' /\ Set' = Set
  BY DEF SInv, Allocated, Set, Grab
<1>3. Turns' /\ Owned' /\ ~early'
  BY <1>1 DEF SInv, Turns, Owned, Grab
<1>4. \A i \in Set' : param'[i] = 0 => Live(i)'
  BY <1>1, <1>2 DEF SInv, Live, Grab
<1>5. \A u \in Threads : pc'[u] # "store"
  BY <1>1
<1> QED
  BY <1>2, <1>3, <1>4, <1>5 DEF SInv

\* The message is sent, or cannot be built, when the lock is released.
LEMMA RespondStep ==
  ASSUME SInv, OneByOne, NEW t \in Threads, Respond(t) \/ RespondFails(t), TypeOK'
  PROVE  SInv'
<1>1. pc[t] = "respond" /\ pc'[t] \in {"idle", "cancel"} /\ \A u \in Threads : u = t
  BY DEF SInv, TypeOK, Respond, RespondFails, OneByOne
<1>2. pc'[t] = "idle" => ~wakelock'
  BY DEF SInv, TypeOK, Respond, RespondFails
<1>3. Allocated' /\ Set' = Set
  BY DEF SInv, Allocated, Set, Respond, RespondFails
<1>4. Turns' /\ Owned' /\ ~early'
  BY <1>1, <1>2 DEF SInv, Turns, Owned, Respond, RespondFails
<1>5. \A i \in Set' : param'[i] = 0 => Live(i)'
  BY <1>1, <1>3 DEF SInv, Live, Respond, RespondFails
<1>6. \A u \in Threads : pc'[u] # "store"
  BY <1>1
<1> QED
  BY <1>3, <1>4, <1>5, <1>6 DEF SInv

\* The pointer is read: when it is null there is no timer left that was not cancelled.
LEMMA ReadLastStep ==
  ASSUME SInv, OneByOne, NULL \notin Infos, NEW t \in Threads, ReadLast(t), TypeOK'
  PROVE  SInv'
<1>1. pc[t] = "cancel" /\ ptr'[t] = last /\ \A u \in Threads : u = t
  BY DEF SInv, TypeOK, ReadLast, OneByOne
<1>2. pc'[t] = IF last = NULL THEN "schedule" ELSE "mark"
  BY DEF SInv, TypeOK, ReadLast
<1>3. Allocated' /\ Set' = Set /\ Set \subseteq Infos
  BY DEF SInv, TypeOK, Allocated, Set, ReadLast
<1>4. Turns' /\ Owned' /\ ~early'
  BY <1>1, <1>2 DEF SInv, Turns, Owned, ReadLast
<1>5. \A i \in Set : param[i] = 0 => i = last
  BY <1>1 DEF SInv, Live
<1>6. \A i \in Set' : param'[i] = 0 => Live(i)'
  <2>1. CASE last = NULL
    BY <1>3, <1>5, <2>1 DEF ReadLast
  <2>2. CASE last # NULL
    BY <1>1, <1>2, <1>3, <1>5, <2>2 DEF Live, ReadLast
  <2> QED
    BY <2>1, <2>2
<1>7. \A u \in Threads : pc'[u] # "store"
  BY <1>1, <1>2
<1> QED
  BY <1>3, <1>4, <1>6, <1>7 DEF SInv

\* The timer of the message before is cancelled, and it was the only one left.
LEMMA MarkStep ==
  ASSUME SInv, OneByOne, NEW t \in Threads, Mark(t), TypeOK'
  PROVE  SInv'
<1>1. pc[t] = "mark" /\ pc'[t] = "schedule" /\ \A u \in Threads : u = t
  BY DEF SInv, TypeOK, Mark, OneByOne
<1>2. Allocated' /\ Set' = Set /\ Set \subseteq Infos
  BY DEF SInv, TypeOK, Allocated, Set, Mark
<1>3. Turns' /\ Owned' /\ ~early'
  BY <1>1 DEF SInv, Turns, Owned, Mark
<1>4. \A i \in Set : param[i] = 0 => i = ptr[t]
  BY <1>1 DEF SInv, Live
<1>5. \A i \in Infos : param'[i] = IF i = ptr[t] THEN 1 ELSE param[i]
  BY DEF SInv, TypeOK, Mark
<1>6. \A i \in Set' : param'[i] # 0
  BY <1>2, <1>4, <1>5
<1>7. \A u \in Threads : pc'[u] # "store"
  BY <1>1
<1> QED
  BY <1>2, <1>3, <1>6, <1>7 DEF SInv

\* A timer is asked for, at an address that no other timer has.
LEMMA ScheduleStep ==
  ASSUME SInv, OneByOne, NEW t \in Threads, NEW i \in Infos, Schedule(t, i), TypeOK'
  PROVE  SInv'
<1>1. /\ pc[t] = "schedule" /\ pc'[t] = "store" /\ ptr'[t] = i /\ \A u \in Threads : u = t
  BY DEF SInv, TypeOK, Schedule, OneByOne
<1>2. /\ i \notin alloc /\ alloc' = alloc \union {i} /\ overtaken' = overtaken \ {i}
      /\ UNCHANGED <<last, lpc, lptr, early>>
  BY DEF Schedule
<1>3. /\ Set' = Set \union {i}
      /\ DOMAIN timers' = DOMAIN timers \union {Len(timers) + 1}
      /\ \A k \in DOMAIN timers : timers'[k] = timers[k]
      /\ timers'[Len(timers) + 1] = i
  BY Appended DEF SInv, Schedule
<1>4. lpc = "wait" /\ lpc' = "wait"
  BY <1>1, <1>2 DEF SInv, Turns
<1>5. \A k, l \in DOMAIN timers' : timers'[k] = timers'[l] => k = l
  <2>1. \A k \in DOMAIN timers : timers[k] # i
    BY <1>2 DEF SInv, Allocated, Set
  <2> QED
    BY <1>3, <2>1 DEF SInv, Allocated
<1>6. Allocated'
  BY <1>2, <1>3, <1>4, <1>5 DEF SInv, Allocated
<1>7. Turns' /\ Owned' /\ ~early'
  BY <1>1, <1>2, <1>4 DEF SInv, Turns, Owned
<1>8. \A j \in Set : param[j] # 0
  BY <1>1 DEF SInv, Live
<1>9. \A j \in Infos : j # i => param'[j] = param[j]
  BY DEF SInv, TypeOK, Schedule
<1>10. Set \subseteq Infos
  BY DEF SInv, TypeOK, Set
<1>11. \A j \in Set' : param'[j] = 0 => j = i
  BY <1>3, <1>8, <1>9, <1>10
<1>12. \A j \in Set' : param'[j] = 0 => Live(j)'
  BY <1>1, <1>11 DEF Live
<1>13. \A u \in Threads : pc'[u] = "store" => ptr'[u] \in alloc' /\ ptr'[u] \notin overtaken'
  BY <1>1, <1>2
<1> QED
  BY <1>6, <1>7, <1>12, <1>13 DEF SInv

\* The pointer names the new timer, which is the one that was not cancelled.
LEMMA StoreLastStep ==
  ASSUME SInv, OneByOne, NEW t \in Threads, StoreLast(t), TypeOK'
  PROVE  SInv'
<1>1. /\ pc[t] = "store" /\ pc'[t] = "idle" /\ last' = ptr[t] /\ \A u \in Threads : u = t
  BY DEF SInv, TypeOK, StoreLast, OneByOne
<1>2. ptr[t] \in alloc /\ ptr[t] \notin overtaken /\ lpc = "wait"
  BY <1>1 DEF SInv, Turns
<1>3. UNCHANGED <<wakelock, timers, param, alloc, overtaken, early, lpc, lptr>> /\ Set' = Set
  BY DEF StoreLast, Set
<1>4. Allocated'
  BY <1>1, <1>2, <1>3 DEF SInv, Allocated
<1>5. \A i \in Set : param[i] = 0 => i = ptr[t]
  BY <1>1 DEF SInv, Live
<1>6. Turns' /\ Owned' /\ ~early'
  BY <1>1, <1>2, <1>3, <1>5 DEF SInv, Turns, Owned
<1>7. \A i \in Set' : param'[i] = 0 => Live(i)'
  BY <1>1, <1>3, <1>5 DEF Live
<1>8. \A u \in Threads : pc'[u] # "store"
  BY <1>1
<1> QED
  BY <1>4, <1>6, <1>7, <1>8 DEF SInv

\* A timer fires between two messages: if it was not cancelled it is not overtaken.
LEMMA WakeTimeoutStep ==
  ASSUME SInv, OneByOne, WakeTimeout, TypeOK'
  PROVE  SInv'
<1> DEFINE h == Head(timers)
<1>1. /\ lpc = "wait" /\ lpc' = "compare" /\ lptr' = h /\ \A u \in Threads : pc[u] = "idle"
      /\ UNCHANGED <<last, param, alloc, overtaken, pc, ptr>>
  BY DEF WakeTimeout, OneByOne
<1>2. /\ h = timers[1] /\ 1 \in DOMAIN timers /\ Set' \subseteq Set
      /\ \A k \in DOMAIN timers' :
           k + 1 \in DOMAIN timers /\ timers'[k] = timers[k + 1] /\ k \in Nat
  BY Taken DEF SInv, WakeTimeout
<1>3. h \in Set
  BY <1>2 DEF Set
<1> HIDE DEF h
<1>4. DOMAIN timers' \subseteq Nat \ {0}
  BY DEF TypeOK
<1>5. h \notin Set'
  <2>1. ASSUME NEW k \in DOMAIN timers', timers'[k] = h
        PROVE  FALSE
    <3>1. k + 1 \in DOMAIN timers /\ timers[k + 1] = timers[1] /\ k \in Nat \ {0}
      BY <1>2, <1>4, <2>1
    <3>2. k + 1 = 1
      BY <1>2, <3>1 DEF SInv, Allocated
    <3> QED
      BY <3>1, <3>2
  <2> QED
    BY <2>1 DEF Set
<1>6. \A k, l \in DOMAIN timers' : timers'[k] = timers'[l] => k = l
  <2>1. ASSUME NEW k \in DOMAIN timers', NEW l \in DOMAIN timers', timers'[k] = timers'[l]
        PROVE  k = l
    <3>1. k + 1 = l + 1
      BY <1>2, <2>1 DEF SInv, Allocated
    <3> QED
      BY <1>2, <3>1
  <2> QED
    BY <2>1
<1>7. Allocated'
  BY <1>1, <1>2, <1>3, <1>5, <1>6 DEF SInv, Allocated
<1>8. Turns'
  BY <1>1 DEF Turns
<1>9. \A i \in Set' : param'[i] = 0 => Live(i)'
  BY <1>1, <1>2 DEF SInv, Live
<1>10. wakelock' => wakelock
  BY DEF WakeTimeout
<1>11. Owned'
  BY <1>1, <1>2, <1>10 DEF SInv, Owned
<1>12. wakelock /\ param[h] = 0 => h \notin overtaken
  BY <1>1, <1>3 DEF SInv, Owned
<1>13. ~early'
  BY <1>12 DEF SInv, WakeTimeout, h
<1> QED
  BY <1>1, <1>7, <1>8, <1>9, <1>11, <1>13 DEF SInv

\* userTimerCallback() clears the pointer if it is the timer's, and frees the timer.
LEMMA CallbackStep ==
  ASSUME SInv, OneByOne, NULL \notin Infos, Compare \/ Clear \/ Free, TypeOK'
  PROVE  SInv'
<1>1. lpc # "wait" /\ \A u \in Threads : pc[u] = "idle"
  BY DEF SInv, Turns, Compare, Clear, Free
<1>2. UNCHANGED <<wakelock, timers, param, overtaken, early, pc, ptr>> /\ Set' = Set
  BY DEF Compare, Clear, Free, Set
<1>3. lptr \in alloc /\ lptr \notin Set /\ lptr \in Infos
  BY <1>1 DEF SInv, TypeOK, Allocated
<1>4. CASE Compare
  <2>1. Allocated' /\ last' = last
    BY <1>2, <1>3, <1>4 DEF SInv, Allocated, Compare
  <2> QED
    BY <1>1, <1>2, <2>1 DEF SInv, Turns, Owned, Live
<1>5. CASE Clear
  <2>1. Allocated' /\ last = lptr
    BY <1>2, <1>3, <1>5 DEF SInv, Allocated, Clear
  <2>2. \A i \in Set : param[i] = 0 => Threads = {}
    BY <1>1, <1>3, <2>1 DEF SInv, Live
  <2>3. \A i \in Set' : param'[i] = 0 => Live(i)'
    BY <1>2, <2>2 DEF Live
  <2> QED
    BY <1>1, <1>2, <2>1, <2>3 DEF SInv, Turns, Owned
<1>6. CASE Free
  <2>1. Allocated' /\ last' = last
    BY <1>2, <1>3, <1>6 DEF SInv, Allocated, Free
  <2> QED
    BY <1>1, <1>2, <2>1 DEF SInv, Turns, Owned, Live
<1> QED
  BY <1>4, <1>5, <1>6

\* Every step keeps the invariant of the serial case.
LEMMA SerialStep ==
  ASSUME SInv, OneByOne, NULL \notin Infos, [Next]_vars
  PROVE  SInv'
<1>1. TypeOK'
  BY TypeStep DEF SInv
<1>2. ASSUME NEW t \in Threads, Grab(t) PROVE SInv'
  BY <1>1, <1>2, GrabStep
<1>3. ASSUME NEW t \in Threads, Respond(t) \/ RespondFails(t) PROVE SInv'
  BY <1>1, <1>3, RespondStep
<1>4. ASSUME NEW t \in Threads, ReadLast(t) PROVE SInv'
  BY <1>1, <1>4, ReadLastStep
<1>5. ASSUME NEW t \in Threads, Mark(t) PROVE SInv'
  BY <1>1, <1>5, MarkStep
<1>6. ASSUME NEW t \in Threads, NEW i \in Infos, Schedule(t, i) PROVE SInv'
  BY <1>1, <1>6, ScheduleStep
<1>7. ASSUME NEW t \in Threads, StoreLast(t) PROVE SInv'
  BY <1>1, <1>7, StoreLastStep
<1>8. CASE WakeTimeout
  BY <1>1, <1>8, WakeTimeoutStep
<1>9. CASE Compare \/ Clear \/ Free
  BY <1>1, <1>9, CallbackStep
<1>10. CASE UNCHANGED vars
  BY <1>10 DEF SInv, TypeOK, Allocated, Turns, Live, Owned, Set, vars
<1> QED
  BY <1>2, <1>3, <1>4, <1>5, <1>6, <1>7, <1>8, <1>9, <1>10 DEF Next, EventLoop, Handle

-----------------------------------------------------------------------------

\* At the start there are no timers.
LEMMA InitType ==
  ASSUME Init
  PROVE  TypeOK /\ Set = {} /\ DOMAIN timers = {}
<1>1. timers = <<>> /\ timers \in Seq(Infos) /\ DOMAIN timers = {}
  BY DEF Init
<1>2. Set = {}
  BY <1>1 DEF Set
<1>3. wakelock \in BOOLEAN /\ early \in BOOLEAN
  BY DEF Init
<1>4. pc \in [Threads -> {"idle", "respond", "cancel", "mark", "schedule", "store"}]
  BY DEF Init
<1>5. param \in [Infos -> {0, 1}] /\ ptr \in [Threads -> Infos \union {NULL}]
  BY DEF Init
<1> QED
  BY <1>1, <1>2, <1>3, <1>4, <1>5 DEF Init, TypeOK

\* Whatever the threads and the timers do at the same time, the lock is always on its
\* way to be released: ReleaseComes needs none of what the unprotected pointer breaks.
THEOREM ReleaseAlwaysComes == Spec => []ReleaseComes
<1>1. Init => RInv
  BY InitType DEF Init, RInv, Coming
<1>2. RInv /\ [Next]_vars => RInv'
  BY TypeStep, ComesStep DEF RInv
<1>3. RInv => ReleaseComes
  BY DEF RInv, Coming, ReleaseComes, Asking, Set
<1> QED
  BY <1>1, <1>2, <1>3, PTL DEF Spec

\* With one thread whose messages the timers do not interrupt, a timer that an overtaking
\* message cancelled never releases the lock, and the pointer that the next message will
\* write through is allocated or null: what the comments say of
\* s_last_wake_timeout_info, for any number of messages.
THEOREM WakeLockSound ==
  ASSUME NULL \notin Infos
  PROVE  Spec => []UnsolicitedSound
<1>1. CASE OneByOne
  <2>1. Init => SInv
    <3> SUFFICES ASSUME Init PROVE SInv
      OBVIOUS
    <3>1. lpc = "wait" /\ last = NULL /\ ~early /\ \A t \in Threads : pc[t] = "idle"
      BY DEF Init
    <3> QED
      BY <3>1, InitType DEF SInv, Allocated, Turns, Owned
  <2>2. SInv /\ [Next]_vars => SInv'
    BY <1>1, SerialStep
  <2>3. SInv => HeldForTheLast /\ LastIsAllocated
    BY DEF SInv, Allocated, HeldForTheLast, LastIsAllocated
  <2>4. ReleaseComes /\ SInv => UnsolicitedSound
    BY <2>3 DEF UnsolicitedSound
  <2> QED
    BY <2>1, <2>2, <2>4, ReleaseAlwaysComes, PTL DEF Spec
<1>2. CASE ~OneByOne
  <2>1. ReleaseComes => UnsolicitedSound
    BY <1>2 DEF UnsolicitedSound
  <2> QED
    BY <2>1, ReleaseAlwaysComes, PTL
<1> QED
  BY <1>1, <1>2

-----------------------------------------------------------------------------
(* The last network time                                                    *)

CONSTANTS
  MaxTimes, \* bound on the times that the network sends
  Blocks    \* addresses of copies

VARIABLES
  connected, data, copy, received, delivered, dropped, raced, nitz_pc, block, nitz_lpc,
  freedTwice

Nitz == INSTANCE RilNitz WITH pc <- nitz_pc, lpc <- nitz_lpc

\* The last time is in the copy that is kept; or no copy is kept and the last time was
\* sent, or lost in the send on connecting.
Kept == data # NULL /\ copy[data] = received
Settled == delivered = received \/ dropped = received
Gone == data = NULL /\ Settled

NitzTypes ==
  /\ data \in Blocks \union {NULL} /\ block \in Blocks \union {NULL}
  /\ copy \in [Blocks -> Nat]
  /\ received \in Nat /\ delivered \in Nat /\ dropped \in Nat
  /\ connected \in {"no", "yes", "broken"}
  /\ nitz_pc \in {"idle", "keep", "free", "store"}
  /\ nitz_lpc \in {"idle", "deliver", "free", "ended"}

\* The thread keeps a time only while no client is connected and the loop waits or has
\* ended; the pointer names a block that is allocated; and the last time is on its way
\* at every step.
NitzOrder ==
  /\ ~freedTwice
  /\ data # NULL => copy[data] # 0
  /\ nitz_pc # "idle" =>
       received # 0 /\ nitz_lpc \in {"idle", "ended"} /\ connected # "yes"
  /\ nitz_pc = "free" => block = data /\ data # NULL
  /\ nitz_pc = "store" => data = NULL
  /\ nitz_pc = "idle" /\ nitz_lpc \in {"idle", "ended"} => Gone \/ (connected # "yes" /\ Kept)
  /\ nitz_lpc = "deliver" => Kept \/ Gone
  /\ nitz_lpc = "free" => data # NULL /\ Settled

NitzInv == NitzTypes /\ (~raced => NitzOrder)

\* Every step keeps the types, whoever races with whom.
LEMMA NitzTypeStep ==
  ASSUME NitzTypes, [Nitz!Next]_Nitz!vars
  PROVE  NitzTypes'
<1>1. CASE Nitz!Receive
  BY <1>1 DEF NitzTypes, Nitz!Receive, Nitz!SendSucceeds, Nitz!SendFails
<1>2. CASE Nitz!Keep
  BY <1>2 DEF NitzTypes, Nitz!Keep
<1>3. CASE Nitz!FreeOld
  BY <1>3 DEF NitzTypes, Nitz!FreeOld, Nitz!FreeBlock, Nitz!NULL, NULL
<1>4. ASSUME NEW b \in Blocks, Nitz!Store(b)
      PROVE  NitzTypes'
  BY <1>4 DEF NitzTypes, Nitz!Store, Nitz!NULL, NULL
<1>5. CASE Nitz!Connect \/ Nitz!Disconnect \/ Nitz!LoopEnds
  BY <1>5 DEF NitzTypes, Nitz!Connect, Nitz!Disconnect, Nitz!LoopEnds
<1>6. CASE Nitz!Deliver
  <2>1. data # NULL => copy[data] \in Nat
    BY DEF NitzTypes
  <2> QED
    BY <1>6, <2>1 DEF NitzTypes, Nitz!Deliver, Nitz!SendSucceeds, Nitz!SendFails, Nitz!NULL, NULL
<1>7. CASE Nitz!FreeDelivered
  BY <1>7 DEF NitzTypes, Nitz!FreeDelivered, Nitz!FreeBlock, Nitz!NULL, NULL
<1>8. CASE UNCHANGED Nitz!vars
  BY <1>8 DEF NitzTypes, Nitz!vars
<1> QED
  BY <1>1, <1>2, <1>3, <1>4, <1>5, <1>6, <1>7, <1>8 DEF Nitz!Next

\* The thread: a time is sent or kept, and the copy before is freed first.
LEMMA NitzThread ==
  ASSUME NitzTypes, NitzOrder, ~raced', NULL \notin Blocks,
         Nitz!Receive \/ Nitz!Keep \/ Nitz!FreeOld \/ \E b \in Blocks : Nitz!Store(b)
  PROVE  NitzOrder'
<1>1. CASE Nitz!Receive
  <2>1. nitz_pc = "idle" /\ nitz_lpc \in {"idle", "ended"} /\ received' # 0
        /\ UNCHANGED <<data, copy, block, nitz_lpc, freedTwice>>
    <3>1. nitz_lpc \notin {"deliver", "free"}
      BY <1>1, Zenon DEF Nitz!Receive
    <3> QED
      BY <1>1, <3>1 DEF NitzTypes, Nitz!Receive
  <2>2. CASE Nitz!SendSucceeds /\ delivered' = received' /\ nitz_pc' = nitz_pc
    BY <2>1, <2>2 DEF NitzOrder, Gone, Settled, Nitz!SendSucceeds
  <2>3. CASE Nitz!SendFails /\ nitz_pc' = "keep"
    BY <2>1, <2>3 DEF NitzTypes, NitzOrder, Nitz!SendFails
  <2> QED
    BY <1>1, <2>2, <2>3 DEF Nitz!Receive
<1>2. CASE Nitz!Keep
  BY <1>2 DEF NitzTypes, NitzOrder, Nitz!Keep, Nitz!NULL, NULL
<1>3. CASE Nitz!FreeOld
  <2>1. block \in Blocks /\ copy[block] # 0
    BY <1>3 DEF NitzTypes, NitzOrder, Nitz!FreeOld
  <2> QED
    BY <1>3, <2>1 DEF NitzTypes, NitzOrder, Nitz!FreeOld, Nitz!FreeBlock, Nitz!NULL, NULL
<1>4. ASSUME NEW b \in Blocks, Nitz!Store(b)
      PROVE  NitzOrder'
  <2>1. copy'[b] = received /\ data' = b /\ b # NULL
    BY <1>4 DEF NitzTypes, Nitz!Store
  <2>2. /\ nitz_pc' = "idle" /\ nitz_lpc \in {"idle", "ended"} /\ connected # "yes"
        /\ received # 0 /\ UNCHANGED <<connected, received, nitz_lpc, freedTwice>>
    BY <1>4 DEF NitzOrder, Nitz!Store
  <2> QED
    BY <2>1, <2>2 DEF NitzOrder, Kept
<1> QED
  BY <1>1, <1>2, <1>3, <1>4

\* The event loop: the copy is sent, or the send fails, and then it is freed.
LEMMA NitzLoop ==
  ASSUME NitzTypes, NitzOrder, ~raced', NULL \notin Blocks,
         Nitz!Connect \/ Nitz!Deliver \/ Nitz!FreeDelivered \/ Nitz!Disconnect \/ Nitz!LoopEnds
  PROVE  NitzOrder'
<1>1. CASE Nitz!Connect
  BY <1>1 DEF NitzOrder, Kept, Gone, Settled, Nitz!Connect
<1>2. CASE Nitz!Deliver
  <2>1. /\ nitz_lpc = "deliver" /\ nitz_pc = "idle"
        /\ UNCHANGED <<data, copy, received, nitz_pc, block, freedTwice>>
    BY <1>2 DEF NitzTypes, NitzOrder, Nitz!Deliver
  <2>2. CASE data = NULL
    BY <1>2, <2>1, <2>2 DEF NitzOrder, Kept, Gone, Settled, Nitz!Deliver, Nitz!NULL, NULL
  <2>3. CASE data # NULL
    <3>1. copy[data] = received
      BY <2>1, <2>3 DEF NitzOrder, Kept, Gone
    <3>2. nitz_lpc' = "free" /\ (delivered' = copy[data] \/ dropped' = copy[data])
      BY <1>2, <2>3 DEF Nitz!Deliver, Nitz!NULL, NULL
    <3> QED
      BY <2>1, <2>3, <3>1, <3>2 DEF NitzOrder, Settled
  <2> QED
    BY <2>2, <2>3
<1>3. CASE Nitz!FreeDelivered
  <2>1. data \in Blocks /\ data # NULL /\ copy[data] # 0
    BY <1>3 DEF NitzTypes, NitzOrder, Nitz!FreeDelivered
  <2>2. ~freedTwice'
    BY <1>3, <2>1 DEF NitzOrder, Nitz!FreeDelivered, Nitz!FreeBlock, Nitz!NULL, NULL
  <2>3. /\ data' = NULL /\ nitz_lpc' = "idle" /\ nitz_pc = "idle"
        /\ UNCHANGED <<connected, received, delivered, dropped, nitz_pc>> /\ Settled
    BY <1>3 DEF NitzTypes, NitzOrder, Nitz!FreeDelivered, Nitz!NULL, NULL
  <2> QED
    BY <2>2, <2>3 DEF NitzOrder, Gone, Settled
<1>4. CASE Nitz!Disconnect \/ Nitz!LoopEnds
  BY <1>4 DEF NitzOrder, Kept, Gone, Settled, Nitz!Disconnect, Nitz!LoopEnds
<1> QED
  BY <1>1, <1>2, <1>3, <1>4

\* The last network time was sent, or is kept for the client that connects, or was lost
\* in the send on connecting that onNewCommandConnect() does not check; and no copy of it
\* is freed twice: whichever sends fail, for any number of times, connections and
\* addresses, until a connection is accepted while a thread is keeping a time or a time
\* comes while the loop sends the copy.
THEOREM NitzSound ==
  ASSUME NULL \notin Blocks
  PROVE  Nitz!Spec => []Nitz!UnsolicitedSound
<1>1. Nitz!Init => NitzInv
  BY DEF Nitz!Init, NitzInv, NitzTypes, NitzOrder, Gone, Settled, Nitz!NULL, NULL
<1>2. NitzInv /\ [Nitz!Next]_Nitz!vars => NitzInv'
  <2> SUFFICES ASSUME NitzInv, [Nitz!Next]_Nitz!vars PROVE NitzInv'
    OBVIOUS
  <2>1. NitzTypes /\ NitzTypes'
    BY NitzTypeStep DEF NitzInv
  <2>2. ASSUME ~raced' PROVE NitzOrder'
    <3>1. ~raced
      BY <2>2 DEF Nitz!Next, Nitz!vars, Nitz!Receive, Nitz!Keep, Nitz!FreeOld, Nitz!Store,
                  Nitz!Connect, Nitz!Deliver, Nitz!FreeDelivered, Nitz!Disconnect, Nitz!LoopEnds
    <3>2. NitzOrder
      BY <3>1 DEF NitzInv
    <3>3. CASE UNCHANGED Nitz!vars
      BY <3>2, <3>3 DEF NitzOrder, Kept, Gone, Settled, Nitz!vars
    <3> QED
      BY <2>1, <2>2, <3>2, <3>3, NitzThread, NitzLoop DEF Nitz!Next
  <2> QED
    BY <2>1, <2>2 DEF NitzInv
<1>3. NitzInv => Nitz!UnsolicitedSound
  BY DEF NitzInv, NitzOrder, Kept, Gone, Settled, Nitz!UnsolicitedSound, Nitz!NitzDelivered,
         Nitz!FreedOnce, Nitz!AtRest, Nitz!InCopy, Nitz!NULL, NULL
<1> QED
  BY <1>1, <1>2, <1>3, PTL DEF Nitz!Spec
=============================================================================

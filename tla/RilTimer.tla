----------------------------- MODULE RilTimer -----------------------------
(***************************************************************************)
(* The timers of libril: ril_timer_add(), ril_timer_delete() and the event *)
(* loop of ril_event.cpp, with the callers in ril.cpp that allocate and    *)
(* free the events (internalRequestTimedCallback(), userTimerCallback(),   *)
(* internalRemoveTimedCallback()) and the pipe that wakes the loop up.     *)
(*                                                                         *)
(* The two lists are modelled by their pointers.  Threads of the vendor's  *)
(* radio library add and remove timers, and so do the callbacks that the   *)
(* loop runs; they remove no timer that they know to be freed.             *)
(* ril_timer_delete() touches the lists under listMutex, but firePending() *)
(* and calcNextTimeout() follow pointers without it, and firePending()     *)
(* keeps two over the callback.  A timer that is removed while the loop    *)
(* has a pointer to it is `taken' from it; when the loop then goes on to   *)
(* the freed event, or unlinks a neighbour at the same time, what happens  *)
(* is undefined and the behaviour ends.                                    *)
(***************************************************************************)
EXTENDS Integers, FiniteSets, Sequences, SequencesExt

CONSTANTS
  Timers,        \* the UserCallbackInfo that are requested
  Threads,       \* the threads of the vendor's library
  Delays,        \* relative times that are asked for
  MaxTime        \* bound on the clock

VARIABLES
  now,       \* the monotonic clock
  next, prev,\* the links of the events and of the two list heads
  timeout,   \* of each event
  info,      \* of each UserCallbackInfo: unused, live or freed
  pipe,      \* bytes are waiting in the wakeup pipe
  caller,    \* threads that have yet to write to the pipe
  pc,        \* where the loop is
  deadline,  \* until when select() waits
  rfds,      \* select() found the pipe readable
  ev, saved, \* the event the loop is at, and firePending()'s `next'
  removed,   \* timers for which ril_timer_delete() answered true
  fired,     \* how often each callback has been run
  taken      \* timers that were removed while the loop had a pointer to them

vars == <<now, next, prev, timeout, info, pipe, caller, pc, deadline, rfds,
          ev, saved, removed, fired, taken>>

-----------------------------------------------------------------------------

NULL == "NULL"
timer_list == "timer_list"
pending_list == "pending_list"
wakeup == "wakeup"     \* s_wakeupfd_event
Forever == MaxTime + 1 \* select() without a timeout

Events == Timers \union {wakeup}
Nodes == Events \union {timer_list, pending_list}

\* The nodes from n on, along a link, up to the head of the list.
RECURSIVE From(_, _, _)
From(link, n, head) ==
  IF n \in {head, NULL} THEN <<>> ELSE <<n>> \o From(link, link[n], head)

Walk(link, head) == From(link, link[head], head)

\* addToList(): before the node l
AddToList(e, l) ==
  /\ next' = [next EXCEPT ![e] = l, ![prev[l]] = e]
  /\ prev' = [prev EXCEPT ![e] = prev[l], ![l] = e]

\* removeFromList() does nothing to an event that is in no list.
Linked(e) == prev[e] # NULL /\ next[e] # NULL

RemoveFromList(e) ==
  IF Linked(e)
  THEN /\ next' = [next EXCEPT ![prev[e]] = next[e], ![e] = NULL]
       /\ prev' = [prev EXCEPT ![next[e]] = prev[e], ![e] = NULL]
  ELSE UNCHANGED <<next, prev>>

\* Mutant: every timer goes to the end of the list.
InsertAtEnd(t) == timer_list

\* ril_timer_add(): the first timer in the list that is not earlier
InsertBefore(t) ==
  LET l == Walk(next, timer_list)
      later == {i \in 1..Len(l) : timeout[l[i]] >= t}
  IN IF later = {} THEN timer_list ELSE l[CHOOSE i \in later : \A j \in later : i <= j]

-----------------------------------------------------------------------------

Init ==
  /\ now = 0
  /\ next = [n \in Nodes |-> IF n \in {timer_list, pending_list} THEN n ELSE NULL]
  /\ prev = next
  /\ timeout = [n \in Timers |-> 0]
  /\ info = [t \in Timers |-> "unused"]
  /\ pipe = FALSE
  /\ caller = {}
  /\ pc = "calc"
  /\ deadline = 0
  /\ rfds = FALSE
  /\ ev = NULL /\ saved = NULL
  /\ removed = {}
  /\ fired = [t \in Timers |-> 0]
  /\ taken = {}

\* internalRequestTimedCallback() up to the end of ril_timer_add()
RequestTimedCallback(t, d) ==
  /\ info[t] = "unused"
  /\ now + d < MaxTime
  /\ info' = [info EXCEPT ![t] = "live"]
  /\ timeout' = [timeout EXCEPT ![t] = now + d]
  /\ AddToList(t, InsertBefore(now + d))

\* The timers the loop has a pointer to, outside of listMutex.
Held ==
  CASE pc = "first" -> {ev}
    [] pc \in {"fire", "unlink"} -> {ev, saved}
    [] pc \in {"call", "callback"} -> {saved}
    [] OTHER -> {}

\* internalRemoveTimedCallback(): frees the event that it found in a list
RemoveTimedCallback(t) ==
  /\ info[t] = "live"
  /\ RemoveFromList(t)
  /\ IF Linked(t)
     THEN /\ info' = [info EXCEPT ![t] = "freed"]
          /\ removed' = removed \union {t}
          /\ taken' = taken \union ({t} \intersect Held)
     ELSE UNCHANGED <<info, removed, taken>>

ThreadRequests(th, t, d) ==
  /\ th \notin caller
  /\ RequestTimedCallback(t, d)
  /\ caller' = caller \union {th}
  /\ UNCHANGED <<now, pipe, pc, deadline, rfds, ev, saved, removed, fired, taken>>

\* Mutant: the loop is not woken up.
NoTrigger(th) ==
  /\ th \in caller
  /\ caller' = caller \ {th}
  /\ UNCHANGED <<now, next, prev, timeout, info, pipe, pc, deadline, rfds,
                 ev, saved, removed, fired, taken>>

\* triggerEvLoop() in a thread that is not the loop's
TriggerEvLoop(th) ==
  /\ th \in caller
  /\ caller' = caller \ {th}
  /\ pipe' = TRUE
  /\ UNCHANGED <<now, next, prev, timeout, info, pc, deadline, rfds,
                 ev, saved, removed, fired, taken>>

ThreadRemoves(th, t) ==
  /\ th \notin caller
  /\ RemoveTimedCallback(t)
  /\ UNCHANGED <<now, timeout, pipe, caller, pc, deadline, rfds, ev, saved, fired>>

\* removeFromList() of a thread and that of firePending() write the same links.
ThreadRaces(th, t) ==
  /\ th \notin caller
  /\ pc = "unlink" /\ t \in {ev, prev[ev], next[ev]}
  /\ taken' = taken \union {t}
  /\ pc' = "undefined"
  /\ UNCHANGED <<now, next, prev, timeout, info, pipe, caller, deadline, rfds,
                 ev, saved, removed, fired>>

Tick ==
  /\ now < MaxTime
  /\ now' = now + 1
  /\ UNCHANGED <<next, prev, timeout, info, pipe, caller, pc, deadline, rfds,
                 ev, saved, removed, fired, taken>>

-----------------------------------------------------------------------------

\* calcNextTimeout(): the list is sorted, so its first event decides.
FirstTimer ==
  /\ pc = "calc"
  /\ ev' = next[timer_list]
  /\ pc' = "first"
  /\ UNCHANGED <<now, next, prev, timeout, info, pipe, caller, deadline, rfds,
                 saved, removed, fired, taken>>

\* calcNextTimeout(): its time, which is anything when the event is freed by now
CalcNextTimeout ==
  /\ pc = "first"
  /\ deadline' \in CASE ev = timer_list -> {Forever}
                     [] ev \in taken -> 0..Forever
                     [] OTHER -> {timeout[ev]}
  /\ ev' = NULL
  /\ pc' = "select"
  /\ UNCHANGED <<now, next, prev, timeout, info, pipe, caller, rfds,
                 saved, removed, fired, taken>>

\* select() returns, with the pipe readable or the time over
Select ==
  /\ pc = "select"
  /\ pipe \/ now >= deadline
  /\ rfds' = pipe
  /\ pc' = "timeouts"
  /\ UNCHANGED <<now, next, prev, timeout, info, pipe, caller, deadline,
                 ev, saved, removed, fired, taken>>

\* select() fails with EINTR
Interrupted ==
  /\ pc = "select"
  /\ pc' = "calc"
  /\ deadline' = 0
  /\ UNCHANGED <<now, next, prev, timeout, info, pipe, caller, rfds,
                 ev, saved, removed, fired, taken>>

Expired(t) == now > timeout[t]

\* processTimeouts(): the expired timers at the front of the timer list move to
\* the end of the pending list.
ProcessTimeouts ==
  /\ pc = "timeouts"
  /\ LET l == Walk(next, timer_list)
         n == CHOOSE k \in 0..Len(l) :
                /\ \A i \in 1..k : Expired(l[i])
                /\ k < Len(l) => ~Expired(l[k + 1])
         rest == IF n < Len(l) THEN l[n + 1] ELSE timer_list
         tail == prev[pending_list]
     IN IF n = 0 THEN UNCHANGED <<next, prev>>
        ELSE /\ next' = [next EXCEPT ![timer_list] = rest, ![l[n]] = pending_list,
                                     ![tail] = l[1]]
             /\ prev' = [prev EXCEPT ![rest] = timer_list, ![l[1]] = tail,
                                     ![pending_list] = l[n]]
  /\ pc' = "readies"
  /\ UNCHANGED <<now, timeout, info, pipe, caller, deadline, rfds,
                 ev, saved, removed, fired, taken>>

\* processReadReadies(), and the first step of firePending()
ProcessReadReadies ==
  /\ pc = "readies"
  /\ IF rfds THEN AddToList(wakeup, pending_list) ELSE UNCHANGED <<next, prev>>
  /\ ev' = next'[pending_list]
  /\ rfds' = FALSE
  /\ deadline' = 0
  /\ pc' = "fire"
  /\ UNCHANGED <<now, timeout, info, pipe, caller, saved, removed, fired, taken>>

\* firePending() reads `next' before it removes the event and calls its function.
ReadNext ==
  /\ pc = "fire" /\ ev \in Events \ taken
  /\ saved' = next[ev]
  /\ pc' = "unlink"
  /\ UNCHANGED <<now, next, prev, timeout, info, pipe, caller, deadline, rfds,
                 ev, removed, fired, taken>>

Unlink ==
  /\ pc = "unlink" /\ ev \notin taken
  /\ RemoveFromList(ev)
  /\ pc' = "call"
  /\ UNCHANGED <<now, timeout, info, pipe, caller, deadline, rfds, ev, saved,
                 removed, fired, taken>>

FirePending ==
  /\ pc = "call"
  /\ IF ev = wakeup THEN pipe' = FALSE /\ UNCHANGED fired  \* processWakeupCallback()
     ELSE fired' = [fired EXCEPT ![ev] = @ + 1] /\ UNCHANGED pipe
  /\ pc' = "callback"
  /\ UNCHANGED <<now, next, prev, timeout, info, caller, deadline, rfds, ev, saved,
                 removed, taken>>

\* firePending() goes on with an event that was freed.
FollowFreed ==
  /\ pc \in {"fire", "unlink"} /\ ev \in taken
  /\ pc' = "undefined"
  /\ UNCHANGED <<now, next, prev, timeout, info, pipe, caller, deadline, rfds,
                 ev, saved, removed, fired, taken>>

FirePendingEnds ==
  /\ pc = "fire" /\ ev = pending_list
  /\ ev' = NULL
  /\ pc' = "calc"
  /\ UNCHANGED <<now, next, prev, timeout, info, pipe, caller, deadline, rfds,
                 saved, removed, fired, taken>>

\* The user's callback asks for a timer; the loop's own thread is not woken up.
CallbackRequests(t, d) ==
  /\ pc = "callback" /\ ev \in Timers
  /\ RequestTimedCallback(t, d)
  /\ UNCHANGED <<now, pipe, caller, pc, deadline, rfds, ev, saved, removed, fired, taken>>

\* The user's callback removes another timer, which may have expired too.
CallbackRemoves(t) ==
  /\ pc = "callback" /\ ev \in Timers
  /\ t # ev
  /\ RemoveTimedCallback(t)
  /\ UNCHANGED <<now, timeout, pipe, caller, pc, deadline, rfds, ev, saved, fired>>

\* userTimerCallback() frees its argument, and firePending() goes on.
CallbackReturns ==
  /\ pc = "callback"
  /\ info' = IF ev \in Timers THEN [info EXCEPT ![ev] = "freed"] ELSE info
  /\ ev' = saved
  /\ saved' = NULL
  /\ pc' = "fire"
  /\ UNCHANGED <<now, next, prev, timeout, pipe, caller, deadline, rfds, removed, fired, taken>>

-----------------------------------------------------------------------------

\* What the loop does without waiting.
Works ==
  \/ FirstTimer \/ CalcNextTimeout \/ ProcessTimeouts \/ ProcessReadReadies
  \/ ReadNext \/ Unlink \/ FirePending \/ FirePendingEnds \/ CallbackReturns

Loop == Works \/ Select \/ Interrupted \/ FollowFreed

Steps ==
  \/ Tick
  \/ Loop
  \/ \E t \in Timers, d \in Delays :
       CallbackRequests(t, d) \/ \E th \in Threads : ThreadRequests(th, t, d)
  \/ \E th \in Threads : TriggerEvLoop(th)
  \/ \E t \in Timers :
       \/ CallbackRemoves(t)
       \/ \E th \in Threads : ThreadRemoves(th, t) \/ ThreadRaces(th, t)

Next == pc # "undefined" /\ Steps

Spec == Init /\ [][Next]_vars

\* Time passes, the loop runs, select() is not interrupted for ever, and a
\* thread that has added a timer goes on to write to the pipe.
FairSpec ==
  /\ Spec
  /\ WF_vars(pc # "undefined" /\ Tick) /\ SF_vars(Select)
  /\ WF_vars(Works)
  /\ \A th \in Threads : WF_vars(pc # "undefined" /\ TriggerEvLoop(th))

-----------------------------------------------------------------------------

Pending == SelectSeq(Walk(next, pending_list), LAMBDA e : e \in Timers)

TypeOK ==
  /\ now \in 0..MaxTime
  /\ next \in [Nodes -> Nodes \union {NULL}] /\ prev \in [Nodes -> Nodes \union {NULL}]
  /\ timeout \in [Timers -> 0..MaxTime]
  /\ info \in [Timers -> {"unused", "live", "freed"}]
  /\ pipe \in BOOLEAN /\ rfds \in BOOLEAN
  /\ caller \subseteq Threads
  /\ pc \in {"calc", "first", "select", "timeouts", "readies", "fire", "unlink", "call",
             "callback", "undefined"}
  /\ deadline \in 0..Forever
  /\ ev \in Nodes \union {NULL} /\ saved \in Nodes \union {NULL}
  /\ removed \subseteq Timers
  /\ fired \in [Timers -> Nat]
  /\ taken \subseteq removed \union (IF pc = "undefined" THEN Timers ELSE {})

\* The lists are what addToList() and removeFromList() must keep them: read
\* backwards each has the same events, and every event that is allocated is in
\* one list, but for the one whose callback runs.
ListsLinked ==
  /\ \A head \in {timer_list, pending_list} :
       Walk(prev, head) = Reverse(Walk(next, head))
  /\ LET inLists == ToSet(Walk(next, timer_list)) \union ToSet(Pending)
         running == IF pc \in {"call", "callback"} THEN {ev} ELSE {}
     IN {t \in Timers : info[t] = "live"} = inLists \union (running \ {wakeup})

\* Callbacks are run in the order of their times: no timer is before an earlier
\* one, in the pending list followed by the timer list, although threads and
\* callbacks insert while firePending() runs.
InOrder ==
  LET queue == Pending \o Walk(next, timer_list)
  IN \A i, j \in 1..Len(queue) : i < j => timeout[queue[i]] <= timeout[queue[j]]

\* A callback is not run before the time that was asked for is over.
NeverEarly == \A t \in Timers : fired[t] > 0 => now > timeout[t]

\* A callback that ril_timer_delete() has removed is not run, and none is run
\* twice; every pointer that firePending() has is to an event that is allocated,
\* unless that very event was taken from it.
RemovedNeverFires ==
  /\ \A t \in Timers : fired[t] <= (IF t \in removed THEN 0 ELSE 1)
  /\ \A t \in Timers \intersect Held : info[t] = "live" \/ t \in taken

\* ril_timer_delete(): "Remove event from timer list", whatever the loop does.
RemovalSafe == pc # "undefined"

\* Every timer is run or removed: the pipe wakes the loop up when a thread has
\* inserted a timer that is earlier than what select() waits for; unless a timer
\* was removed while the loop had a pointer to it.
EveryTimerFires ==
  \A t \in Timers : info[t] = "live" ~> fired[t] > 0 \/ t \in removed \/ taken # {}

\* What the comment in processTimeouts() says: a timer is taken when its time is
\* not in the future.
ExpiredAreTaken ==
  [][pc = "timeouts" /\ pc' = "readies" =>
       \A t \in ToSet(Walk(next', timer_list)) : timeout[t] > now]_vars
=============================================================================

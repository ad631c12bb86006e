------------------------------- MODULE Sensors ------------------------------
(***************************************************************************)
(* libsensors: one thread of the system server polls for events while      *)
(* others enable sensors.  The kernel reports a position as one input      *)
(* event per axis and a SYN; the descriptors are read one input event at a *)
(* time through a ring, and block.                                         *)
(***************************************************************************)
EXTENDS Integers, Sequences, FiniteSets

CONSTANTS
  numEvents,     \* of the ring of each sensor
  MaxReports,    \* bound, of each sensor: the reports
  MaxCalls,      \* bound: calls that enable a sensor
  Counts,        \* the room that pollEvents() is called with
  Unit,          \* what the kernel calls one unit of a sensor (1000 and 64)
  Positions,     \* positions <<x, y>> that yas529 and orient may have
  Faults         \* what fails: "sysfs", "poll", "read"

VARIABLES
  kernel,        \* the input events of each sensor that were not read yet
  sensor,        \* the objects of the sensors
  ctx,           \* sensors_poll_context_t, and the call of pollEvents()
  out,           \* the events that calls of pollEvents() returned, of each sensor
  discarded,     \* the reports that were in the buffer of a call that failed
  calls

vars == <<kernel, sensor, ctx, out, discarded, calls>>

Drivers == <<"kxte9", "yas529", "orient">>
Names == {Drivers[i] : i \in 1..3}
Nothing == [r |-> 0, v |-> 0]

-----------------------------------------------------------------------------
(* InputEventCircularReader, whose buffer is twice as long as the ring     *)

Ring(n) ==
  [mBuffer |-> [k \in 0..(2 * n - 1) |-> [type |-> "none", r |-> 0, v |-> 0]],
   mHead |-> 0, mCurr |-> 0, mFreeSpace |-> n, end |-> n]

\* fill(): what read() has put at mHead.  There always is room for one input event;
\* one that is beyond the end is moved to the beginning.
filled(q, ev) ==
  LET b == [q.mBuffer EXCEPT ![q.mHead] = ev]
      h == q.mHead + 1
  IN IF h > q.end
     THEN [q EXCEPT !.mBuffer = [b EXCEPT ![0] = b[q.end]], !.mHead = h - q.end,
                    !.mFreeSpace = @ - 1]
     ELSE [q EXCEPT !.mBuffer = b, !.mHead = h, !.mFreeSpace = @ - 1]

available(q) == q.end - q.mFreeSpace

next(q) ==
  [q EXCEPT !.mCurr = IF q.mCurr + 1 >= q.end THEN 0 ELSE @ + 1, !.mFreeSpace = @ + 1]

-----------------------------------------------------------------------------
(* readEvents() of the three sensors                                       *)

\* An axis goes into the pending event.
processEvent(d, ev) ==
  [d EXCEPT !.pending[ev.type] = [r |-> ev.r, v |-> ev.v], !.mPendingMask = TRUE]

\* "int sum" of values that are not integers: the fraction is cut off at every step.
Truncated(v) == IF v >= 0 THEN v \div Unit ELSE -((-v) \div Unit)
Sum(x, y) == Truncated(Truncated(x) * Unit + y)

\* yas529 and orient deliver a pending event when they are enabled, unless that sum is
\* zero; kxte9 delivers at every SYN.
Delivers(s, d) ==
  IF s = "kxte9" THEN TRUE
  ELSE d.mPendingMask /\ d.mEnabled /\ Sum(d.pending["x"].v, d.pending["y"].v) # 0

\* One turn of the loop: the sensor and what it delivers.
Turn(s, d) ==
  LET ev == d.ring.mBuffer[d.ring.mCurr]
      e == [d EXCEPT !.ring = next(@)]
  IN IF ev.type = "syn"
     THEN [d |-> [e EXCEPT !.mPendingMask = IF s = "kxte9" THEN @ ELSE FALSE],
           events |-> IF Delivers(s, d) THEN <<d.pending>> ELSE << >>]
     ELSE [d |-> IF ev.type \in {"x", "y"} THEN processEvent(e, ev) ELSE e, events |-> << >>]

\* The loop: it goes on while there is room and the ring holds something.
Loop(s, d, count) ==
  LET f[n \in 0..d.ring.end] ==
        IF n = 0 THEN [d |-> d, events |-> << >>]
        ELSE LET p == f[n - 1]
             IN IF Len(p.events) < count /\ available(p.d.ring) > 0
                THEN LET t == Turn(s, p.d)
                     IN [d |-> t.d, events |-> p.events \o t.events]
                ELSE p
  IN f[d.ring.end]

-----------------------------------------------------------------------------
(* sensors_poll_context_t::pollEvents()                                    *)

Call ==
  /\ ctx.pc = "idle"
  /\ \E count \in Counts :
       ctx' = [ctx EXCEPT !.pc = "scan", !.i = 1, !.count = count, !.asked = count,
                          !.nbEvents = 0, !.data = 0, !.buffer = [s \in Names |-> << >>]]
  /\ UNCHANGED <<kernel, sensor, out, discarded, calls>>

\* The loop over the drivers ends without room too.
ScanEnds ==
  /\ ctx.pc = "scan" /\ (ctx.i > 3 \/ ctx.count = 0)
  /\ ctx' = [ctx EXCEPT !.pc = IF ctx.count = 0 THEN "return" ELSE "poll"]
  /\ UNCHANGED <<kernel, sensor, out, discarded, calls>>

ScanSkips ==
  /\ ctx.pc = "scan" /\ ctx.i <= 3 /\ ctx.count # 0 /\ Drivers[ctx.i] \notin ctx.revents
  /\ ctx' = [ctx EXCEPT !.i = @ + 1]
  /\ UNCHANGED <<kernel, sensor, out, discarded, calls>>

Scanning(s) ==
  ctx.pc = "scan" /\ ctx.i <= 3 /\ ctx.count # 0 /\ s = Drivers[ctx.i] /\ s \in ctx.revents

\* What pollEvents() does with the number of events, which are in the caller's buffer.
Took(s, nb, events) ==
  [ctx EXCEPT !.i = @ + 1, !.count = @ - nb, !.nbEvents = @ + nb, !.data = @ + nb,
              !.buffer[s] = @ \o events,
              !.revents = IF nb < ctx.count THEN @ \ {s} ELSE @]

\* A mutant: fill() reads as much as there is room for, as it did before.
readEvents_all(s) ==
  /\ Scanning(s) /\ kernel[s] # << >>
  /\ LET d == sensor[s]
         m == IF Len(kernel[s]) < d.ring.mFreeSpace THEN Len(kernel[s]) ELSE d.ring.mFreeSpace
         g[k \in 0..m] == IF k = 0 THEN d.ring ELSE filled(g[k - 1], kernel[s][k])
         done == Loop(s, [d EXCEPT !.ring = g[m]], ctx.count)
     IN /\ sensor' = [sensor EXCEPT ![s] = done.d]
        /\ ctx' = Took(s, Len(done.events), done.events)
        /\ kernel' = [kernel EXCEPT ![s] = SubSeq(@, m + 1, Len(@))]
  /\ UNCHANGED <<out, discarded, calls>>

\* readEvents(): fill() waits for an input event and reads one.  A signal may interrupt
\* read(), and -EINTR counts as the number of events: what comes next is written in front
\* of the caller's buffer, and is not followed any further.
readEvents(s) ==
  /\ Scanning(s)
  /\ \/ /\ kernel[s] # << >>
        /\ LET d == sensor[s]
               done == Loop(s, [d EXCEPT !.ring = filled(@, Head(kernel[s]))], ctx.count)
           IN /\ sensor' = [sensor EXCEPT ![s] = done.d]
              /\ ctx' = Took(s, Len(done.events), done.events)
        /\ kernel' = [kernel EXCEPT ![s] = Tail(@)]
     \/ /\ "read" \in Faults
        /\ ctx' = [Took(s, -4, << >>) EXCEPT !.interrupted = TRUE]
        /\ UNCHANGED <<kernel, sensor>>
  /\ UNCHANGED <<out, discarded, calls>>

\* poll(): it waits only without events, and reads one wake message.  Its result is
\* zero when nothing is ready.
Poll ==
  /\ ctx.pc = "poll"
  /\ LET ready == {s \in Names : kernel[s] # << >>}
     IN /\ ctx.nbEvents # 0 \/ ready # {} \/ ctx.wake > 0
        /\ ctx' = [ctx EXCEPT !.revents = ready, !.i = 1,
                     !.wake = IF @ > 0 THEN @ - 1 ELSE 0,
                     !.pc = IF ready = {} /\ ctx.wake = 0 THEN "return" ELSE "scan"]
  /\ UNCHANGED <<kernel, sensor, out, discarded, calls>>

\* poll() fails, and so does the call: the caller takes nothing from its buffer.
PollFails ==
  /\ "poll" \in Faults /\ ctx.pc = "poll"
  /\ ctx' = [ctx EXCEPT !.pc = "idle"]
  /\ discarded' = [s \in Names |-> discarded[s] \union
                     {ctx.buffer[s][k]["x"].r : k \in DOMAIN ctx.buffer[s]}]
  /\ UNCHANGED <<kernel, sensor, out, calls>>

Return ==
  /\ ctx.pc = "return"
  /\ ctx' = [ctx EXCEPT !.pc = "idle"]
  /\ out' = [s \in Names |-> out[s] \o ctx.buffer[s]]
  /\ UNCHANGED <<kernel, sensor, discarded, calls>>

-----------------------------------------------------------------------------
(* activate(), from any thread                                             *)

\* "since" remembers the first report that is made while the sensor is on.
Switched(s, en) ==
  [sensor[s] EXCEPT !.mEnabled = en,
                    !.since = IF ~en THEN MaxReports[s] + 1
                              ELSE IF sensor[s].mEnabled THEN @ ELSE sensor[s].made + 1]

\* A sensor that comes on gets the default delay.
EnableKxte9(en) ==
  sensor' = [sensor EXCEPT !["kxte9"] =
    [Switched("kxte9", en) EXCEPT
       !.delay = IF en /\ ~sensor["kxte9"].mEnabled THEN 200 ELSE @]]

\* The sensor is switched through a file, unless it is off already.  (mEnabled is a mask
\* that is never 1, so that one that is on is switched on again.)
EnableYas529(en) == sensor' = [sensor EXCEPT !["yas529"] = Switched("yas529", en)]
Yas529Fails(en) == "sysfs" \in Faults /\ (en \/ sensor["yas529"].mEnabled) /\ UNCHANGED sensor

EnableOrient(en) == sensor' = [sensor EXCEPT !["orient"] = Switched("orient", en)]

\* A sensor that is enabled wakes up the thread that polls.
activate(s, en) ==
  /\ calls < MaxCalls /\ calls' = calls + 1
  /\ \/ /\ \/ s = "kxte9" /\ EnableKxte9(en)
           \/ s = "yas529" /\ EnableYas529(en)
           \/ s = "orient" /\ EnableOrient(en)
        /\ ctx' = IF en THEN [ctx EXCEPT !.wake = @ + 1] ELSE ctx
     \/ s = "yas529" /\ Yas529Fails(en) /\ UNCHANGED ctx
  /\ UNCHANGED <<kernel, out, discarded>>

\* Only kxte9 has a delay, which it takes while it is enabled.
setDelay(s, ms) ==
  /\ calls < MaxCalls /\ calls' = calls + 1
  /\ sensor' = IF s = "kxte9" /\ sensor[s].mEnabled THEN [sensor EXCEPT ![s].delay = ms]
               ELSE sensor
  /\ UNCHANGED <<kernel, ctx, out, discarded>>

\* A driver of the kernel reports a position.
Report(s) ==
  /\ sensor[s].made < MaxReports[s]
  /\ \E p \in IF s = "kxte9" THEN {<<0, 0>>} ELSE Positions :
       LET r == sensor[s].made + 1
           input(t, v) == [type |-> t, r |-> r, v |-> v]
       IN /\ sensor' = [sensor EXCEPT
              ![s].made = r,
              ![s].due = IF s = "kxte9" \/ Sum(p[1], p[2]) # 0 THEN @ \union {r} ELSE @]
          /\ kernel' = [kernel EXCEPT ![s] =
               @ \o <<input("x", p[1]), input("y", p[2]), input("syn", 0)>>]
  /\ UNCHANGED <<ctx, out, discarded, calls>>

Init ==
  /\ kernel = [s \in Names |-> << >>]
  /\ sensor = [s \in Names |->
       [mEnabled |-> s # "orient", mPendingMask |-> FALSE, delay |-> 200,
        pending |-> [a \in {"x", "y"} |-> Nothing], ring |-> Ring(numEvents[s]), made |-> 0, due |-> {},
        since |-> IF s = "orient" THEN MaxReports[s] + 1 ELSE 1]]
  /\ ctx = [pc |-> "idle", i |-> 1, count |-> 0, asked |-> 0, nbEvents |-> 0, data |-> 0,
            revents |-> {}, wake |-> 0, buffer |-> [s \in Names |-> << >>], interrupted |-> FALSE]
  /\ out = [s \in Names |-> << >>] /\ discarded = [s \in Names |-> {}]
  /\ calls = 0

Next ==
  /\ ~ctx.interrupted
  /\ \/ Call \/ ScanEnds \/ ScanSkips \/ Poll \/ PollFails \/ Return
     \/ \E s \in Names :
          \/ readEvents(s) \/ Report(s) \/ setDelay(s, 20)
          \/ \E en \in BOOLEAN : activate(s, en)

Spec == Init /\ [][Next]_vars

-----------------------------------------------------------------------------

\* Every event that is returned is one report of the sensor, with all its axes, and
\* the reports come in their order, through the ring and its wrap.
WholeReports ==
  \A s \in Names :
    LET events == out[s] \o (IF ctx.pc = "idle" THEN << >> ELSE ctx.buffer[s])
    IN /\ \A k \in DOMAIN events :
            events[k]["x"].r = events[k]["y"].r /\ events[k]["x"].r > 0
       /\ \A k \in 1..(Len(events) - 1) : events[k]["x"].r < events[k + 1]["x"].r

Returned(s, r) == \E k \in DOMAIN out[s] : out[s][k]["x"].r = r
InBuffer(s, r) ==
  ctx.pc # "idle" /\ \E k \in DOMAIN ctx.buffer[s] : ctx.buffer[s][k]["x"].r = r
Unread(s, r) == \E k \in DOMAIN kernel[s] : kernel[s][k].type = "syn" /\ kernel[s][k].r = r

\* A report that is made while the sensor is enabled, and whose values do not cancel each
\* other, is in exactly one place: returned, in the buffer of the call in progress, still
\* to be read, or lost with a call whose poll() failed.
NoneLost ==
  \A s \in Names : \A r \in sensor[s].due :
    r >= sensor[s].since =>
      Cardinality({w \in 1..4 : <<Returned(s, r), InBuffer(s, r), Unread(s, r),
                                  r \in discarded[s]>>[w]}) = 1

\* Every report is returned that was made while its sensor was enabled, unless it is still
\* on its way.
AllReturned ==
  \A s \in Names : \A r \in sensor[s].since..sensor[s].made :
    Returned(s, r) \/ InBuffer(s, r) \/ Unread(s, r)

\* pollEvents() stays within the room it was given, and never returns without an event,
\* as long as no read() is interrupted.
RoomKept ==
  ~ctx.interrupted =>
    /\ ctx.pc # "idle" => ctx.count + ctx.nbEvents = ctx.asked /\ ctx.count >= 0
    /\ ctx.data \in 0..ctx.asked
    /\ ctx.pc = "return" => ctx.nbEvents >= 1

\* The same with reads that are interrupted.
BufferKept == ctx.data \in 0..ctx.asked

\* No input event is left in a ring while pollEvents() waits or is not called: nothing
\* would make it look there again.
NothingKept ==
  ctx.pc \in {"idle", "poll"} =>
    \A s \in Names : sensor[s].ring.mFreeSpace = sensor[s].ring.end

\* pollEvents() is not stuck in the read() of a sensor that has nothing while another one
\* has.
ServesOthers ==
  \A s \in Names :
    Scanning(s) /\ kernel[s] = << >> => \A t \in Names : kernel[t] = << >>
=============================================================================

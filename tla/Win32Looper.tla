---------------------------- MODULE Win32Looper -----------------------------
(***************************************************************************)
(* tools/adb/sysdeps_win32.c: the event loop of adb on Windows.            *)
(*                                                                         *)
(* An fdevent asks for a set of events of a descriptor.  The looper keeps  *)
(* one hook for each descriptor with a non-empty set; fdevent_process()    *)
(* asks every hook whether it is ready, waits when none is, and puts the   *)
(* fdevents of the ready hooks on the list of pending ones; fdevent_loop() *)
(* calls them back.  The callbacks are those of the local sockets of       *)
(* tools/adb/sockets.c.                                                    *)
(*                                                                         *)
(* A file is always ready; an end of a pair is ready as its buffers are    *)
(* (BipBuffer); of a socket Winsock records an event once, when it happens *)
(* or when WSAEventSelect() names it, and again only after the call that   *)
(* answers it.                                                             *)
(***************************************************************************)
EXTENDS Integers, Sequences, SequencesExt

CONSTANTS
  Fds, Socket, Pair,        \* descriptors; those that are sockets, pairs (files otherwise)
  MAXIMUM_WAIT_OBJECTS,
  ClosesTotal               \* bound: how many fdevents are removed

VARIABLES
  hooks,     \* the list of the looper, by descriptor
  wanted,    \* of a hook
  mask,      \* what WSAEventSelect() was asked for
  state,     \* the events an fdevent asks for
  active,    \* whether it is installed
  plist,     \* list_pending
  events,    \* of an fdevent, to be delivered
  cond,      \* what is possible on a descriptor: reading "R", writing "W"
  rec,       \* network events that are recorded and not yet enumerated
  evt,       \* event objects that are signalled
  queued,    \* local sockets with packets that are still to be written
  closing,   \* local_socket_closing_list: closed, and removed when these are written
  ended,     \* pairs whose other end is closed
  loop,      \* where the loop is
  cur, ev,   \* the fdevent that is called back, and what is left to deliver
  closes

looper == <<hooks, wanted>>
fde == <<state, active>>
pending == <<plist, events>>
net == <<mask, cond, rec, evt, ended>>
call == <<cur, ev>>
vars == <<looper, fde, pending, net, queued, closing, loop, call, closes>>

-----------------------------------------------------------------------------

RW == {"R", "W"}

Init ==
  /\ hooks = << >> /\ wanted = [f \in Fds |-> {}] /\ mask = [f \in Fds |-> {}]
  /\ state = [f \in Fds |-> {}] /\ active = [f \in Fds |-> TRUE]
  /\ plist = << >> /\ events = [f \in Fds |-> {}]
  /\ cond = [f \in Fds |-> {"W"}] /\ rec = [f \in Fds |-> {}] /\ evt = {}
  /\ queued = {} /\ closing = {} /\ ended = {} /\ loop = "process" /\ cur = << >> /\ ev = {} /\ closes = 0

-----------------------------------------------------------------------------
(* Winsock                                                                 *)

\* An event that is asked for is recorded, and the event object is set.
Record(f, e, m, r, v) ==
  /\ rec' = IF f \in Socket /\ e \in m[f] THEN [r EXCEPT ![f] = @ \cup {e}] ELSE r
  /\ evt' = IF f \in Socket /\ e \in m[f] THEN v \cup {f} ELSE v

Happens(f, e) ==
  /\ active[f] /\ e \notin cond[f]
  /\ cond' = [cond EXCEPT ![f] = @ \cup {e}]
  /\ Record(f, e, mask, rec, evt)
  /\ UNCHANGED <<looper, fde, pending, mask, ended, queued, closing, loop, call, closes>>

\* The thread at the other end of a pair closes it.
PairEnds(f) ==
  /\ f \in Pair \ ended /\ active[f] /\ ended' = ended \cup {f}
  /\ UNCHANGED <<looper, fde, pending, mask, cond, rec, evt, queued, closing, loop, call, closes>>

-----------------------------------------------------------------------------
(* fdevent_set() and what is under it, as functions of what they change    *)

\* event_looper_unhook() and event_looper_hook(), from fdevent_update().
Hooks(f, es) ==
  IF es = {} THEN SelectSeq(hooks, LAMBDA h : h # f)
  ELSE IF f \in ToSet(hooks) /\ state[f] \cap es # {} THEN hooks
  ELSE Append(SelectSeq(hooks, LAMBDA h : h # f), f)

\* event_looper_hook() calls _event_socket_start() before the hook wants what is added:
\* Winsock is told when what it wanted until then has changed, and records what of it is
\* the case already (c: what is possible).
Kept(f, es) == state[f] \cap es
Reselects(f, es) == f \in Socket /\ es \ state[f] # {} /\ mask[f] # Kept(f, es)
HookStart(f, es, c) ==
  /\ rec' = IF Reselects(f, es) THEN [rec EXCEPT ![f] = c[f] \cap Kept(f, es)] ELSE rec
  /\ evt' = IF Reselects(f, es) /\ c[f] \cap Kept(f, es) # {} THEN evt \cup {f} ELSE evt

\* fd_table, and the list of pending fdevents.
fdevent_register(f) == active' = [active EXCEPT ![f] = TRUE]
fdevent_unregister(f) == active' = [active EXCEPT ![f] = FALSE]
fdevent_plist_remove(f) == SelectSeq(plist, LAMBDA p : p # f)

fdevent_set(f, es) ==
  IF state[f] = es THEN UNCHANGED <<looper, state, pending, mask>>
  ELSE /\ hooks' = Hooks(f, es)
       /\ wanted' = [wanted EXCEPT ![f] = es]
       /\ mask' = IF Reselects(f, es) THEN [mask EXCEPT ![f] = Kept(f, es)] ELSE mask
       /\ state' = [state EXCEPT ![f] = es]
       /\ IF f \in ToSet(plist)
          THEN /\ events' = [events EXCEPT ![f] = @ \ es]
               /\ plist' = IF events[f] \ es = {} THEN fdevent_plist_remove(f) ELSE plist
          ELSE UNCHANGED pending

\* fdevent_remove(): off both lists, and the descriptor is closed.
fdevent_remove(f) ==
  /\ plist' = fdevent_plist_remove(f) /\ events' = [events EXCEPT ![f] = {}]
  /\ hooks' = SelectSeq(hooks, LAMBDA h : h # f) /\ wanted' = [wanted EXCEPT ![f] = {}]
  /\ mask' = [mask EXCEPT ![f] = {}] /\ rec' = [rec EXCEPT ![f] = {}] /\ evt' = evt \ {f}
  /\ cond' = [cond EXCEPT ![f] = {}] /\ ended' = ended \ {f}
  /\ fdevent_unregister(f) /\ state' = [state EXCEPT ![f] = {}]

\* local_socket_close(): a socket with packets is removed when they are written, or when
\* it is closed again.
local_socket_close(f) ==
  /\ active[f]
  /\ IF f \in closing THEN UNCHANGED closes ELSE closes < ClosesTotal /\ closes' = closes + 1
  /\ IF f \in closing \/ f \notin queued
     THEN fdevent_remove(f) /\ queued' = queued \ {f} /\ closing' = closing \ {f}
     ELSE /\ fdevent_set(f, state[f] \ {"R"}) /\ closing' = closing \cup {f}
          /\ UNCHANGED <<active, cond, rec, evt, ended, queued>>

\* fdevent_install() of another fdevent for the descriptor, which is new.
fdevent_install(f) ==
  /\ ~active[f] /\ fdevent_register(f)
  /\ cond' = [cond EXCEPT ![f] = {"W"}]
  /\ UNCHANGED <<looper, state, pending, mask, rec, evt, ended, queued, closing, loop, call, closes>>

-----------------------------------------------------------------------------
(* fdevent_process()                                                       *)

\* What the prepare, check or peek function of a hook finds.
Ready(f) ==
  wanted[f] \cap (IF f \in Socket THEN rec[f] ELSE IF f \in Pair THEN cond[f] ELSE RW)

ReadyHooks == {f \in ToSet(hooks) : Ready(f) # {}}

\* event_hook_signal(), of hooks in the order of the list: all that is wanted is
\* delivered, ready or not.
Signal(S) ==
  /\ plist' = plist \o SelectSeq(hooks, LAMBDA h : h \in S /\ h \notin ToSet(plist))
  /\ events' = [f \in Fds |-> IF f \in S THEN events[f] \cup wanted[f] ELSE events[f]]

\* WSAEnumNetworkEvents() of every hooked socket forgets what was recorded.
Enumerate == rec' = [f \in Fds |-> IF f \in ToSet(hooks) THEN {} ELSE rec[f]]

\* Some hook is ready: it is prepared and peeked, and nothing is waited for.
ProcessReady ==
  /\ loop = "process" /\ ReadyHooks # {}
  /\ Signal(ReadyHooks) /\ Enumerate /\ loop' = "dispatch"
  /\ UNCHANGED <<looper, fde, mask, cond, evt, ended, queued, closing, call, closes>>

\* _event_socketpair_start() cannot wait for both events of a pair: the hooks
\* before it have been started, and the loop goes on.
Refuses(f) == f \in Pair /\ wanted[f] = RW
Started ==
  LET bad == {i \in DOMAIN hooks : Refuses(hooks[i])}
  IN IF bad = {} THEN ToSet(hooks)
     ELSE {hooks[i] : i \in {j \in DOMAIN hooks : \A b \in bad : j < b}}

\* _event_socket_start(): Winsock is told when what is wanted has changed, and
\* records what is the case already.
ProcessStart ==
  LET changed == {f \in Started \cap Socket : mask[f] # wanted[f]}
      stuck == hooks = << >> \/ \E f \in ToSet(hooks) : Refuses(f)
  IN /\ loop = "process" /\ ReadyHooks = {}
     /\ mask' = [f \in Fds |-> IF f \in changed THEN wanted[f] ELSE mask[f]]
     /\ rec' = [f \in Fds |-> IF f \in changed THEN cond[f] \cap wanted[f]
                             ELSE IF f \in ToSet(hooks) THEN {} ELSE rec[f]]
     /\ evt' = evt \cup {f \in changed : cond[f] \cap wanted[f] # {}}
     /\ loop' = IF stuck THEN "dispatch"
                ELSE IF Len(hooks) > MAXIMUM_WAIT_OBJECTS THEN "abort" ELSE "wait"
     /\ UNCHANGED <<looper, fde, pending, cond, ended, queued, closing, call, closes>>

\* The handle of this hook is signalled.
Signalled(f) ==
  /\ f \in ToSet(hooks)
  /\ f \in evt \/ f \in ended \/ (f \in Pair /\ wanted[f] \cap cond[f] # {})

\* WaitForMultipleObjects() returns for a hook; _event_socket_check() may find
\* nothing, and the wait goes on.
WaitWakesIdle(f) ==
  /\ loop = "wait" /\ Signalled(f) /\ f \in Socket /\ Ready(f) = {}
  /\ evt' = evt \ {f} /\ rec' = [rec EXCEPT ![f] = {}]
  /\ UNCHANGED <<looper, fde, pending, mask, cond, ended, queued, closing, loop, call, closes>>

\* Otherwise the hook is signalled, and all are peeked.
WaitReturns(f) ==
  /\ loop = "wait" /\ Signalled(f) /\ (f \in Socket => Ready(f) # {})
  /\ Signal({f} \cup ReadyHooks) /\ Enumerate
  /\ evt' = evt \ {f} /\ loop' = "dispatch"
  /\ UNCHANGED <<looper, fde, mask, cond, ended, queued, closing, call, closes>>

-----------------------------------------------------------------------------
(* fdevent_loop() and local_socket_event_func()                            *)

Dispatched ==
  /\ loop = "dispatch" /\ plist = << >> /\ loop' = "process"
  /\ UNCHANGED <<looper, fde, pending, net, queued, closing, call, closes>>

\* The callback starts with what was to be delivered.
Callback ==
  LET f == Head(plist)
  IN /\ loop = "dispatch" /\ plist # << >> /\ loop' = "call"
     /\ cur' = <<f>> /\ ev' = events[f]
     /\ plist' = Tail(plist) /\ events' = [events EXCEPT ![f] = {}]
     /\ UNCHANGED <<looper, fde, net, queued, closing, closes>>

Returns == loop' = "dispatch" /\ cur' = << >> /\ ev' = {}
Writing(f) == cur = <<f>> /\ "W" \in ev
Reading(f) == cur = <<f>> /\ ev = {"R"}

\* Not everything is written: the callback returns, whatever else there was.
WriteAgain(f) ==
  /\ Writing(f) /\ f \in queued /\ Returns
  /\ cond' = [cond EXCEPT ![f] = @ \ {"W"}]
  /\ UNCHANGED <<looper, fde, pending, mask, rec, evt, ended, queued, closing, closes>>

\* The last packet is written, and the peer may send again.
WriteAll(f) ==
  /\ Writing(f) /\ f \notin closing /\ (f \in queued => "W" \in cond[f])
  /\ queued' = queued \ {f}
  /\ IF "R" \in ev THEN ev' = {"R"} /\ UNCHANGED <<loop, cur>> ELSE Returns
  /\ fdevent_set(f, state[f] \ {"W"})
  /\ UNCHANGED <<active, cond, rec, evt, ended, closing, closes>>

\* The last packet of a closing socket is written, or a write fails.
WriteEnds(f) ==
  /\ Writing(f) /\ f \in queued /\ local_socket_close(f) /\ Returns

\* All there is is read: the next read of a socket would block.  The peer is ready for
\* more, or gone, or it is not.
ReadAll(f) ==
  /\ Reading(f) /\ f \notin Pair /\ Returns
  /\ cond' = [cond EXCEPT ![f] = @ \ {"R"}]
  /\ \/ UNCHANGED <<looper, state, pending, mask>>
     \/ f \notin closing /\ fdevent_set(f, state[f] \ {"R"})
  /\ UNCHANGED <<active, rec, evt, ended, queued, closing, closes>>

\* A packet is filled, and there is more.
ReadSome(f) ==
  /\ Reading(f) /\ "R" \in cond[f] /\ Returns
  /\ \/ UNCHANGED <<looper, state, pending, mask>>
     \/ f \notin closing /\ fdevent_set(f, state[f] \ {"R"})
  /\ Record(f, "R", mask, rec, evt)
  /\ UNCHANGED <<active, cond, ended, queued, closing, closes>>

\* The end of the stream, or the peer, a smart socket, has closed this one.  The read of
\* a pair waits for it when the packet is not full.
ReadEof(f) == Reading(f) /\ (f \in Pair => f \in ended) /\ local_socket_close(f) /\ Returns

\* What the callback does to the other sockets, as their peer: a closing one has none.
Other(f) == loop = "call" /\ cur # <<f>> /\ f \notin closing

\* local_socket_enqueue() of f: what cannot be written is queued.
Enqueue(f) ==
  LET c == [cond EXCEPT ![f] = @ \ {"W"}]
  IN /\ active[f] /\ f \notin queued
     /\ queued' = queued \cup {f} /\ cond' = c
     /\ fdevent_set(f, state[f] \cup {"W"}) /\ HookStart(f, state[f] \cup {"W"}, c)
     /\ UNCHANGED <<active, ended, closing, loop, call, closes>>

\* local_socket_ready() of f.
LocalReady(f) ==
  /\ active[f] /\ "R" \notin state[f]
  /\ fdevent_set(f, state[f] \cup {"R"}) /\ HookStart(f, state[f] \cup {"R"}, cond)
  /\ UNCHANGED <<active, cond, ended, queued, closing, loop, call, closes>>

LocalClose(f) == local_socket_close(f) /\ UNCHANGED <<loop, call>>

-----------------------------------------------------------------------------

LoopStep ==
  \/ ProcessReady \/ ProcessStart \/ Dispatched \/ Callback
  \/ \E f \in Fds : WaitWakesIdle(f) \/ WaitReturns(f)
  \/ \E f \in Fds : WriteAgain(f) \/ WriteAll(f) \/ WriteEnds(f)
  \/ \E f \in Fds : ReadAll(f) \/ ReadSome(f) \/ ReadEof(f)

Next ==
  \/ LoopStep
  \/ \E f \in Fds : Other(f) /\ (Enqueue(f) \/ LocalReady(f) \/ LocalClose(f))
  \/ \E f \in Fds : (Other(f) \/ loop = "process") /\ f \notin closing
                   /\ (fdevent_install(f) \/ LocalReady(f))
  \/ \E f \in Fds : PairEnds(f) \/ \E e \in RW : Happens(f, e)

Spec == Init /\ [][Next]_vars

\* The loop is a thread of its own.
Fairness == WF_vars(LoopStep)

-----------------------------------------------------------------------------

TypeOK ==
  /\ hooks \in Seq(Fds) /\ plist \in Seq(Fds)
  /\ \A f \in Fds : /\ wanted[f] \subseteq RW /\ mask[f] \subseteq RW /\ state[f] \subseteq RW
                    /\ events[f] \subseteq RW /\ cond[f] \subseteq RW /\ rec[f] \subseteq RW
  /\ evt \subseteq Fds /\ closing \subseteq queued /\ queued \subseteq Fds

\* The two lists and what the fdevents ask for agree: a descriptor has one hook
\* when something is asked of it and none otherwise, a pending fdevent is on the
\* list once and is still installed, and Winsock records nothing for a descriptor
\* that was closed.
HooksCoherent ==
  /\ \A f \in Fds : wanted[f] = state[f] /\ (f \in ToSet(hooks) <=> state[f] # {})
  /\ IsInjective(hooks) /\ IsInjective(plist)
  /\ \A f \in ToSet(plist) : active[f]
  /\ \A f \in Fds : rec[f] \subseteq mask[f] /\ (rec[f] # {} => f \in evt)

\* local_socket_event_func() in tools/adb/sockets.c returns from a write that would
\* block, which "is ok because FDE_READ will be processed in the next iteration
\* loop": what a socket can read, and Winsock has been asked for, is found by the
\* next fdevent_process().
ReadNextIteration ==
  loop = "process" =>
    \A f \in Socket : ("R" \in cond[f] \cap state[f] /\ mask[f] = state[f]) => "R" \in rec[f]
=============================================================================

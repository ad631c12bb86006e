------------------------------ MODULE Fdevent ------------------------------
(***************************************************************************)
(* The event record of adb's select loop (tools/adb/fdevent.c) as pure     *)
(* operators.  An fde is                                                   *)
(*    want     the FDE_EVENTMASK half of fde->state (what select watches)  *)
(*    events   fde->events, what the last select reported and the callback *)
(*             has not been given yet                                      *)
(*    pending  the FDE_PENDING bit: the fde is on list_pending             *)
(* The loop that owns the list is FdeventLoop; the socket layer AdbStream  *)
(* keeps one of these records for each of its sockets.                     *)
(***************************************************************************)
EXTENDS FiniteSets

READ == "FDE_READ"
WRITE == "FDE_WRITE"
Events == {READ, WRITE}

FdeType == [want: SUBSET Events, events: SUBSET Events, pending: BOOLEAN]

\* fdevent_install: nothing is watched and nothing is pending.
FdeInstalled == [want |-> {}, events |-> {}, pending |-> FALSE]

\* fdevent.c:467: of the events that wait for the callback, the ones in the
\* new mask are cleared.
MaskPending(fde, events) == fde.events \ events

\* fdevent_set: a no-op when the mask does not change; otherwise the new mask
\* is installed, and a pending fde whose events become empty leaves the list.
fdevent_set(fde, events) ==
  IF fde.want = events THEN fde
  ELSE IF ~fde.pending THEN [fde EXCEPT !.want = events]
  ELSE LET left == MaskPending(fde, events)
       IN  [want |-> events, events |-> left, pending |-> left # {}]

fdevent_add(fde, events) == fdevent_set(fde, fde.want \cup events)

fdevent_del(fde, events) == fdevent_set(fde, fde.want \ events)

\* fdevent_process, for one descriptor that select reported.
FdeReport(fde, events) ==
  [fde EXCEPT !.events = @ \cup events, !.pending = TRUE]

\* fdevent_loop takes the fde off the list and hands its events to the
\* callback.
FdeDispatch(fde) == [fde EXCEPT !.events = {}, !.pending = FALSE]

=============================================================================

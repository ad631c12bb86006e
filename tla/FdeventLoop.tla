---------------------------- MODULE FdeventLoop ----------------------------
(***************************************************************************)
(* adb's event loop (tools/adb/fdevent.c, the select implementation; the   *)
(* epoll one is compiled out).  The loop alternates between one select     *)
(* (fdevent_process) and the callbacks of the records that select reported *)
(* (the inner while of fdevent_loop).  A callback may install, remove or   *)
(* re-mask any record, its own included, so between two callbacks of one   *)
(* round every operation of the interface may happen.                      *)
(***************************************************************************)
EXTENDS Fdevent, Integers, Sequences, SequencesExt

CONSTANTS Fdes,     \* the fdevent objects of the program
          MaxFd     \* descriptors are 0 .. MaxFd

Fds == 0 .. MaxFd
None == "none"      \* a null entry of fd_table
NoFd == -1          \* the descriptor of a record that is not installed

VARIABLES fd_table, \* fd_table[fd], the record registered for a descriptor
          fdes,     \* the records
          fdOf,     \* fde->fd; NoFd when the record is not FDE_ACTIVE
          fd_sets,  \* read_fds and write_fds, as the events set per descriptor
          select_n, \* first argument of select
          list_pending

vars == <<fd_table, fdes, fdOf, fd_sets, select_n, list_pending>>

TypeOK ==
  /\ fd_table \in [Fds -> Fdes \cup {None}]
  /\ fdes \in [Fdes -> FdeType]
  /\ fdOf \in [Fdes -> Fds \cup {NoFd}]
  /\ fd_sets \in [Fds -> SUBSET Events]
  /\ select_n \in 0 .. MaxFd + 1
  /\ list_pending \in Seq(Fdes)

Init ==
  /\ fd_table = [fd \in Fds |-> None]
  /\ fdes = [f \in Fdes |-> FdeInstalled]
  /\ fdOf = [f \in Fdes |-> NoFd]
  /\ fd_sets = [fd \in Fds |-> {}]
  /\ select_n = 0
  /\ list_pending = <<>>

Active(f) == fdOf[f] # NoFd

\* fdevent_install, on a descriptor the kernel has just opened.
FdeInstall(f, fd) ==
  /\ ~Active(f)
  /\ fd_table[fd] = None
  /\ fdes' = [fdes EXCEPT ![f] = FdeInstalled]
  /\ fdOf' = [fdOf EXCEPT ![f] = fd]
  /\ fd_table' = [fd_table EXCEPT ![fd] = f]
  /\ select_n' = IF fd >= select_n THEN fd + 1 ELSE select_n
  /\ UNCHANGED <<fd_sets, list_pending>>

\* A slip in the recomputation: the highest descriptor instead of one more.
SelectNShort(fd) == LET used == {0} \cup {i \in 0 .. select_n - 1 : fd_table[i] # None}
                    IN  CHOOSE i \in used : \A j \in used : i >= j

\* fdevent_disconnect runs before fdevent_unregister: the record that goes
\* away is still in fd_table and still counts.
SelectN(fd) == LET used == {0} \cup {i \in 0 .. select_n - 1 : fd_table[i] # None}
               IN  1 + CHOOSE i \in used : \A j \in used : i >= j

\* fdevent_remove (and fdevent_destroy): off the pending list, out of the
\* select sets and of the table, and the descriptor is closed.
FdeRemove(f) ==
  /\ Active(f)
  /\ list_pending' = Remove(list_pending, f)
  /\ fd_sets' = [fd_sets EXCEPT ![fdOf[f]] = {}]
  /\ select_n' = SelectN(fdOf[f])
  /\ fd_table' = [fd_table EXCEPT ![fdOf[f]] = None]
  /\ fdOf' = [fdOf EXCEPT ![f] = NoFd]
  /\ fdes' = [fdes EXCEPT ![f] = FdeInstalled]

\* fdevent_set, and fdevent_add and fdevent_del which end in it.
FdeSet(f, events) ==
  /\ Active(f)
  /\ fdes[f].want # events
  /\ LET new == fdevent_set(fdes[f], events)
     IN  /\ fdes' = [fdes EXCEPT ![f] = new]
         /\ list_pending' = IF fdes[f].pending /\ ~new.pending
                            THEN Remove(list_pending, f)
                            ELSE list_pending
  /\ fd_sets' = [fd_sets EXCEPT ![fdOf[f]] = events]
  /\ UNCHANGED <<fd_table, fdOf, select_n>>

\* fdevent_process: select looks at the descriptors below select_n; a record
\* with something to report joins the list in descriptor order.  ready is what
\* the kernel finds.
Reported(ready) == {fd \in 0 .. select_n - 1 : ready[fd] \cap fd_sets[fd] # {}}

Process(ready) ==
  /\ list_pending = <<>>
  /\ Reported(ready) # {}
  /\ \A fd \in Reported(ready) : fd_table[fd] # None
  /\ fdes' = [f \in Fdes |->
                IF Active(f) /\ fdOf[f] \in Reported(ready)
                THEN FdeReport(fdes[f], ready[fdOf[f]] \cap fd_sets[fdOf[f]])
                ELSE fdes[f]]
  /\ list_pending' = LET fds == SetToSortSeq(Reported(ready), <)
                     IN  [i \in DOMAIN fds |-> fd_table[fds[i]]]
  /\ UNCHANGED <<fd_table, fdOf, fd_sets, select_n>>

\* The inner loop of fdevent_loop: the first pending record goes to its
\* callback, whose own operations are the other actions.
Dispatch ==
  /\ list_pending # <<>>
  /\ fdes' = [fdes EXCEPT ![Head(list_pending)] = FdeDispatch(@)]
  /\ list_pending' = Tail(list_pending)
  /\ UNCHANGED <<fd_table, fdOf, fd_sets, select_n>>

Next ==
  \/ \E f \in Fdes, fd \in Fds : FdeInstall(f, fd)
  \/ \E f \in Fdes : FdeRemove(f)
  \/ \E f \in Fdes, events \in SUBSET Events : FdeSet(f, events)
  \/ \E ready \in [Fds -> SUBSET Events] : Process(ready)
  \/ Dispatch

Spec == Init /\ [][Next]_vars

-----------------------------------------------------------------------------
(* Properties *)

\* The pending list, the FDE_PENDING bits and the collected events agree, and
\* no removed record is left on the list: a callback runs once for every
\* report, and never on an object that fdevent_remove has retired
\* (fdevent_plist_*, fdevent_remove, fdevent_set).
PendingCoherent ==
  /\ IsInjective(list_pending)
  /\ \A f \in Fdes : /\ fdes[f].pending <=> f \in Range(list_pending)
                     /\ fdes[f].pending <=> fdes[f].events # {}
                     /\ fdes[f].pending => Active(f)

\* Everything that is watched is inside the range select is given, and has a
\* record to report to: select_n is recomputed on every removal
\* (fdevent_disconnect) and fdevent_process never meets "missing fde".
WatchedIsServed ==
  \A fd \in Fds : fd_sets[fd] # {} =>
    /\ fd < select_n
    /\ fd_table[fd] # None
    /\ fdOf[fd_table[fd]] = fd
    /\ fdes[fd_table[fd]].want = fd_sets[fd]

\* The comment in fdevent_set: a pending record never signals an event that
\* is no longer wanted.
SignalsAreWanted == \A f \in Fdes : fdes[f].events \subseteq fdes[f].want

=============================================================================

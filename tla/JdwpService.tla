---------------------------- MODULE JdwpService -----------------------------
(***************************************************************************)
(* tools/adb/jdwp_service.c: the virtual machines of the device connect to *)
(* a control socket and send their process id; adbd lists them ("jdwp"),   *)
(* reports every change of the list ("track-jdwp") and hands a virtual     *)
(* machine one end of a socket pair for every debugger ("jdwp:<pid>").     *)
(*                                                                         *)
(* All of it runs in adbd's event loop.  A process id comes as two halves  *)
(* (the code counts four characters); a machine may send more, and may die *)
(* at any time.                                                            *)
(***************************************************************************)
EXTENDS Integers, Sequences, SequencesExt, FiniteSets

CONSTANTS
  Conns,          \* connections of virtual machines, each made at most once
  Pids,           \* process ids, and -1 for what is no number
  Trackers,       \* "track-jdwp" streams, each opened at most once
  Listers,        \* "jdwp" streams
  MAX_OUT_FDS,
  MaxFds,         \* bound: debuggers
  UpdateRoom,     \* process ids that fit into an update of 1024 bytes
  PacketRoom      \* process ids that fit into a packet of MAX_PAYLOAD bytes

VARIABLES
  procs,          \* _jdwp_list
  pid, in_len, out_fds, want,     \* of each: as in JdwpProcess; want is fde's state
  sends, came, junk, hung,        \* what the machine has done with its connection
  fds,            \* of the descriptors for machines: pending, handed or closed
  trackers,       \* _jdwp_trackers_list
  told, unready,  \* of each tracker: the last list sent; packets without a READY, up to 2
  pass            \* of each lister

machine == <<sends, came, junk, hung>>
process == <<pid, in_len, out_fds, want>>
vars == <<procs, process, machine, fds, trackers, told, unready, pass>>

Seen == {procs[i] : i \in DOMAIN procs}
Tracked == {trackers[i] : i \in DOMAIN trackers}

\* jdwp_process_list(): connections whose process id has not come are left out.
jdwp_process_list(ps, ids, room) ==
  LET known == SelectSeq(ps, LAMBDA c : ids[c] >= 0)
  IN [i \in 1..(IF Len(known) < room THEN Len(known) ELSE room) |-> ids[known[i]]]

\* jdwp_process_list_updated(): every tracker gets the new list, ready or not.
jdwp_process_list_updated(ps, ids) ==
  /\ told' = [t \in Trackers |-> IF t \in Tracked THEN jdwp_process_list(ps, ids, UpdateRoom)
                                 ELSE told[t]]
  /\ unready' = [t \in Trackers |-> IF t \in Tracked /\ unready[t] < 2 THEN unready[t] + 1
                                    ELSE unready[t]]

\* A mutant: the trackers are told before the process is off the list.
jdwp_process_free_late(c) ==
  /\ procs' = Remove(procs, c)
  /\ fds' = [d \in DOMAIN fds |-> IF Contains(out_fds[c], d) THEN "closed" ELSE fds[d]]
  /\ pid' = [pid EXCEPT ![c] = -1] /\ out_fds' = [out_fds EXCEPT ![c] = << >>]
  /\ want' = [want EXCEPT ![c] = {}]
  /\ jdwp_process_list_updated(procs, pid)
  /\ UNCHANGED <<in_len, trackers, pass>>

\* jdwp_process_free()
jdwp_process_free(c) ==
  /\ procs' = Remove(procs, c)
  /\ fds' = [d \in DOMAIN fds |-> IF Contains(out_fds[c], d) THEN "closed" ELSE fds[d]]
  /\ pid' = [pid EXCEPT ![c] = -1] /\ out_fds' = [out_fds EXCEPT ![c] = << >>]
  /\ want' = [want EXCEPT ![c] = {}]
  /\ jdwp_process_list_updated(procs', pid')
  /\ UNCHANGED <<in_len, trackers, pass>>

-----------------------------------------------------------------------------
(* jdwp_process_event()                                                    *)

Readable(c) == came[c] > in_len[c] \/ junk[c] \/ hung[c]
Ready(c) == want[c] \cap ((IF Readable(c) THEN {"READ"} ELSE {}) \cup {"WRITE"})

\* The process id is not complete, or is now.
ReadPid(c) ==
  /\ pid[c] < 0
  /\ UNCHANGED junk
  /\ IF (came[c] < 2 /\ hung[c]) \/ (came[c] = 2 /\ sends[c] < 0)
     THEN jdwp_process_free(c)
     ELSE /\ in_len' = [in_len EXCEPT ![c] = came[c]]
          /\ IF came[c] < 2 THEN UNCHANGED <<pid, told, unready>>
             ELSE /\ pid' = [pid EXCEPT ![c] = sends[c]]
                  /\ jdwp_process_list_updated(procs, pid')
          /\ UNCHANGED <<procs, out_fds, want, fds, trackers, pass>>

\* Anything else is ignored until the end of the stream.
ReadOn(c) ==
  /\ pid[c] >= 0
  /\ junk' = [junk EXCEPT ![c] = FALSE]
  /\ IF hung[c] THEN jdwp_process_free(c)
     ELSE UNCHANGED <<procs, process, fds, trackers, told, unready, pass>>

\* sendmsg() fails when the machine is gone, or has read none of what it was sent.
\* adbd's own copy of a descriptor that it has sent stays open.
WriteFd(c) ==
  /\ UNCHANGED junk
  /\ IF out_fds[c] = << >>
     THEN UNCHANGED <<procs, process, fds, trackers, told, unready, pass>>
     ELSE \/ jdwp_process_free(c)
          \/ /\ ~hung[c]
             /\ fds' = [fds EXCEPT ![Head(out_fds[c])] = "handed"]
             /\ out_fds' = [out_fds EXCEPT ![c] = Tail(@)]
             /\ want' = IF Len(out_fds[c]) = 1 THEN [want EXCEPT ![c] = @ \ {"WRITE"}] ELSE want
             /\ UNCHANGED <<procs, pid, in_len, trackers, told, unready, pass>>

\* Both events may have been seen; a read returns or goes on to the write only when
\* the process id has just come, when there is nothing to write yet.
jdwp_process_event(c) ==
  /\ c \in Seen /\ Ready(c) # {}
  /\ IF "READ" \in Ready(c) THEN ReadPid(c) \/ ReadOn(c) ELSE WriteFd(c)
  /\ UNCHANGED <<sends, came, hung>>

-----------------------------------------------------------------------------

\* create_jdwp_connection_fd(): refused (nothing changes) for an unknown process, for
\* one with MAX_OUT_FDS descriptors pending, and without a socket pair.
create_jdwp_connection_fd(p) ==
  LET found == SelectSeq(procs, LAMBDA c : pid[c] = p)
      c == Head(found)
      d == Len(fds) + 1
  IN /\ found # << >> /\ Len(out_fds[c]) < MAX_OUT_FDS /\ d <= MaxFds
     /\ fds' = Append(fds, "pending")
     /\ out_fds' = [out_fds EXCEPT ![c] = Append(@, d)]
     /\ want' = IF out_fds[c] = << >> THEN [want EXCEPT ![c] = @ \cup {"WRITE"}] ELSE want
     /\ UNCHANGED <<procs, pid, in_len, machine, trackers, told, unready, pass>>

\* jdwp_control_event() and jdwp_process_alloc(): a machine has connected.
jdwp_control_event(c) ==
  /\ c \notin Seen /\ came[c] = -1
  /\ procs' = Append(procs, c)
  /\ want' = [want EXCEPT ![c] = {"READ"}]
  /\ came' = [came EXCEPT ![c] = 0] /\ \E p \in Pids : sends' = [sends EXCEPT ![c] = p]
  /\ UNCHANGED <<pid, in_len, out_fds, junk, hung, fds, trackers, told, unready, pass>>

\* The machine sends its process id, sends more, or dies.
Machine(c) ==
  /\ came[c] >= 0 /\ ~hung[c]
  /\ \/ came[c] < 2 /\ came' = [came EXCEPT ![c] = @ + 1] /\ UNCHANGED <<junk, hung>>
     \/ came[c] = 2 /\ junk' = [junk EXCEPT ![c] = TRUE] /\ UNCHANGED <<came, hung>>
     \/ hung' = [hung EXCEPT ![c] = TRUE] /\ UNCHANGED <<came, junk>>
  /\ UNCHANGED <<procs, process, sends, fds, trackers, told, unready, pass>>

-----------------------------------------------------------------------------
(* The streams                                                             *)

\* create_jdwp_tracker_service_socket(), and jdwp_tracker_ready(), which the handler
\* of the OPEN message calls next.
create_jdwp_tracker(t) ==
  /\ t \notin Tracked /\ unready[t] = 0
  /\ trackers' = Append(trackers, t)
  /\ told' = [told EXCEPT ![t] = jdwp_process_list(procs, pid, PacketRoom)]
  /\ unready' = [unready EXCEPT ![t] = 1]
  /\ UNCHANGED <<procs, process, machine, fds, pass>>

\* A READY of the client: need_update is no longer set, and nothing is sent.
jdwp_tracker_ready(t) ==
  /\ t \in Tracked /\ unready[t] > 0
  /\ unready' = [unready EXCEPT ![t] = @ - 1]
  /\ UNCHANGED <<procs, process, machine, fds, trackers, told, pass>>

\* jdwp_tracker_close(), of its own or of the peer, which also closes the stream when
\* anything is written to it (jdwp_tracker_enqueue).
jdwp_tracker_close(t) ==
  /\ t \in Tracked
  /\ trackers' = Remove(trackers, t)
  /\ unready' = [unready EXCEPT ![t] = -1]
  /\ UNCHANGED <<procs, process, machine, fds, told, pass>>

\* create_jdwp_service_socket() and jdwp_socket_ready(): the list at the first call,
\* the end of the stream at the second one.
jdwp_socket_ready(l) ==
  /\ pass[l] < 2
  /\ pass' = [pass EXCEPT ![l] = @ + 1]
  /\ UNCHANGED <<procs, process, machine, fds, trackers, told, unready>>

\* jdwp_socket_close(), also called when anything is written (jdwp_socket_enqueue).
jdwp_socket_close(l) ==
  /\ pass[l] = 1
  /\ pass' = [pass EXCEPT ![l] = 2]
  /\ UNCHANGED <<procs, process, machine, fds, trackers, told, unready>>

\* init_jdwp()
Init ==
  /\ procs = << >> /\ trackers = << >> /\ fds = << >>
  /\ pid = [c \in Conns |-> -1] /\ in_len = [c \in Conns |-> 0]
  /\ out_fds = [c \in Conns |-> << >>] /\ want = [c \in Conns |-> {}]
  /\ sends = [c \in Conns |-> -1] /\ came = [c \in Conns |-> -1]
  /\ junk = [c \in Conns |-> FALSE] /\ hung = [c \in Conns |-> FALSE]
  /\ told = [t \in Trackers |-> << >>] /\ unready = [t \in Trackers |-> 0]
  /\ pass = [l \in Listers |-> 0]

Next ==
  \/ \E c \in Conns : jdwp_control_event(c) \/ Machine(c) \/ jdwp_process_event(c)
  \/ \E p \in Pids \ {-1} : create_jdwp_connection_fd(p)
  \/ \E t \in Trackers : create_jdwp_tracker(t) \/ jdwp_tracker_ready(t) \/ jdwp_tracker_close(t)
  \/ \E l \in Listers : jdwp_socket_ready(l) \/ jdwp_socket_close(l)

Spec == Init /\ [][Next]_vars

-----------------------------------------------------------------------------

\* The last list that a tracker was sent is the list of the machines that are
\* connected and have sent their process id.
TrackersKnow ==
  \A t \in Tracked : told[t] = jdwp_process_list(procs, pid, Len(procs))

\* A descriptor for a machine waits at exactly one machine of the list, which will be
\* offered it (the write event is asked for while there is one, and only then), until
\* it is handed over or, with the machine, closed: no debugger waits for a machine
\* that is gone.
DescriptorsSound ==
  /\ \A d \in DOMAIN fds :
       Cardinality({c \in Seen : Contains(out_fds[c], d)}) = (IF fds[d] = "pending" THEN 1 ELSE 0)
  /\ \A c \in Seen :
       /\ ("WRITE" \in want[c]) <=> (out_fds[c] # << >>)
       /\ Len(out_fds[c]) <= MAX_OUT_FDS /\ "READ" \in want[c]
  /\ \A c \in Conns \ Seen : want[c] = {} /\ out_fds[c] = << >>

\* protocol.txt: the next packet of a tracker's stream waits for a READY.
WriteNeedsReady == \A t \in Tracked : unready[t] <= 1
=============================================================================

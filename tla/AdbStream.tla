----------------------------- MODULE AdbStream -----------------------------
(***************************************************************************)
(* A stream between a program on one machine and a service on the other,   *)
(* multiplexed over one adb transport (tools/adb/sockets.c and             *)
(* handle_packet of tools/adb/adb.c).  Each side is one adb process: an    *)
(* event loop (see Fdevent) over the descriptors of its local sockets and  *)
(* the transport's socket.  A local socket moves bytes between its         *)
(* descriptor and its peer, a remote socket that turns calls into packets  *)
(* for the other side.                                                     *)
(*                                                                         *)
(* The transport is online and loses nothing; AdbTransport is about what   *)
(* happens when it goes away.  Bytes are numbered in the order in which a  *)
(* program writes them, so that loss, duplication and reordering show.     *)
(* A remote socket exists exactly while a local socket has it as its peer, *)
(* and is represented by its id in the local socket's peer field.          *)
(***************************************************************************)
EXTENDS Fdevent, Integers, Sequences, SequencesExt

CONSTANTS MaxStreams,  \* local sockets of one side (ids 1 .. MaxStreams)
          Units,       \* bytes each program writes at most
          MAX_PAYLOAD, \* bytes in one packet
          Openers,     \* the sides whose programs open streams
          HowOpened,   \* subset of {"smart", "forward"}
          Writers,     \* the sides whose programs write
          Closers      \* the sides whose programs stop writing or close

Sides == {"host", "device"}
Other(side) == IF side = "host" THEN "device" ELSE "host"
Ids == 1 .. MaxStreams
Bytes == 1 .. Units

VARIABLES
  sock,   \* sock[side][id]: the local sockets
  prog,   \* prog[side][id]: the program at the far end of the descriptor
  wire,   \* wire[side]: packets on their way to side
  xfde    \* xfde[side]: the transport's socket is on list_pending

vars == <<sock, prog, wire, xfde>>

\* mate remembers the peer of a socket that has lost it.
NoSocket == [status |-> "none", peer |-> 0, mate |-> 0, notify |-> FALSE,
             q |-> <<>>, fde |-> FdeInstalled]

\* made, read: bytes the program has written, bytes adb has read of them;
\* eof: it writes no more; gone: it has closed, writing to it fails;
\* got: bytes it received; told: the smart socket's answer; failed: a write
\* to it has failed.
NewProgram == [made |-> 0, read |-> 0, eof |-> FALSE, gone |-> FALSE,
               got |-> <<>>, told |-> "nothing", failed |-> FALSE]

SocketType ==
  [status: {"none", "connecting", "open", "closing", "freed"},
   peer: 0 .. MaxStreams, mate: 0 .. MaxStreams, notify: BOOLEAN,
   q: BoundedSeq(Bytes, Units), fde: FdeType]

ProgramType ==
  [made: 0 .. Units, read: 0 .. Units, eof: BOOLEAN, gone: BOOLEAN,
   got: BoundedSeq(Bytes, Units), told: {"nothing", "OKAY", "FAIL"},
   failed: BOOLEAN]

PacketType == [command: {"OPEN", "OKAY", "WRTE", "CLSE"},
               arg0: 0 .. MaxStreams, arg1: 0 .. MaxStreams,
               data: BoundedSeq(Bytes, MAX_PAYLOAD)]

Packet(command, arg0, arg1) ==
  [command |-> command, arg0 |-> arg0, arg1 |-> arg1, data |-> <<>>]

TypeOK ==
  /\ \A side \in Sides, id \in Ids : /\ sock[side][id] \in SocketType
                                     /\ prog[side][id] \in ProgramType
  /\ \A side \in Sides : \A i \in DOMAIN wire[side] :
       wire[side][i] \in PacketType
  /\ xfde \in [Sides -> BOOLEAN]

Init ==
  /\ sock = [side \in Sides |-> [id \in Ids |-> NoSocket]]
  /\ prog = [side \in Sides |-> [id \in Ids |-> NewProgram]]
  /\ wire = [side \in Sides |-> <<>>]
  /\ xfde = [side \in Sides |-> FALSE]

-----------------------------------------------------------------------------
(* The calls of sockets.c work on the state of one process: its sockets s, *)
(* the programs g behind them, and the packets out it sends.               *)

Process(side) == [s |-> sock[side], g |-> prog[side], out |-> <<>>]

send_packet(st, packet) == [st EXCEPT !.out = Append(@, packet)]

\* find_local_socket looks at local_socket_list, where a closing socket no
\* longer is.
Found(st, id) == id \in Ids /\ st.s[id].status \in {"connecting", "open"}

\* install_local_socket: ids are never used twice.
NextId(st) == 1 + Cardinality({id \in Ids : st.s[id].status # "none"})

local_socket_destroy(st, id) ==
  [st EXCEPT !.s[id] = [NoSocket EXCEPT !.status = "freed",
                                        !.mate = st.s[id].mate]]

\* local_socket_close_locked that forgets the packets still to be written.
CloseDropsBacklog(st, id) ==
  LET peer == st.s[id].peer
      told == IF peer = 0 THEN st ELSE send_packet(st, Packet("CLSE", 0, peer))
  IN  local_socket_destroy(told, id)

\* local_socket_close_locked with the close of the peer left out.
CloseKeepsPeer(st, id) ==
  IF st.s[id].status = "closing" \/ st.s[id].q = <<>>
  THEN local_socket_destroy(st, id)
  ELSE [st EXCEPT !.s[id].status = "closing", !.s[id].peer = 0,
                  !.s[id].fde = fdevent_del(@, {READ})]

\* local_socket_close_locked and remote_socket_close: the peer is told with a
\* CLSE whose arg0 stays 0, because the remote socket has lost its own peer by
\* then; with packets still to be written the socket moves to the closing list.
local_socket_close_locked(st, id) ==
  LET peer == st.s[id].peer
      told == IF peer = 0 THEN st ELSE send_packet(st, Packet("CLSE", 0, peer))
  IN  IF st.s[id].status = "closing" \/ st.s[id].q = <<>>
      THEN local_socket_destroy(told, id)
      ELSE [told EXCEPT !.s[id].status = "closing", !.s[id].peer = 0,
                        !.s[id].fde = fdevent_del(@, {READ})]

\* s->close(s), by way of local_socket_close_notify while it is rigged.
Close(st, id) ==
  LET plain == IF st.s[id].notify
               THEN [st EXCEPT !.s[id].notify = FALSE, !.g[id].told = "FAIL"]
               ELSE st
  IN  local_socket_close_locked(plain, id)

\* s->ready(s), by way of local_socket_ready_notify while it is rigged.
Ready(st, id) ==
  LET plain == IF st.s[id].notify
               THEN [st EXCEPT !.s[id].notify = FALSE, !.g[id].told = "OKAY"]
               ELSE st
  IN  [plain EXCEPT !.s[id].fde = fdevent_add(@, {READ})]

\* adb_write accepts n bytes of data.
Written(st, id, data, n) ==
  [st EXCEPT !.g[id].got = @ \o SubSeq(data, 1, n)]

\* p->ptr and p->len after n bytes have been written.
Rest(data, n) == SubSeq(data, n + 1, Len(data))

\* local_socket_enqueue on a packet from remote id rid, with send_ready of
\* handle_packet when it returns 0.  The results it can have: a failed write, or
\* n bytes accepted before the descriptor would block.
local_socket_enqueue(st, id, data, rid) ==
  IF st.s[id].q # <<>>
  THEN {[st EXCEPT !.s[id].q = @ \o data,
                   !.s[id].fde = fdevent_add(@, {WRITE})]}
  ELSE IF st.g[id].gone
  THEN {Close([st EXCEPT !.g[id].failed = TRUE], id)}
  ELSE {LET sent == Written(st, id, data, n)
        IN  IF n = Len(data)
            THEN send_packet(sent, Packet("OKAY", id, rid))
            ELSE [sent EXCEPT !.s[id].q = Rest(data, n),
                              !.s[id].fde = fdevent_add(@, {WRITE})]
        : n \in 0 .. Len(data)}

\* The FDE_WRITE half of local_socket_event_func, once the descriptor has
\* accepted n bytes of the backlog; goOn tells whether FDE_READ is looked at.
Drained(st, id, n) ==
  LET sent == [Written(st, id, st.s[id].q, n) EXCEPT
                  !.s[id].q = Rest(st.s[id].q, n)]
      quiet == [sent EXCEPT !.s[id].fde = fdevent_del(@, {WRITE})]
  IN  IF n < Len(st.s[id].q) THEN [goOn |-> FALSE, st |-> sent]
      ELSE IF st.s[id].status = "closing"
      THEN [goOn |-> FALSE, st |-> Close(sent, id)]
      ELSE [goOn |-> TRUE,
            st |-> send_packet(quiet, Packet("OKAY", id, st.s[id].peer))]

EventWrite(st, id) ==
  IF st.g[id].gone
  THEN {[goOn |-> FALSE, st |-> Close([st EXCEPT !.g[id].failed = TRUE], id)]}
  ELSE {Drained(st, id, n) : n \in 1 .. Len(st.s[id].q)}

\* remote_socket_enqueue, and the caller that forgets to stop reading.
EnqueueKeepsReading(st, id, data) ==
  send_packet(st, [Packet("WRTE", id, st.s[id].peer) EXCEPT !.data = data])

\* remote_socket_enqueue; it returns 1, so the reader stops until ready().
EnqueueRemote(st, id, data) ==
  send_packet([st EXCEPT !.s[id].fde = fdevent_del(@, {READ})],
              [Packet("WRTE", id, st.s[id].peer) EXCEPT !.data = data])

\* A read that does not stop at the end of the packet.
ReadAll(g) == g.made

\* The last byte that fits into one packet.
ReadTo(g) == IF g.made - g.read > MAX_PAYLOAD THEN g.read + MAX_PAYLOAD
             ELSE g.made

\* The FDE_READ half: everything there is, up to one packet; end of file is
\* noticed only when the packet has room left.
EventRead(st, id) ==
  LET g == st.g[id]
      last == ReadTo(g)
      data == [i \in 1 .. last - g.read |-> g.read + i]
      atEof == g.eof /\ Len(data) < MAX_PAYLOAD
      taken == [st EXCEPT !.g[id].read = last]
      passed == IF data = <<>> \/ st.s[id].peer = 0 THEN taken
                ELSE EnqueueRemote(taken, id, data)
  IN  IF atEof THEN Close(passed, id) ELSE passed

\* local_socket_event_func.
EventFunc(st, id, ev) ==
  LET afterWrite == IF WRITE \in ev THEN EventWrite(st, id)
                    ELSE {[goOn |-> TRUE, st |-> st]}
  IN  {IF w.goOn /\ READ \in ev THEN EventRead(w.st, id) ELSE w.st
       : w \in afterWrite}

-----------------------------------------------------------------------------
(* handle_packet: the results of one packet on an online transport.        *)

\* A_OPEN: the service starts, or create_local_service_socket fails.
HandleOpen(st, p) ==
  LET id == NextId(st)
      made == [NoSocket EXCEPT !.status = "open", !.peer = p.arg0,
                               !.mate = p.arg0,
                               !.fde = fdevent_add(@, {READ})]
  IN  {send_packet(st, Packet("CLSE", 0, p.arg0))} \cup
      (IF id \in Ids
       THEN {send_packet([st EXCEPT !.s[id] = made], Packet("OKAY", id, p.arg0))}
       ELSE {})

\* A_OKAY: the first one makes the remote socket.
HandleOkay(st, p) ==
  IF ~Found(st, p.arg1) THEN {st}
  ELSE IF st.s[p.arg1].peer # 0 THEN {Ready(st, p.arg1)}
  ELSE {Ready([st EXCEPT !.s[p.arg1].status = "open",
                         !.s[p.arg1].peer = p.arg0,
                         !.s[p.arg1].mate = p.arg0], p.arg1)}

HandleClse(st, p) ==
  IF Found(st, p.arg1) THEN {Close(st, p.arg1)} ELSE {st}

HandleWrte(st, p) ==
  IF Found(st, p.arg1) THEN local_socket_enqueue(st, p.arg1, p.data, p.arg0)
  ELSE {st}

handle_packet(st, p) ==
  CASE p.command = "OPEN" -> HandleOpen(st, p)
    [] p.command = "OKAY" -> HandleOkay(st, p)
    [] p.command = "CLSE" -> HandleClse(st, p)
    [] p.command = "WRTE" -> HandleWrte(st, p)

-----------------------------------------------------------------------------
(* Steps of the two processes and of the programs                          *)

\* The process's state after a callback, in wires that hold what was not taken.
Commit(side, st, wires) ==
  /\ sock' = [sock EXCEPT ![side] = st.s]
  /\ prog' = [prog EXCEPT ![side] = st.g]
  /\ wire' = [wires EXCEPT ![Other(side)] = @ \o st.out]

\* A program asks for a stream: the smart socket's last step, in the callback
\* that read the request (smart_socket_enqueue returns 1 and reading stops; the
\* client may have closed its end behind the request), or a forwarded
\* connection that listener_event_func accepts.
OpenStream(side, how, hungUp) ==
  LET st == Process(side)
      id == NextId(st)
      new == [NoSocket EXCEPT !.status = "connecting", !.notify = how = "smart"]
      opened == send_packet([st EXCEPT !.s[id] = new], Packet("OPEN", id, 0))
  IN  /\ id \in Ids
      /\ Commit(side, IF hungUp THEN Close(opened, id) ELSE opened, wire)
      /\ UNCHANGED xfde

\* fdevent_process: nothing is left of the last round; writable says which
\* descriptors would take a byte.
Reports(side, id, writable) ==
  LET fde == sock[side][id].fde
      g == prog[side][id]
  IN  {ev \in fde.want : \/ ev = READ /\ (g.made > g.read \/ g.eof)
                         \/ ev = WRITE /\ (id \in writable \/ g.gone)}

Select(side, writable) ==
  /\ ~xfde[side]
  /\ \A id \in Ids : ~sock[side][id].fde.pending
  /\ wire[side] # <<>> \/ \E id \in Ids : Reports(side, id, writable) # {}
  /\ xfde' = [xfde EXCEPT ![side] = wire[side] # <<>>]
  /\ sock' = [sock EXCEPT ![side] = [id \in Ids |->
                IF Reports(side, id, writable) = {} THEN @[id]
                ELSE [@[id] EXCEPT !.fde =
                        FdeReport(@, Reports(side, id, writable))]]]
  /\ UNCHANGED <<prog, wire>>

\* transport_socket_events: one packet.
TransportEvent(side) ==
  /\ xfde[side]
  /\ \E st \in handle_packet(Process(side), Head(wire[side])) :
       Commit(side, st, [wire EXCEPT ![side] = Tail(@)])
  /\ xfde' = [xfde EXCEPT ![side] = FALSE]

\* The callback of a local socket; the order in the round follows descriptor
\* numbers, which say nothing about ids.
SocketEvent(side, id) ==
  /\ sock[side][id].fde.pending
  /\ LET st == Process(side)
         ev == st.s[id].fde.events
     IN  \E new \in EventFunc([st EXCEPT !.s[id].fde = FdeDispatch(@)], id, ev) :
           Commit(side, new, wire)
  /\ UNCHANGED xfde

Alive(side, id) == sock[side][id].status \in {"connecting", "open", "closing"}

\* The program writes a byte.
Produce(side, id) ==
  /\ side \in Writers
  /\ Alive(side, id)
  /\ ~prog[side][id].eof
  /\ prog[side][id].made < Units
  /\ prog' = [prog EXCEPT ![side][id].made = @ + 1]
  /\ UNCHANGED <<sock, wire, xfde>>

\* It stops writing (shutdown), or closes its end for good.
Finish(side, id, closes) ==
  /\ side \in Closers /\ Alive(side, id)
  /\ ~prog[side][id].eof \/ (closes /\ ~prog[side][id].gone)
  /\ prog' = [prog EXCEPT ![side][id].eof = TRUE, ![side][id].gone = closes]
  /\ UNCHANGED <<sock, wire, xfde>>

Next ==
  \/ \E side \in Openers, how \in HowOpened, hungUp \in BOOLEAN :
       /\ hungUp => how = "smart"
       /\ OpenStream(side, how, hungUp)
  \/ \E side \in Sides :
       \/ \E writable \in SUBSET Ids : Select(side, writable)
       \/ TransportEvent(side)
       \/ \E id \in Ids : \/ SocketEvent(side, id)
                          \/ Produce(side, id)
                          \/ \E closes \in BOOLEAN : Finish(side, id, closes)

Spec == Init /\ [][Next]_vars

\* The event loops keep running, and a descriptor whose program reads becomes
\* writable.
Fairness ==
  \A side \in Sides :
    /\ WF_vars(\E writable \in SUBSET Ids : Select(side, writable))
    /\ WF_vars(TransportEvent(side))
    /\ \A id \in Ids : WF_vars(SocketEvent(side, id))

FairSpec == Spec /\ Fairness

-----------------------------------------------------------------------------
(* Properties *)

\* Packets to side about its socket id.
InFlight(side, id, commands) ==
  {i \in DOMAIN wire[side] : /\ wire[side][i].arg1 = id
                             /\ wire[side][i].command \in commands}

One(b) == IF b THEN 1 ELSE 0

\* Who may move the next packet from socket i of side to socket j of the other:
\* the reader of i, a WRTE under way, the backlog of j, or an OKAY under way.
Credit(side, i, j) ==
  One(READ \in sock[side][i].fde.want)
    + Cardinality(InFlight(Other(side), j, {"WRTE"}))
    + One(sock[Other(side)][j].q # <<>>)
    + Cardinality(InFlight(side, i, {"OKAY"}))

Connected(side, i, j) ==
  /\ sock[side][i].status = "open" /\ sock[side][i].peer = j
  /\ sock[Other(side)][j].status = "open" /\ sock[Other(side)][j].peer = i

\* Flow control of protocol.txt: a WRTE is sent only for a READY that was
\* received, and one READY answers one WRTE.  On a connected stream exactly one
\* of the four holders has the credit, in each direction, whatever callbacks and
\* packets interleave (local_socket_ready, remote_socket_enqueue, send_ready).
OneCredit ==
  \A side \in Sides, i \in Ids, j \in Ids :
    Connected(side, i, j) => Credit(side, i, j) = 1

\* Nothing that is queued to one socket grows: at most one WRTE, one OKAY and
\* one CLSE travel to it, so the transport's socket pair, written without
\* blocking by write_packet, holds a bounded number of packets for a stream.
BoundedInFlight ==
  \A side \in Sides, id \in Ids, command \in {"WRTE", "OKAY", "CLSE"} :
    Cardinality(InFlight(side, id, {command})) <= 1

\* What arrives is a prefix of what the program at the other end has written:
\* no byte is lost, repeated or overtaken inside a stream, also when short
\* writes leave a backlog (local_socket_enqueue, local_socket_event_func).
DeliveredInOrder ==
  \A side \in Sides, id \in Ids :
    LET got == prog[side][id].got
        mate == sock[side][id].mate
    IN  /\ \A k \in DOMAIN got : got[k] = k
        /\ got # <<>> => mate # 0 /\ Len(got) <= prog[Other(side)][mate].made

\* A service that writes and then closes gets everything to the program at the
\* other end before that program's socket goes away, if the program itself
\* neither stopped writing nor went away, and the service never refused a write:
\* the close waits behind the backlog (the closing list of
\* local_socket_close_locked) and behind the data packets on the wire.
NothingLostAtEof ==
  \A side \in Sides, i \in Ids :
    LET j == sock[side][i].mate
    IN  (/\ sock[side][i].status = "freed" /\ j # 0
         /\ ~prog[side][i].eof /\ ~prog[side][i].failed
         /\ ~prog[Other(side)][j].failed)
        => Len(prog[side][i].got) = prog[Other(side)][j].made

\* A smart-socket client is never dropped without an answer: when its socket
\* is gone it was told OKAY or FAIL (local_socket_ready_notify,
\* local_socket_close_notify), and OKAY only when a service was there.
ClientIsTold ==
  \A side \in Openers, i \in Ids :
    (HowOpened = {"smart"} /\ sock[side][i].status = "freed"
       /\ side \notin {Other(s) : s \in Openers})
    => prog[side][i].told = IF sock[side][i].mate = 0 THEN "FAIL" ELSE "OKAY"

\* When one end of a connected stream closes, the other end closes too and
\* both sockets are freed (CLSE, the closing list and its final write).
Closing(side, i, j) == sock[side][i].mate = j /\ sock[side][i].status \in {"closing", "freed"}
BothFreed(side, i, j) ==
  sock[Other(side)][j].status = "freed" /\ sock[side][i].status = "freed"
ClosedTogether ==
  \A side \in Sides, i \in Ids, j \in Ids : Closing(side, i, j) ~> BothFreed(side, i, j)

\* protocol.txt: the local-id of a CLOSE may be zero only if it answers a
\* failed OPEN, that is, when the receiver has no stream yet.
CloseNamesSender ==
  \A side \in Sides : \A k \in DOMAIN wire[side] :
    LET p == wire[side][k]
    IN  (p.command = "CLSE" /\ sock[side][p.arg1].status = "open") => p.arg0 # 0

\* protocol.txt: the recipient should not respond to a CLOSE in any way.
CloseIsNotAnswered ==
  [][\A side \in Sides :
       (TransportEvent(side) /\ Head(wire[side]).command = "CLSE")
         => wire'[Other(side)] = wire[Other(side)]]_vars

=============================================================================

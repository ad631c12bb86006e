---------------------------- MODULE AdbTransport ----------------------------
(***************************************************************************)
(* The life of the transports of the adb server (transport.c): they are    *)
(* registered through a socket read by the main thread, each runs an input *)
(* and an output thread that hold a reference each, both talk to the main  *)
(* thread over a socket pair, and the main thread frees the transport when *)
(* the last reference is gone.  The client sockets are here as far as they *)
(* point at a transport: attached to a smart socket, waiting for the       *)
(* device's answer, or connected.                                          *)
(*                                                                         *)
(* Freeing fills the structure with 0xee.  A thread that still uses it     *)
(* therefore finds kicked set, a reference count that does not reach zero  *)
(* and descriptors that are not open; the model gives such a thread those  *)
(* values until the memory is handed out again, which is left out.         *)
(***************************************************************************)
EXTENDS Naturals, Sequences, FiniteSets, FiniteSetsExt

CONSTANTS
    Transports,     \* the connections made during a behaviour
    Kind,           \* "usb", "noperm" (usb without permission), "tcp", "emulator"
    Serial,         \* serial number of each
    Port,           \* adb port of the emulators
    Clients,        \* client sockets accepted during a behaviour
    SlotMax,        \* ADB_LOCAL_TRANSPORT_MAX
    QueueMax        \* packets a device may have waiting for the main thread

VARIABLES
    tr,         \* the atransport of each connection and its threads
    nxt, prv,   \* the links of transport_list
    slots,      \* local_transports: the emulators' table
    regq,       \* what is written to transport_registration_send
    toMain,     \* packets in the socket pair from the output thread
    toIn,       \* packets in the socket pair to the input thread
    sock,       \* the client sockets
    fds,        \* owner of each descriptor number
    main,       \* where the main thread is inside a handler
    alive       \* FALSE after fatal_errno() or a crash of the server

vars == <<tr, nxt, prv, slots, regq, toMain, toIn, sock, fds, main, alive>>

Nobody == "none"
Master == "head"
Nodes == Transports \cup {Master}
FdNumbers == 1 .. Cardinality(Transports) + Cardinality(Clients)

IsUsb(t) == Kind[t] \in {"usb", "noperm"}
Freed == {t \in Transports : tr[t].st = "freed"}

Idle == [pc |-> "idle", who |-> Nobody]
NoSock == [st |-> "none", tr |-> Nobody, fd |-> 0, asked |-> FALSE, told |-> "none"]

\* The packets the model tells apart.
Packet(cmd, who) == [cmd |-> cmd, who |-> who]
SyncOnline == Packet("SYNC1", Nobody)
SyncOffline == Packet("SYNC0", Nobody)
Cnxn == Packet("CNXN", Nobody)

---------------------------------------------------------------------------
\* Descriptors: open() returns the lowest free number, close() frees the
\* number whoever owns it.
LowestFree(f) == Min({n \in FdNumbers : f[n] = Nobody})

CloseFds(f, N) == [n \in FdNumbers |-> IF n \in N THEN Nobody ELSE f[n]]

\* transport_list: what a walk from its head meets.  It stops at freed memory.
Walk ==
    LET N == Cardinality(Transports) + 1
        w[n \in 0 .. N] ==
            IF n = 0 THEN Master
            ELSE IF w[n - 1] \in Freed THEN w[n - 1] ELSE nxt[w[n - 1]]
    IN  w

Walked == {Walk[n] : n \in DOMAIN Walk} \ {Master}

First(S) ==
    CHOOSE t \in S : \E n \in DOMAIN Walk :
        Walk[n] = t /\ \A m \in DOMAIN Walk : m < n => Walk[m] \notin S

UnlinkedNext(t) == [nxt EXCEPT ![prv[t]] = nxt[t]]
UnlinkedPrev(t) == [prv EXCEPT ![nxt[t]] = prv[t]]

Unlink(t) == nxt' = UnlinkedNext(t) /\ prv' = UnlinkedPrev(t)

\* acquire_one_transport(CS_ANY, ...): by serial the first match, by type the
\* only one; an offline one is ignored.  No reference is taken.
Matches(sel) ==
    {t \in Walked : Kind[t] # "noperm" /\
        CASE sel = "any" -> TRUE
          [] sel = "usb" -> IsUsb(t)
          [] sel = "local" -> ~IsUsb(t)
          [] OTHER -> Serial[t] = sel}

acquire_one_transport(sel) ==
    LET S == Matches(sel)
        found == IF sel \in {"any", "usb", "local"}
                 THEN IF Cardinality(S) = 1 THEN CHOOSE t \in S : TRUE ELSE Nobody
                 ELSE IF S # {} THEN First(S) ELSE Nobody
    IN  IF found # Nobody /\ tr[found].conn = "OFFLINE" THEN Nobody ELSE found

Selectors == {Serial[t] : t \in Transports} \cup {"any", "usb", "local"}

---------------------------------------------------------------------------
\* kick(): the connection fails from now on and an emulator leaves its slot.
Kicked(r) ==
    IF r.kicked THEN r
    ELSE [r EXCEPT !.kicked = TRUE, !.kicks = @ + 1, !.link = "down"]

\* Variant: every transport's close closes the socket pair.
ClosesPairAlways(t) == TRUE

\* The close of a socket transport closes the input thread's half of the socket
\* pair; that of a usb transport closes the usb handle.
ClosesPair(t) == ~IsUsb(t)

\* transport_unref_locked(): the last reference kicks, closes and has the main
\* thread remove the transport.  For freed memory the count never reaches zero.
UnrefTo(t, next) ==
    LET last == t \notin Freed /\ tr[t].ref = 1
        r == [next EXCEPT !.ref = IF t \in Freed THEN @ ELSE @ - 1]
    IN  /\ tr' = [tr EXCEPT ![t] = IF last THEN Kicked(r) ELSE r]
        /\ slots' = IF last THEN slots \ {t} ELSE slots
        /\ regq' = IF last THEN Append(regq, [t |-> t, action |-> 0]) ELSE regq
        /\ fds' = IF last /\ ClosesPair(t) THEN CloseFds(fds, {tr[t].fd}) ELSE fds

\* write_packet(t->transport_socket): the server ends when it fails.  After the
\* other half is closed it still succeeds while the input thread sits in read().
Send(t, ps) ==
    \/ /\ t \notin Freed
       /\ fds[tr[t].fd] = t \/ tr[t].in = "run"
       /\ toIn' = [toIn EXCEPT ![t] = @ \o ps]
       /\ UNCHANGED alive
    \/ /\ t \in Freed \/ fds[tr[t].fd] # t
       /\ alive' = FALSE
       /\ UNCHANGED toIn

\* unregister_all_tcp_transports() keeps transport_lock from its first to its
\* last transport; what the other threads do under the lock waits.
LockFree == main.pc # "all"

Closed(s) == [sock[s] EXCEPT !.st = "closed", !.tr = Nobody, !.fd = 0]

ClosedSocks(S) == [s \in Clients |-> IF s \in S THEN Closed(s) ELSE sock[s]]

SockFds(S) == {sock[s].fd : s \in S}

\* The remote sockets on a transport: the ones run_transport_disconnects() meets.
Connected(t) == {s \in Clients : sock[s].st = "connected" /\ sock[s].tr = t}

\* What close_all_sockets() closes: also the sockets still waiting for the
\* device and the ones whose smart socket has selected the transport.
Attached(t) == {s \in Clients : sock[s].tr = t}

---------------------------------------------------------------------------
\* Registration.

\* init_socket_transport() with local_transports_lock held.
EmulatorFits(t) ==
    /\ Cardinality(slots) < SlotMax
    /\ \A u \in slots : Port[u] # Port[t]

\* register_usb_transport / connect_device / local_connect: a TCP device that is
\* already listed and an emulator whose port or whose table is taken are refused.
Plug(t) ==
    /\ alive /\ tr[t].st = "unborn"
    /\ Kind[t] = "tcp" =>
        main = Idle /\ \A u \in Walked \ Freed : Serial[u] # Serial[t]
    /\ Kind[t] = "emulator" => EmulatorFits(t)
    /\ tr' = [tr EXCEPT ![t].st = "queued", ![t].link = "up",
                        ![t].conn = IF Kind[t] = "noperm" THEN "NOPERM" ELSE "OFFLINE"]
    /\ slots' = IF Kind[t] = "emulator" THEN slots \cup {t} ELSE slots
    /\ regq' = Append(regq, [t |-> t, action |-> 1])
    /\ UNCHANGED <<nxt, prv, toMain, toIn, sock, fds, main, alive>>

\* Variant: one reference for the two threads.
OneRef(t) == 1

\* "initial references are the two threads"
InitialRefs(t) == 2

\* transport_registration_func(), action 1.
Register(t) ==
    /\ regq # <<>> /\ Head(regq) = [t |-> t, action |-> 1]
    /\ regq' = Tail(regq)
    /\ IF Kind[t] = "noperm"
       THEN tr' = [tr EXCEPT ![t].st = "up"] /\ fds' = fds
       ELSE LET n == LowestFree(fds) IN
            /\ tr' = [tr EXCEPT ![t].st = "up", ![t].ref = InitialRefs(t), ![t].fd = n,
                                ![t].in = "run", ![t].out = "start"]
            /\ fds' = [fds EXCEPT ![n] = t]
    /\ nxt' = [nxt EXCEPT ![t] = Master, ![prv[Master]] = t]
    /\ prv' = [prv EXCEPT ![t] = prv[Master], ![Master] = t]
    /\ UNCHANGED <<slots, toMain, toIn, sock, main, alive>>

\* The remote sockets run_transport_disconnects() closes before the free.
RemovedStreams(t) == Connected(t)

\* transport_registration_func(), action 0.
Remove(t) ==
    /\ regq # <<>> /\ Head(regq) = [t |-> t, action |-> 0]
    /\ regq' = Tail(regq)
    /\ Unlink(t)
    /\ sock' = ClosedSocks(RemovedStreams(t))
    /\ fds' = CloseFds(fds, {tr[t].fd} \cup SockFds(RemovedStreams(t)))
    /\ tr' = [tr EXCEPT ![t].st = "freed", ![t].kicked = TRUE]
    /\ toMain' = [toMain EXCEPT ![t] = <<>>]
    /\ toIn' = [toIn EXCEPT ![t] = <<>>]
    /\ UNCHANGED <<slots, main, alive>>

---------------------------------------------------------------------------
\* The output thread.

OutStart(t) ==
    /\ tr[t].out = "start"
    /\ tr' = [tr EXCEPT ![t].out = "pump"]
    /\ toMain' = [toMain EXCEPT ![t] = Append(@, SyncOnline)]
    /\ UNCHANGED <<nxt, prv, slots, regq, toIn, sock, fds, main, alive>>

\* The device sends its CNXN, or answers a stream it was asked to open.
FromRemote(t) ==
    {Cnxn} \cup {Packet(c, s) : c \in {"OKAY", "CLSE"}, s \in {s \in Clients : sock[s].asked}}

OutRead(t) ==
    /\ tr[t].out = "pump" /\ tr[t].link = "up"
    /\ Len(toMain[t]) < QueueMax
    /\ \E p \in FromRemote(t) :
        /\ p.who # Nobody => sock[p.who].tr \in {t, Nobody}
        /\ toMain' = [toMain EXCEPT ![t] = Append(@, p)]
    /\ UNCHANGED <<tr, nxt, prv, slots, regq, toIn, sock, fds, main, alive>>

\* A failed read ends the loop and posts SYNC(0, 0).
OutFail(t) ==
    /\ tr[t].out = "pump" /\ tr[t].link = "down"
    /\ tr' = [tr EXCEPT ![t].out = "kick"]
    /\ toMain' = [toMain EXCEPT ![t] = Append(@, SyncOffline)]
    /\ UNCHANGED <<nxt, prv, slots, regq, toIn, sock, fds, main, alive>>

OutKick(t) ==
    /\ tr[t].out = "kick" /\ LockFree
    /\ tr' = [tr EXCEPT ![t] = [Kicked(@) EXCEPT !.out = "unref"]]
    /\ slots' = slots \ {t}
    /\ UNCHANGED <<nxt, prv, regq, toMain, toIn, sock, fds, main, alive>>

OutUnref(t) ==
    /\ tr[t].out = "unref" /\ LockFree
    /\ UnrefTo(t, [tr[t] EXCEPT !.out = "done"])
    /\ UNCHANGED <<nxt, prv, toMain, toIn, sock, main, alive>>

---------------------------------------------------------------------------
\* The input thread.

InPacket(t) ==
    /\ tr[t].in = "run" /\ toIn[t] # <<>>
    /\ LET p == Head(toIn[t])
           written == tr[t].active /\ tr[t].link = "up" IN
       /\ tr' = [tr EXCEPT ![t].active = @ \/ p = SyncOnline,
                           ![t].in = IF p = SyncOffline THEN "closing" ELSE @]
       /\ sock' = IF p.cmd = "OPEN" /\ written
                  THEN [sock EXCEPT ![p.who].asked = TRUE] ELSE sock
    /\ toIn' = [toIn EXCEPT ![t] = Tail(@)]
    /\ UNCHANGED <<nxt, prv, slots, regq, toMain, fds, main, alive>>

\* read_packet() fails once the socket pair is closed.
InReadFail(t) ==
    /\ tr[t].in = "run"
    /\ t \in Freed \/ fds[tr[t].fd] # t
    /\ tr' = [tr EXCEPT ![t].in = "closing"]
    /\ UNCHANGED <<nxt, prv, slots, regq, toMain, toIn, sock, fds, main, alive>>

\* close_all_sockets(), in the input thread.
InCloseAll(t) ==
    /\ tr[t].in = "closing"
    /\ tr' = [tr EXCEPT ![t].in = "kick"]
    /\ sock' = ClosedSocks(Attached(t))
    /\ fds' = CloseFds(fds, SockFds(Attached(t)))
    /\ UNCHANGED <<nxt, prv, slots, regq, toMain, toIn, main, alive>>

InKick(t) ==
    /\ tr[t].in = "kick" /\ LockFree
    /\ tr' = [tr EXCEPT ![t] = [Kicked(@) EXCEPT !.in = "unref"]]
    /\ slots' = slots \ {t}
    /\ UNCHANGED <<nxt, prv, regq, toMain, toIn, sock, fds, main, alive>>

InUnref(t) ==
    /\ tr[t].in = "unref" /\ LockFree
    /\ UnrefTo(t, [tr[t] EXCEPT !.in = "done"])
    /\ UNCHANGED <<nxt, prv, toMain, toIn, sock, main, alive>>

---------------------------------------------------------------------------
\* Outside the server: a device goes away.  The usb poll thread kicks the
\* handle; without permission that takes the transport off the list, if the
\* main thread has put it there already.
Unplug(t) ==
    /\ alive /\ tr[t].link = "up" /\ tr[t].st \in {"queued", "up"}
    /\ tr' = [tr EXCEPT ![t].link = "down"]
    /\ IF Kind[t] = "noperm" /\ t \in Walked
       THEN LockFree /\ Unlink(t)
       ELSE UNCHANGED <<nxt, prv>>
    /\ UNCHANGED <<slots, regq, toMain, toIn, sock, fds, main, alive>>

---------------------------------------------------------------------------
\* The main thread: packets from a device (transport_socket_events).

\* run_transport_disconnects(): every remote socket closes its local socket.
RunDisconnects(t) ==
    /\ sock' = ClosedSocks(Connected(t))
    /\ fds' = CloseFds(fds, SockFds(Connected(t)))

HandleSync(t, p) ==
    \/ /\ p = SyncOnline
       /\ Send(t, <<SyncOnline, Cnxn>>)
       /\ UNCHANGED <<tr, sock, fds>>
    \/ /\ p = SyncOffline
       /\ tr' = [tr EXCEPT ![t].conn = "OFFLINE"]
       /\ RunDisconnects(t)
       /\ Send(t, <<SyncOffline>>)

\* A CNXN on an online transport is a device that has started again.
HandleCnxn(t, p) ==
    /\ p = Cnxn
    /\ IF tr[t].conn # "OFFLINE" THEN RunDisconnects(t) ELSE UNCHANGED <<sock, fds>>
    /\ tr' = [tr EXCEPT ![t].conn = "DEVICE"]
    /\ UNCHANGED <<toIn, alive>>

\* OKAY connects a waiting socket and tells its client.
HandleOkay(t, p) ==
    /\ p.cmd = "OKAY"
    /\ sock' = IF tr[t].conn # "OFFLINE" /\ sock[p.who].st = "connecting"
               THEN [sock EXCEPT ![p.who].st = "connected", ![p.who].told = "OKAY"]
               ELSE sock
    /\ UNCHANGED <<tr, fds, toIn, alive>>

\* CLSE closes the socket; one that is still waiting has its client told, one
\* that is connected answers with a CLSE.
HandleClse(t, p) ==
    /\ p.cmd = "CLSE"
    /\ LET s == p.who
           found == tr[t].conn # "OFFLINE" /\ sock[s].st \in {"connecting", "connected"}
       IN  /\ sock' = IF found
                      THEN [sock EXCEPT ![s] = [Closed(s) EXCEPT
                               !.told = IF @ = "none" THEN "FAIL" ELSE @]]
                      ELSE sock
           /\ fds' = IF found THEN CloseFds(fds, {sock[s].fd}) ELSE fds
           /\ IF found /\ sock[s].st = "connected"
              THEN Send(sock[s].tr, <<Packet("CLSE", s)>>)
              ELSE UNCHANGED <<toIn, alive>>
    /\ UNCHANGED tr

MainPacket(t) ==
    /\ alive /\ main = Idle
    /\ tr[t].st = "up" /\ toMain[t] # <<>>
    /\ toMain' = [toMain EXCEPT ![t] = Tail(@)]
    /\ LET p == Head(toMain[t]) IN
       \/ HandleSync(t, p)
       \/ HandleCnxn(t, p)
       \/ HandleOkay(t, p)
       \/ HandleClse(t, p)
    /\ UNCHANGED <<nxt, prv, slots, regq, main>>

MainRegistration ==
    /\ alive /\ main = Idle
    /\ \E t \in Transports : Register(t) \/ Remove(t)

---------------------------------------------------------------------------
\* The main thread: clients.

\* ss_listener_event_func(): a new client gets a smart socket.
Accept(s) ==
    /\ alive /\ main = Idle /\ sock[s].st = "none"
    /\ LET n == LowestFree(fds) IN
       /\ sock' = [sock EXCEPT ![s].st = "smart", ![s].fd = n]
       /\ fds' = [fds EXCEPT ![n] = s]
    /\ UNCHANGED <<tr, nxt, prv, slots, regq, toMain, toIn, main, alive>>

\* local_socket_event_func() has read a request and goes on to
\* smart_socket_enqueue() without any lock.
ReadRequest(s) ==
    /\ alive /\ main = Idle /\ sock[s].st = "smart"
    /\ main' = [pc |-> "request", who |-> s]
    /\ UNCHANGED <<tr, nxt, prv, slots, regq, toMain, toIn, sock, fds, alive>>

\* "host:transport...": the smart socket remembers the transport.
SelectTransport(s) ==
    /\ \E sel \in Selectors :
        LET t == acquire_one_transport(sel) IN
        sock' = IF t = Nobody THEN sock ELSE [sock EXCEPT ![s].tr = t]
    /\ UNCHANGED <<toIn, fds, alive>>

\* A service for the device: refused without an online transport, otherwise
\* the client waits for the device's answer.
OpenService(s) ==
    LET t == sock[s].tr IN
    IF t = Nobody \/ (t \notin Freed /\ tr[t].conn = "OFFLINE")
    THEN /\ sock' = [sock EXCEPT ![s] = [Closed(s) EXCEPT !.told = "FAIL"]]
         /\ fds' = CloseFds(fds, {sock[s].fd})
         /\ UNCHANGED <<toIn, alive>>
    ELSE /\ Send(t, <<Packet("OPEN", s)>>)
         /\ sock' = [sock EXCEPT ![s].st = "connecting"]
         /\ UNCHANGED fds

\* The input thread may have closed and freed the socket in the meantime; what
\* the handler then does to the freed memory may or may not end the server.
Request(s) ==
    /\ alive /\ main = [pc |-> "request", who |-> s]
    /\ main' = Idle
    /\ \/ sock[s].st = "smart" /\ SelectTransport(s)
       \/ sock[s].st = "smart" /\ OpenService(s)
       \/ /\ sock[s].st = "closed"
          /\ alive' \in BOOLEAN
          /\ UNCHANGED <<sock, toIn, fds>>
    /\ UNCHANGED <<tr, nxt, prv, slots, regq, toMain>>

\* The client ends: its socket is closed, a connected one sends a CLSE.
Hangup(s) ==
    /\ alive /\ main = Idle /\ sock[s].st \in {"smart", "connected"}
    /\ sock' = ClosedSocks({s})
    /\ fds' = CloseFds(fds, {sock[s].fd})
    /\ IF sock[s].st = "connected"
       THEN Send(sock[s].tr, <<Packet("CLSE", s)>>)
       ELSE UNCHANGED <<toIn, alive>>
    /\ UNCHANGED <<tr, nxt, prv, slots, regq, toMain, main>>

\* "host:disconnect:<serial>": unregister_transport() takes the transport off
\* the list, kicks it and drops a reference nobody took.
Disconnect(t) ==
    /\ alive /\ main = Idle
    /\ Kind[t] = "tcp" /\ t \in Walked \ Freed
    /\ Unlink(t)
    /\ main' = [pc |-> "kick", who |-> t]
    /\ UNCHANGED <<tr, slots, regq, toMain, toIn, sock, fds, alive>>

DisconnectKick(t) ==
    /\ alive /\ main = [pc |-> "kick", who |-> t]
    /\ tr' = [tr EXCEPT ![t] = Kicked(@)]
    /\ main' = [pc |-> "unref", who |-> t]
    /\ UNCHANGED <<nxt, prv, slots, regq, toMain, toIn, sock, fds, alive>>

DisconnectUnref(t) ==
    /\ alive /\ main = [pc |-> "unref", who |-> t]
    /\ UnrefTo(t, tr[t])
    /\ main' = Idle
    /\ UNCHANGED <<nxt, prv, toMain, toIn, sock, alive>>

\* "host:disconnect:": unregister_all_tcp_transports().
TcpListed == {t \in Walked \ Freed : Kind[t] = "tcp"}

DisconnectAll ==
    /\ alive /\ main = Idle /\ TcpListed # {}
    /\ main' = [pc |-> "all", who |-> Nobody]
    /\ UNCHANGED <<tr, nxt, prv, slots, regq, toMain, toIn, sock, fds, alive>>

DisconnectNext ==
    /\ alive /\ main.pc = "all" /\ TcpListed # {}
    /\ LET t == First(TcpListed) IN
       /\ Unlink(t)
       /\ UnrefTo(t, Kicked(tr[t]))
    /\ main' = IF Cardinality(TcpListed) = 1 THEN Idle ELSE main
    /\ UNCHANGED <<toMain, toIn, sock, alive>>

---------------------------------------------------------------------------
Init ==
    /\ tr = [t \in Transports |->
                [st |-> "unborn", conn |-> "OFFLINE", ref |-> 0, kicked |-> FALSE, kicks |-> 0,
                 link |-> "down", fd |-> 0, out |-> "none", in |-> "none", active |-> FALSE]]
    /\ nxt = [n \in Nodes |-> n] /\ prv = [n \in Nodes |-> n]
    /\ slots = {} /\ regq = <<>>
    /\ toMain = [t \in Transports |-> <<>>] /\ toIn = [t \in Transports |-> <<>>]
    /\ sock = [s \in Clients |-> NoSock]
    /\ fds = [n \in FdNumbers |-> Nobody]
    /\ main = Idle /\ alive = TRUE

OutputThread(t) == alive /\ (OutStart(t) \/ OutFail(t) \/ OutKick(t) \/ OutUnref(t))

InputThread(t) == alive /\ (InPacket(t) \/ InReadFail(t) \/ InCloseAll(t) \/ InKick(t) \/ InUnref(t))

MainThread ==
    \/ MainRegistration
    \/ \E t \in Transports : MainPacket(t)
    \/ \E s \in Clients : Request(s)

Environment ==
    \/ \E t \in Transports : Plug(t) \/ Unplug(t) \/ (alive /\ OutRead(t))
    \/ \E s \in Clients : Accept(s) \/ ReadRequest(s) \/ Hangup(s)

\* The requests of a user, of network devices only.
UserDisconnects ==
    \/ \E t \in Transports : Disconnect(t) \/ DisconnectKick(t) \/ DisconnectUnref(t)
    \/ DisconnectAll \/ DisconnectNext

Next ==
    \/ Environment
    \/ MainThread
    \/ \E t \in Transports : OutputThread(t) \/ InputThread(t)

Spec == Init /\ [][Next]_vars

\* Every round of the event loop serves every descriptor that is ready, however
\* busy the clients keep it (strong fairness), and the threads run.  Nothing is
\* assumed of devices and clients.
FairSpec ==
    /\ Spec
    /\ SF_vars(MainRegistration)
    /\ \A s \in Clients : WF_vars(Request(s))
    /\ \A t \in Transports :
        /\ SF_vars(MainPacket(t)) /\ WF_vars(OutputThread(t)) /\ WF_vars(InputThread(t))

---------------------------------------------------------------------------
\* Properties.

\* Every variable keeps the shape the code gives it; in particular a reference
\* count never goes below zero and the queues hold packets of the protocol.
TypeOK ==
    /\ \A t \in Transports :
        /\ tr[t].st \in {"unborn", "queued", "up", "freed"}
        /\ tr[t].conn \in {"OFFLINE", "DEVICE", "NOPERM"}
        /\ tr[t].ref \in 0 .. 2
        /\ tr[t].fd \in FdNumbers \cup {0}
        /\ tr[t].out \in {"none", "start", "pump", "kick", "unref", "done"}
        /\ tr[t].in \in {"none", "run", "closing", "kick", "unref", "done"}
    /\ nxt \in [Nodes -> Nodes] /\ prv \in [Nodes -> Nodes]
    /\ slots \subseteq Transports
    /\ \A s \in Clients :
        /\ sock[s].st \in {"none", "smart", "connecting", "connected", "closed"}
        /\ sock[s].tr \in Transports \cup {Nobody}
    /\ fds \in [FdNumbers -> Transports \cup Clients \cup {Nobody}]
    /\ alive \in BOOLEAN

\* transport.c:224: "The transport will not actually be closed until both
\* threads exit" - the memory is freed only when neither thread can touch it.
FreedAfterThreads ==
    \A t \in Freed : tr[t].out = "done" /\ tr[t].in = "done"

\* transport_list is a ring of live transports in both directions and holds
\* every transport that was registered and neither removed nor unregistered.
ListSound ==
    /\ Walked \cap Freed = {}
    /\ \A n \in Walked \cup {Master} : prv[nxt[n]] = n
    /\ \A t \in Transports : tr[t].st = "up" /\ Kind[t] = "usb" => t \in Walked

\* When a transport is freed no client socket points at it any more: neither a
\* connected stream, nor one that waits for the device, nor a smart socket that
\* has selected it.
NoSocketOnFreed ==
    \A s \in Clients : sock[s].tr \notin Freed

\* The input thread's close_all_sockets() never meets a connected stream: the
\* main thread has closed those before, so that the two never close the same
\* remote socket at once.
InputClosesNoStream ==
    \A t \in Transports : tr[t].in = "closing" => Connected(t) = {}

\* Descriptors belong to one owner: closing a transport never closes the
\* descriptor of a client.
ClientKeepsFd ==
    \A s \in Clients : sock[s].st \in {"smart", "connecting", "connected"} => fds[sock[s].fd] = s

\* However many of the two threads, the main thread and the last unref kick a
\* transport, its connection is kicked once.
KickedOnce ==
    \A t \in Transports : tr[t].kicks <= 1

\* local_transports: no entry outlives its transport, and no two emulators
\* with the same port have an entry.
SlotsSound ==
    /\ slots \cap Freed = {} /\ Cardinality(slots) <= SlotMax
    /\ \A t, u \in slots : t # u => Port[t] # Port[u]

\* A connected stream's transport is always still there, also when the user
\* disconnects it: run_transport_disconnects() runs before it is freed.
StreamHasTransport ==
    \A s \in Clients : sock[s].st = "connected" => sock[s].tr \notin Freed

\* sockets.c:530: a client that asked for a service is never closed before it
\* has been told OKAY or FAIL.
ClosedIsTold ==
    [][\A s \in Clients :
        sock[s].st = "connecting" /\ sock'[s].st = "closed" => sock'[s].told # "none"]_vars

\* OVERVIEW.TXT:137: "The ADB server must handle unexpected transport
\* disconnections" - the server survives whatever devices and clients do.
ServerSurvives == alive

\* transport.c:326: close_all_sockets() "is necessary to avoid a race condition
\* that occured when a transport closes while a client socket is still active" -
\* no other thread frees a socket whose request the main thread is handling.
RequestKeepsSocket ==
    \A s \in Clients : main = [pc |-> "request", who |-> s] => sock[s].st # "closed"

\* When the connection of a transport with threads fails, the transport is
\* eventually removed and freed and its clients are closed.
Failed(t) == Kind[t] # "noperm" /\ tr[t].st = "up" /\ tr[t].link = "down"
CleanedUp(t) == ~alive \/ (t \in Freed /\ Attached(t) = {})
FailureIsCleanedUp == \A t \in Transports : Failed(t) ~> CleanedUp(t)

\* OVERVIEW.TXT:22: the server "maintains a list of connected devices": one
\* that was unplugged eventually leaves the list.
UnpluggedLeavesList ==
    \A t \in Transports :
        (tr[t].st # "unborn" /\ tr[t].link = "down") ~> (~alive \/ t \notin Walked)
=============================================================================

------------------------------- MODULE MCAdb -------------------------------
(***************************************************************************)
(* The core of adb and the usb devices it reaches, part by part: a         *)
(* behaviour picks one of Parts and runs it, and the others rest in their  *)
(* initial state.                                                          *)
(*                                                                         *)
(*   fdevent   two event records on three descriptors: one record can be   *)
(*             pending while the other's callback re-masks it, removes it  *)
(*             or takes over its number.                                   *)
(*   stream    one stream with three bytes each way and packets of two:    *)
(*             short writes, backlogs, half-closed and vanished programs.  *)
(*   streams   two forwarded streams, over which services on the device    *)
(*             write a byte and close.                                     *)
(*   usb       two usb devices with the same serial number and a client:   *)
(*             the second may be the first one plugged in again while the  *)
(*             old transport is still being taken down.                    *)
(*   noperm    a usb device, one the server may not open, and a client.    *)
(*   emulator  two connections to the port of one emulator.                *)
(*   network   a network device the user may disconnect, and a client.     *)
(*   devices   a device that can be written, with calls of one transfer    *)
(*             and an empty one, and a device that cannot.                 *)
(***************************************************************************)
EXTENDS UsbLinux, Sequences, TLC

CONSTANTS Parts, u1, u2

VARIABLES
  part,
  fd_table, fdes, fdOf, fd_sets, select_n, list_pending,
  stream, prog, wire, xfde,
  tr, nxt, prv, slots, regq, toMain, toIn, sock, fds, main, alive

loopVars == <<fd_table, fdes, fdOf, fd_sets, select_n, list_pending>>
streamVars == <<stream, prog, wire, xfde>>
transportVars == <<tr, nxt, prv, slots, regq, toMain, toIn, sock, fds, main, alive>>
adbVars == <<part, loopVars, streamVars, transportVars, vars>>

Fde == INSTANCE FdeventLoop WITH Fdes <- {"f1", "f2"}, MaxFd <- 2

Stream == INSTANCE AdbStream WITH
  sock <- stream, MaxStreams <- 1, Units <- 3, MAX_PAYLOAD <- 2, Openers <- {"host"},
  HowOpened <- {"smart"}, Writers <- {"host", "device"},
  Closers <- {"host", "device"}

Streams == INSTANCE AdbStream WITH
  sock <- stream, MaxStreams <- 2, Units <- 1, MAX_PAYLOAD <- 2, Openers <- {"host"},
  HowOpened <- {"forward"}, Writers <- {"device"}, Closers <- {"device"}

Plugged == INSTANCE AdbTransport WITH
  Transports <- {u1, u2}, Kind <- [t \in {u1, u2} |-> "usb"],
  Serial <- [t \in {u1, u2} |-> "A"], Port <- [t \in {u1, u2} |-> 0],
  Clients <- {"c1"}, SlotMax <- 1, QueueMax <- 1

Noperm == INSTANCE AdbTransport WITH
  Transports <- {"u1", "n1"}, Kind <- "u1" :> "usb" @@ "n1" :> "noperm",
  Serial <- "u1" :> "A" @@ "n1" :> "B", Port <- [t \in {"u1", "n1"} |-> 0],
  Clients <- {"c1"}, SlotMax <- 1, QueueMax <- 2

Emulator == INSTANCE AdbTransport WITH
  Transports <- {"e1", "e2"}, Kind <- [t \in {"e1", "e2"} |-> "emulator"],
  Serial <- [t \in {"e1", "e2"} |-> "A"], Port <- [t \in {"e1", "e2"} |-> 5555],
  Clients <- {}, SlotMax <- 2, QueueMax <- 1

Network == INSTANCE AdbTransport WITH
  Transports <- {"d1"}, Kind <- [t \in {"d1"} |-> "tcp"],
  Serial <- [t \in {"d1"} |-> "A"], Port <- [t \in {"d1"} |-> 0],
  Clients <- {"c1"}, SlotMax <- 2, QueueMax <- 2

AdbInit ==
  /\ part \in Parts
  /\ Fde!Init /\ Init
  /\ IF part = "streams" THEN Streams!Init ELSE Stream!Init
  /\ CASE part = "usb" -> Plugged!Init
       [] part = "noperm" -> Noperm!Init
       [] part = "emulator" -> Emulator!Init
       [] OTHER -> Network!Init

AdbNext ==
  \/ part = "fdevent" /\ Fde!Next /\ UNCHANGED <<part, streamVars, transportVars, vars>>
  \/ part = "stream" /\ Stream!Next /\ UNCHANGED <<part, loopVars, transportVars, vars>>
  \/ part = "streams" /\ Streams!Next /\ UNCHANGED <<part, loopVars, transportVars, vars>>
  \/ part = "usb" /\ Plugged!Next /\ UNCHANGED <<part, loopVars, streamVars, vars>>
  \/ part = "noperm" /\ Noperm!Next /\ UNCHANGED <<part, loopVars, streamVars, vars>>
  \/ part = "emulator" /\ Emulator!Next /\ UNCHANGED <<part, loopVars, streamVars, vars>>
  \/ /\ part = "network" /\ (Network!Next \/ Network!UserDisconnects)
     /\ UNCHANGED <<part, loopVars, streamVars, vars>>
  \/ part = "devices" /\ Next /\ UNCHANGED <<part, loopVars, streamVars, transportVars>>

AdbSpec == AdbInit /\ [][AdbNext]_adbVars

Symmetry == Permutations({u1, u2})

-----------------------------------------------------------------------------

\* The pending list, the FDE_PENDING bits and the collected events agree, no
\* record that fdevent_remove() has retired is on the list, and everything that is
\* watched is inside the range select() is given and has a record to report to.
EventsCoherent ==
  part = "fdevent" => Fde!TypeOK /\ Fde!PendingCoherent /\ Fde!WatchedIsServed

\* On a connected stream exactly one of reader, WRTE, backlog and OKAY may move
\* the next packet, in each direction: the flow control of protocol.txt.  At most
\* one WRTE, one OKAY and one CLSE travel to a socket.
OneCredit ==
  /\ part = "stream" => Stream!OneCredit /\ Stream!BoundedInFlight
  /\ part = "streams" => Streams!OneCredit /\ Streams!BoundedInFlight

\* What arrives is a prefix of what the program at the other end has written, and
\* all of it when that program writes and then closes; and a client of a smart
\* socket is told OKAY or FAIL before its socket goes away.
Delivered ==
  /\ part = "stream" => Stream!TypeOK /\ Stream!DeliveredInOrder /\ Stream!NothingLostAtEof
  /\ part = "stream" => Stream!ClientIsTold
  /\ part = "streams" => Streams!DeliveredInOrder /\ Streams!NothingLostAtEof

\* "The transport will not actually be closed until both threads exit": also when
\* the user disconnects it.
FreedAfterThreads == part = "network" => Network!FreedAfterThreads

\* The same of usb devices that are unplugged and plugged in again; no stream is left
\* to a transport that has been freed, and its input thread closes none that the main
\* thread has.
FreedInTime ==
  part = "usb" => Plugged!FreedAfterThreads /\ Plugged!NoSocketOnFreed /\ Plugged!InputClosesNoStream

\* Nothing that a transport is known by outlives it or is taken from another:
\* the list, although the usb thread takes a transport without permission off it
\* by itself, the descriptors of its clients, the table of emulators, and the
\* streams of a network device the user disconnects, which is kicked once.
TransportsSound ==
  /\ part = "usb" => Plugged!ListSound
  /\ part = "noperm" => Noperm!TypeOK /\ Noperm!ListSound /\ Noperm!ClientKeepsFd
  /\ part = "emulator" => Emulator!SlotsSound
  /\ part = "network" => Network!KickedOnce /\ Network!StreamHasTransport
=============================================================================

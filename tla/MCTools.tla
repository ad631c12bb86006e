------------------------------ MODULE MCTools -------------------------------
(***************************************************************************)
(* What adb runs on, the emulation of descriptors and events on Windows;   *)
(* two services of its device side; and fastboot.  A behaviour picks one   *)
(* of Parts and runs it, and the others rest in their initial state.       *)
(*                                                                         *)
(*   pair    a buffer of three bytes, as few as it takes for both regions  *)
(*           to hold some; requests of one, two and more bytes than fit.   *)
(*   files   two threads and three entries.                                *)
(*   looper  a socket and a pair, one of which may be removed.             *)
(*   late    two sockets that stay.                                        *)
(*   jdwp    two machines with the same process id (of one that died and   *)
(*           the next one) or no number, three debuggers and a tracker.    *)
(*   sync    two files of none or two chunks, links and special files, and *)
(*           a stream that holds one message in each direction.            *)
(*   many    up to four files to sync: only four come to a standstill.     *)
(*   fastboot  every line of two phrases, with three sets of files, two    *)
(*           lists of requirements (the second one without its last        *)
(*           newline) and four devices.                                    *)
(***************************************************************************)
EXTENDS BipBuffer

CONSTANTS Parts, t1, t2, s1, s2, p1, c1, c2, k1, l1

VARIABLES
  part,
  count, clazz, inUse, handle, fh_pc, op, fh, mine, left,
  hooks, wanted, mask, state, active, plist, fde_events, cond, rec, evt, queued,
  closing, ended, loop, cur, ev, closes,
  procs, pid, in_len, out_fds, want, sends, came, junk, hung, fds, trackers, told, unready,
  pass,
  cmd, kind, local, remote, kept, copy, up, down, broken, sync_pc, req, list, dirs, k, flag,
  ignored, opened, ret, spc, out, sync_cur, fd,
  fb, dev

filesVars == <<count, clazz, inUse, handle, fh_pc, op, fh, mine, left>>
looperVars == <<hooks, wanted, mask, state, active, plist, fde_events, cond, rec, evt, queued,
                closing, ended, loop, cur, ev, closes>>
jdwpVars == <<procs, pid, in_len, out_fds, want, sends, came, junk, hung, fds, trackers, told,
              unready, pass>>
syncVars == <<cmd, kind, local, remote, kept, copy, up, down, broken, sync_pc, req, list,
              dirs, k, flag, ignored, opened, ret, spc, out, sync_cur, fd>>
fbVars == <<fb, dev>>
allVars == <<part, vars, filesVars, looperVars, jdwpVars, syncVars, fbVars>>

Entries == INSTANCE Win32Files WITH
  pc <- fh_pc, Threads <- {t1, t2}, WIN32_MAX_FHS <- 3,
  Operations <- {"adb_open", "socket_network_client", "socket_loopback_server",
                 "adb_socketpair", "adb_socket_accept"}

Looper == INSTANCE Win32Looper WITH
  events <- fde_events, Fds <- {s1, p1}, Socket <- {s1}, Pair <- {p1},
  MAXIMUM_WAIT_OBJECTS <- 3, ClosesTotal <- 1

Late == INSTANCE Win32Looper WITH
  events <- fde_events, Fds <- {s1, s2}, Socket <- {s1, s2}, Pair <- {},
  MAXIMUM_WAIT_OBJECTS <- 3, ClosesTotal <- 0

Jdwp == INSTANCE JdwpService WITH
  Conns <- {c1, c2}, Pids <- {-1, 7}, Trackers <- {k1}, Listers <- {l1}, MAX_OUT_FDS <- 2,
  MaxFds <- 3, UpdateRoom <- 2, PacketRoom <- 3

Sync == INSTANCE FileSync WITH
  pc <- sync_pc, cur <- sync_cur, Files <- 1..2, Chunks <- {0, 2}, Capacity <- 1,
  Commands <- {"push", "push_dir", "sync", "list_only", "pull", "pull_dir"},
  Kinds <- {"reg", "link", "special"},
  Faults <- {"local", "open", "write", "read", "unlink", "break"}

Many == INSTANCE FileSync WITH
  pc <- sync_pc, cur <- sync_cur, Files <- 1..4, Chunks <- {1}, Capacity <- 1,
  Commands <- {"sync"}, Kinds <- {"reg", "special"}, Faults <- {}

Files ==
  {"boot.img", "recovery.img", "system.img", "userdata.img", "boot.sig", "android-info.txt",
   "kernel", "ramdisk"}
Line(name, invert, values) == [name |-> name, invert |-> invert, values |-> values]
Device(product, baseband) ==
  [v \in {"product", "version-baseband"} |-> IF v = "product" THEN product ELSE baseband]

Fastboot == INSTANCE Fastboot WITH
  MaxPhrases <- 2,
  Phrases <- {<<"-w">>, <<"-p", "x">>, <<"-i", "bad">>, <<"ramdisk">>, <<"boot.img">>,
              <<"devices">>, <<"getvar">>, <<"erase", "cache">>, <<"continue">>,
              <<"signature">>, <<"boot.sig">>, <<"reboot">>, <<"reboot-bootloader">>,
              <<"oem">>, <<"boot", "kernel">>, <<"flash", "boot">>, <<"flash", "system">>,
              <<"flash", "cache">>, <<"flash:raw", "boot", "kernel">>, <<"flashall">>,
              <<"update">>, <<"update", "update.zip">>},
  Archives <- {"update.zip"}, Signatures <- {"boot.sig"},
  Directories <- {Files, Files \ {"system.img", "kernel"},
                  (Files \ {"recovery.img", "boot.sig", "android-info.txt"})
                    \cup {"android-product.txt", "system.sig"}},
  Infos <- {[lines |-> <<Line("board", FALSE, {<<"a">>, <<"b", "*">>}),
                         Line("none", FALSE, {}),
                         Line("version-baseband", TRUE, {<<"1">>})>>, newline |-> TRUE],
            [lines |-> <<Line("board", FALSE, {<<"*">>}), Line("board", FALSE, {<<"c">>})>>,
             newline |-> FALSE]},
  Variables <- {Device(<<"a">>, <<"0">>), Device(<<"a">>, <<"1">>),
                Device(<<"b", "c">>, <<"0">>), Device(<<"*">>, <<"0">>)},
  Size <- [i \in {"boot.img", "recovery.img", "system.img", "userdata.img", "boot.sig",
                  "system.sig", "made", "ramdisk", "kernel"} |->
             CASE i = "system.img" -> 2 [] i = "boot.sig" -> 0 [] OTHER -> 1],
  MaxInfo <- 1, Faults <- {"fail", "lost", "unknown", "large"}

\* A single state of FileSync to rest in.
SyncRests ==
  /\ cmd = "push" /\ kind = <<"reg", "reg">> /\ local = [f \in 1..2 |-> Sync!ABSENT]
  /\ remote = local /\ copy = local /\ up = << >> /\ down = << >> /\ broken = FALSE
  /\ sync_pc = "start" /\ req = << >> /\ list = << >> /\ dirs = << >> /\ k = 1 /\ flag = {}
  /\ ignored = {} /\ kept = {} /\ opened = FALSE /\ ret = 1
  /\ spc = "closed" /\ out = << >> /\ sync_cur = 0 /\ fd = -1

\* A single state of Fastboot to rest in.
FastbootRests ==
  /\ fb = [pc |-> "rests", line |-> << >>, at |-> 1, queue |-> << >>, closed |-> FALSE]
  /\ dev = [st |-> "idle"]

ToolsInit ==
  /\ part \in Parts
  /\ Init /\ Entries!Init /\ Jdwp!Init
  /\ IF part = "late" THEN Late!Init ELSE Looper!Init
  /\ CASE part = "sync" -> Sync!Init [] part = "many" -> Many!Init [] OTHER -> SyncRests
  /\ part = "many" => \A f \in 1..4 : local[f].t = 1 /\ remote[f] \in {Many!ABSENT, local[f]}
  /\ IF part = "fastboot" THEN Fastboot!Init ELSE FastbootRests

PairStep ==
  /\ part = "pair" /\ Next
  /\ UNCHANGED <<part, filesVars, looperVars, jdwpVars, syncVars, fbVars>>
FilesStep ==
  /\ part = "files" /\ Entries!Next
  /\ UNCHANGED <<part, vars, looperVars, jdwpVars, syncVars, fbVars>>
LooperStep ==
  /\ part = "looper" /\ Looper!Next
  /\ UNCHANGED <<part, vars, filesVars, jdwpVars, syncVars, fbVars>>
LateStep ==
  /\ part = "late" /\ Late!Next
  /\ UNCHANGED <<part, vars, filesVars, jdwpVars, syncVars, fbVars>>
JdwpStep ==
  /\ part = "jdwp" /\ Jdwp!Next
  /\ UNCHANGED <<part, vars, filesVars, looperVars, syncVars, fbVars>>
SyncStep ==
  /\ part = "sync" /\ Sync!Next
  /\ UNCHANGED <<part, vars, filesVars, looperVars, jdwpVars, fbVars>>
ManyStep ==
  /\ part = "many" /\ Many!Next
  /\ UNCHANGED <<part, vars, filesVars, looperVars, jdwpVars, fbVars>>
FastbootStep ==
  /\ part = "fastboot" /\ Fastboot!Next
  /\ UNCHANGED <<part, vars, filesVars, looperVars, jdwpVars, syncVars>>

ToolsNext == PairStep \/ FilesStep \/ LooperStep \/ LateStep \/ JdwpStep \/ SyncStep
             \/ ManyStep \/ FastbootStep

ToolsSpec == ToolsInit /\ [][ToolsNext]_allVars

-----------------------------------------------------------------------------

\* On Windows, a descriptor belongs to one caller from _fh_alloc() to the end of
\* _fh_close(), and the only ones that are lost are those of socket_loopback_server()
\* when there was no socket; the hooks of the looper and the list of pending
\* fdevents are what the fdevents ask for.
EmulationSound ==
  /\ part = "files" => Entries!EntriesExclusive /\ Entries!NoEntryLost
  /\ part = "looper" => Looper!HooksCoherent
  /\ part = "late" => Late!HooksCoherent

\* The trackers of jdwp_service.c have been told the machines that are connected, and
\* every descriptor for a machine waits at one machine of the list, which is offered
\* it, until it is handed over or closed.
JdwpSound == part = "jdwp" => Jdwp!TrackersKnow /\ Jdwp!DescriptorsSound

\* "adb push", "sync" and "pull" report success only for whole files, but for three
\* failures that file_sync_client.c goes on after: a file to push that could not be read
\* to its end, a file to pull that the device refused, of which nothing is left, and a
\* file that could not be removed.  Nor does the service leave a half of a file that it
\* could remove, whatever else fails.
CopiesWhole ==
  /\ part = "sync" => Sync!SuccessIsCopied /\ Sync!NoHalfFile
  /\ part = "many" => Many!SuccessIsCopied /\ Many!NoHalfFile

\* The two ends of the sync protocol both wait for the other only while do_sync_sync()
\* asks for the times of files, of which there must be two more than both directions of
\* the stream hold messages.
NoStandstill ==
  /\ part = "sync" => Sync!NoStandstill
  /\ part = "many" => Many!NoStandstill

\* fastboot flashes whole images into their own partitions, touches no device that its
\* requirements reject, uses no handle that it has closed, and waits for no device that
\* waits for it.
FastbootSound ==
  part = "fastboot" =>
    /\ Fastboot!FlashedWhole /\ Fastboot!RequirementsFirst
    /\ Fastboot!ClosedIsLast /\ Fastboot!HostIsServed

\* sockets.c says of a write that would block that "returning here is ok because
\* FDE_READ will be processed in the next iteration loop".
ReadNextIteration == part = "late" => Late!ReadNextIteration

\* protocol.txt says that "a WRITE message may not be sent until a READY message is
\* received".
WriteNeedsReady == part = "jdwp" => Jdwp!WriteNeedsReady
=============================================================================

------------------------------ MODULE FileSync ------------------------------
(***************************************************************************)
(* tools/adb/file_sync_client.c and file_sync_service.c: "adb push", "adb  *)
(* sync" and "adb pull" on the host, and the service on the device, each   *)
(* with one end of a stream that holds a few messages in each direction    *)
(* and may break at any time.                                              *)
(*                                                                         *)
(* Both sides read and write in turn and block: req and out are what the   *)
(* client and the service have still to write before they go on.  A file   *)
(* is its number of chunks of SYNC_DATA_MAX bytes and its time; the device *)
(* has directory 1 with file 1 and directory 2 with the others.            *)
(***************************************************************************)
EXTENDS Integers, Sequences

CONSTANTS
  Files,      \* 1..n, on the host for push and sync, on the device for pull
  Chunks,     \* sizes of files
  Capacity,   \* bound: messages which the stream holds in each direction
  Commands,   \* of "push", "push_dir", "sync", "list_only", "pull", "pull_dir"
  Kinds,      \* of "reg", "link", "special"
  Faults      \* of "local" on the host, "open", "write", "read" on the device, "unlink" on
              \* both, "break"

VARIABLES
  cmd, kind, local,       \* the command line and the host's files
  remote,                 \* the device's files
  copy,                   \* the host's copies that "pull" makes
  up, down, broken,       \* the stream
  pc, req, list, dirs, k, flag, opened, ret,   \* the client
  ignored,                \* failures <<file, what>> after which the client goes on
  spc, out, cur, fd,      \* the service
  kept                    \* files that an unlink() of the service left

client == <<pc, req, list, dirs, k, flag, ignored, opened, ret>>
service == <<spc, out, cur, fd>>
vars == <<cmd, kind, local, remote, kept, copy, up, down, broken, client, service>>

ABSENT == [n |-> -1, t |-> 0]
NOW == 5                       \* later than the time of every file
Times == {1, 2}
Msg(id, f, n, t) == [id |-> id, f |-> f, n |-> n, t |-> t]
Path(id, f) == Msg(id, f, 0, 0)
Id(id) == Msg(id, 0, 0, 0)

Pulls == cmd \in {"pull", "pull_dir"}
Sources == SelectSeq([f \in Files |-> f], LAMBDA f : kind[f] # "special")

-----------------------------------------------------------------------------
(* The client                                                              *)

Return(r) ==
  /\ pc' = "exit" /\ ret' = r /\ req' = IF r = 0 THEN <<Id("QUIT")>> ELSE << >>
  /\ UNCHANGED <<list, dirs, k, flag, ignored, opened>>

\* Reading the next message; the stream has ended if the service is gone.
Gone == broken \/ (spc = "closed" /\ down = << >>)
CanRead == req = << >> /\ ~Gone /\ down # << >>

\* A single file asks for the mode of its target, unless stat(lpath) fails; a
\* directory is copied without a question.
do_sync_push ==
  \/ cmd = "push" /\ req' = <<Path("STAT", 1)>> /\ pc' = "mode" /\ UNCHANGED ret
  \/ cmd = "push" /\ "local" \in Faults /\ req' = <<Id("QUIT")>> /\ pc' = "exit" /\ ret' = 1
  \/ cmd = "push_dir" /\ req' = << >> /\ pc' = "send" /\ UNCHANGED ret

\* sync_start_readtime() of every file, before the first answer is read.
do_sync_sync ==
  /\ cmd \in {"sync", "list_only"}
  /\ req' = [i \in DOMAIN list |-> Path("STAT", list[i])] /\ pc' = "times" /\ UNCHANGED ret

do_sync_pull ==
  /\ Pulls
  /\ req' = <<Path("STAT", IF cmd = "pull" THEN 1 ELSE 0)>> /\ pc' = "mode" /\ UNCHANGED ret

Start ==
  /\ pc = "start"
  /\ do_sync_push \/ do_sync_sync \/ do_sync_pull
  /\ UNCHANGED <<list, dirs, k, flag, ignored, opened>>
  /\ UNCHANGED <<cmd, kind, local, remote, kept, copy, up, down, broken, service>>

\* writex() of the next message, which fails once the stream is broken.
ClientWrites ==
  /\ req # << >>
  /\ IF broken
     THEN IF pc = "exit" THEN req' = << >> /\ UNCHANGED <<pc, list, dirs, k, flag, ignored, opened, ret, up>>
          ELSE Return(1) /\ UNCHANGED up
     ELSE /\ Len(up) < Capacity
          /\ up' = IF spc = "closed" THEN up ELSE Append(up, Head(req))
          /\ req' = Tail(req)
          /\ UNCHANGED <<pc, list, dirs, k, flag, ignored, opened, ret>>
  /\ UNCHANGED <<cmd, kind, local, remote, kept, copy, down, broken, service>>

ClientEof ==
  /\ req = << >> /\ pc \in {"mode", "times", "list", "status", "recv"} /\ Gone
  /\ Return(1)
  /\ UNCHANGED <<cmd, kind, local, remote, kept, copy, up, down, broken, service>>

\* sync_readmode()
ReadMode ==
  /\ pc = "mode" /\ CanRead
  /\ down' = Tail(down)
  /\ LET m == Head(down)
     IN IF m.id # "STAT" \/ (Pulls /\ (m.n = -1 \/ (m.f = 1 /\ kind[1] = "special"))) THEN Return(1)
        ELSE /\ IF cmd = "pull_dir" THEN pc' = "list" /\ req' = <<Path("LIST", 1)>>
                ELSE pc' = "send" /\ UNCHANGED req
             /\ UNCHANGED <<list, dirs, k, flag, ignored, opened, ret>>
  /\ UNCHANGED <<cmd, kind, local, remote, kept, copy, up, broken, service>>

\* sync_finish_readtime() of every file after sync_start_readtime() of every file.
\* The time of a link cannot be set.
finish_readtime ==
  /\ pc = "times" /\ (CanRead \/ (k > Len(list) /\ req = << >>))
  /\ IF k > Len(list)
     THEN pc' = "send" /\ k' = 1 /\ UNCHANGED <<req, list, dirs, flag, ignored, opened, ret, down>>
     ELSE LET m == Head(down)  f == list[k]
          IN /\ down' = Tail(down)
             /\ IF m.id # "STAT" THEN Return(1)
                ELSE /\ flag' = IF m.n = local[f].n /\
                                   (IF kind[f] = "reg" THEN m.t = local[f].t ELSE m.t >= local[f].t)
                                THEN flag \cup {f} ELSE flag
                     /\ k' = k + 1
                     /\ UNCHANGED <<pc, req, list, dirs, ignored, opened, ret>>
  /\ UNCHANGED <<cmd, kind, local, remote, kept, copy, up, broken, service>>

\* write_data_file(), write_data_buffer(), write_data_link(): what could be read is
\* ignored, and DONE.
Data(f, n) == [i \in 1..n |-> Path("DATA", f)]
sync_send(f) ==
  LET start == <<Msg("SEND", f, IF kind[f] = "link" THEN 1 ELSE 0, 0)>>
  IN IF kind[f] = "special"
     THEN req' = start /\ pc' = "exit" /\ ret' = 1 /\ UNCHANGED ignored
     ELSE \E n \in (IF "local" \in Faults THEN 0..local[f].n ELSE {local[f].n}) :
            /\ req' = start \o Data(f, n) \o <<Msg("DONE", f, 0, local[f].t)>>
            /\ ignored' = IF n < local[f].n THEN ignored \union {<<f, "read">>} ELSE ignored
            /\ pc' = "status" /\ UNCHANGED ret

\* The next file that is not up to date; one that is to be verified may be unreadable
\* or no package.
copy_local_dir_remote(f) ==
  \/ /\ f \in flag \/ cmd = "list_only"
     /\ k' = k + 1 /\ UNCHANGED <<pc, req, list, dirs, flag, ignored, opened, ret>>
  \/ f \notin flag /\ cmd # "list_only" /\ sync_send(f) /\ UNCHANGED <<list, dirs, k, flag, opened>>
  \/ cmd = "push" /\ "local" \in Faults /\ Return(1)

copy_remote_dir_local(f) ==
  /\ req' = <<Path("RECV", f)>> /\ pc' = "recv" /\ opened' = FALSE
  /\ UNCHANGED <<list, dirs, k, flag, ignored, ret>>

\* The loops of the two, or the only file.
NextFile ==
  /\ pc = "send" /\ req = << >>
  /\ IF k > Len(list) THEN Return(0)
     ELSE IF Pulls THEN copy_remote_dir_local(list[k]) ELSE copy_local_dir_remote(list[k])
  /\ UNCHANGED <<cmd, kind, local, remote, kept, copy, up, down, broken, service>>

\* The answer that ends sync_send().
Status ==
  /\ pc = "status" /\ CanRead
  /\ down' = Tail(down)
  /\ IF Head(down).id # "OKAY" THEN Return(1)
     ELSE pc' = "send" /\ k' = k + 1 /\ UNCHANGED <<req, list, dirs, flag, ignored, opened, ret>>
  /\ UNCHANGED <<cmd, kind, local, remote, kept, copy, up, broken, service>>

\* Entries that are files or links, and directories; others are left out.
sync_ls_build_list_cb(m) ==
  /\ list' = IF m.t = 0 /\ m.n >= 0 THEN Append(list, m.f) ELSE list
  /\ dirs' = IF m.t = 1 THEN Append(dirs, m.f) ELSE dirs
  /\ UNCHANGED <<pc, req, k, flag, ignored, opened, ret>>

\* A directory after the other.
remote_build_list ==
  /\ IF dirs = << >> THEN pc' = "send" /\ UNCHANGED <<req, dirs>>
     ELSE req' = <<Path("LIST", Head(dirs))>> /\ dirs' = Tail(dirs) /\ UNCHANGED pc
  /\ UNCHANGED <<list, k, flag, ignored, opened, ret>>

sync_ls ==
  /\ pc = "list" /\ CanRead
  /\ down' = Tail(down)
  /\ LET m == Head(down)
     IN CASE m.id = "DENT" -> sync_ls_build_list_cb(m)
          [] m.id = "DONE" -> remote_build_list
          [] OTHER -> Return(1)
  /\ UNCHANGED <<cmd, kind, local, remote, kept, copy, up, broken, service>>

\* A mutant: what was received before a failure stays.
RecvKeeps ==
  /\ pc = "recv" /\ CanRead
  /\ down' = Tail(down)
  /\ LET m == Head(down)  f == list[k]
         started == IF opened THEN copy ELSE [copy EXCEPT ![f] = [n |-> 0, t |-> NOW]]
     IN \/ /\ m.id = "DATA" /\ copy' = [started EXCEPT ![f].n = @ + 1]
           /\ opened' = TRUE /\ UNCHANGED <<pc, req, list, dirs, k, flag, ignored, ret>>
        \/ /\ m.id # "DATA" /\ copy' = started
           /\ ignored' = IF m.id = "DONE" THEN ignored ELSE ignored \union {<<f, "refused">>}
           /\ k' = k + 1 /\ pc' = "send" /\ UNCHANGED <<req, list, dirs, flag, opened, ret>>
  /\ UNCHANGED <<cmd, kind, local, remote, kept, up, broken, service>>

\* sync_recv(): the file is replaced at the first message, removed when the device
\* fails (and the client goes on), and left as it is on other errors.
sync_recv ==
  /\ pc = "recv" /\ CanRead
  /\ down' = Tail(down)
  /\ LET m == Head(down)  f == list[k]
         started == IF opened THEN copy ELSE [copy EXCEPT ![f] = [n |-> 0, t |-> NOW]]
     IN \/ /\ m.id = "DATA" /\ copy' = [started EXCEPT ![f].n = @ + 1]
           /\ opened' = TRUE /\ UNCHANGED <<pc, req, list, dirs, k, flag, ignored, ret>>
        \/ /\ m.id = "DONE" /\ copy' = started
           /\ k' = k + 1 /\ pc' = "send"
           /\ UNCHANGED <<req, list, dirs, flag, ignored, opened, ret>>
        \/ /\ m.id \notin {"DATA", "DONE"}
           /\ \/ /\ copy' = [copy EXCEPT ![f] = ABSENT]
                 /\ ignored' = ignored \union {<<f, "refused">>}
              \/ /\ "unlink" \in Faults /\ UNCHANGED copy
                 /\ ignored' = ignored \union {<<f, "refused">>, <<f, "unlink">>}
           /\ k' = k + 1 /\ pc' = "send" /\ UNCHANGED <<req, list, dirs, flag, opened, ret>>
        \/ \* adb_creat() or writex() fails.
           /\ "local" \in Faults /\ m.id \in {"DATA", "DONE"}
           /\ copy' = IF opened THEN copy ELSE [copy EXCEPT ![f] = ABSENT]
           /\ Return(1)
  /\ UNCHANGED <<cmd, kind, local, remote, kept, up, broken, service>>

-----------------------------------------------------------------------------
(* The service                                                             *)

Serve(where, replies) == spc' = where /\ out' = replies
CanServe == out = << >> /\ ~broken /\ up # << >>
FAIL == <<Id("FAIL")>>

\* The other end is closed: all that was written can still be read.
ServiceEof == out = << >> /\ (broken \/ (pc = "exit" /\ req = << >> /\ up = << >>))

\* writex() of the next reply, which fails once nobody reads.
ServiceWrites ==
  /\ out # << >> /\ spc # "closed"
  /\ IF broken \/ (pc = "exit" /\ req = << >>)
     THEN Serve("closed", << >>) /\ UNCHANGED <<cur, fd, down>>
     ELSE /\ Len(down) < Capacity
          /\ down' = Append(down, Head(out)) /\ out' = Tail(out)
          /\ UNCHANGED <<spc, cur, fd>>
  /\ UNCHANGED <<cmd, kind, local, remote, kept, copy, up, broken, client>>

\* After a failure the service ends.
Close ==
  /\ spc = "closing" /\ out = << >>
  /\ Serve("closed", << >>)
  /\ UNCHANGED <<cmd, kind, local, remote, kept, copy, up, down, broken, client, cur, fd>>

do_stat(f) ==
  /\ Serve("command", <<IF f = 0 THEN Msg("STAT", 0, 0, 0)
                        ELSE Msg("STAT", f, remote[f].n, remote[f].t)>>)
  /\ UNCHANGED <<remote, kept, cur, fd>>

\* Of each entry: its name, whether it can be copied, and whether it is a directory.
do_list(d) ==
  /\ Serve("command",
       [i \in 1..Len(SelectSeq([f \in Files |-> f], LAMBDA f : (f = 1) = (d = 1))) |->
          LET f == SelectSeq([g \in Files |-> g], LAMBDA g : (g = 1) = (d = 1))[i]
          IN Msg("DENT", f, IF kind[f] = "special" THEN -1 ELSE remote[f].n, 0)] \o
       (IF d = 1 THEN <<Msg("DENT", 2, 0, 1)>> ELSE << >>) \o <<Id("DONE")>>)
  /\ UNCHANGED <<remote, kept, cur, fd>>

\* adb_unlink()
Unlink(f) ==
  \/ remote' = [remote EXCEPT ![f] = ABSENT] /\ kept' = kept \ {f}
  \/ /\ "unlink" \in Faults /\ remote[f] # ABSENT
     /\ kept' = kept \union {f} /\ UNCHANGED remote

\* do_send() removes the file; then handle_send_link(), or handle_send_file() opens
\* it, in place (and not truncated) if it is still there.
do_send(m) ==
  /\ cur' = m.f
  /\ \/ m.n = 1 /\ Unlink(m.f) /\ Serve("link", << >>) /\ fd' = -1
     \/ /\ m.n = 0 /\ Serve("data", << >>) /\ fd' = 0
        /\ \/ remote' = [remote EXCEPT ![m.f] = [n |-> 0, t |-> NOW]] /\ kept' = kept \ {m.f}
           \/ /\ "unlink" \in Faults /\ remote[m.f] # ABSENT
              /\ remote' = [remote EXCEPT ![m.f].t = NOW] /\ kept' = kept \union {m.f}
     \/ m.n = 0 /\ "open" \in Faults /\ Unlink(m.f) /\ Serve("data", FAIL) /\ fd' = -1

\* writex() of a chunk of the file.
Put == [remote EXCEPT ![cur].n = IF @ > fd THEN @ ELSE fd + 1]

do_recv(f) ==
  /\ \/ /\ remote[f] = ABSENT \/ "open" \in Faults
        /\ Serve("command", FAIL)
     \/ /\ remote[f] # ABSENT
        /\ Serve("command", Data(f, remote[f].n) \o <<Id("DONE")>>)
     \/ /\ remote[f] # ABSENT /\ "read" \in Faults
        /\ \E n \in 0..remote[f].n : Serve("command", Data(f, n) \o FAIL)
  /\ UNCHANGED <<remote, kept, cur, fd>>

\* The loop of file_sync_service().
Command ==
  /\ spc = "command" /\ CanServe
  /\ up' = Tail(up)
  /\ LET m == Head(up)
     IN CASE m.id = "STAT" -> do_stat(m.f) [] m.id = "LIST" -> do_list(m.f)
          [] m.id = "SEND" -> do_send(m) [] m.id = "RECV" -> do_recv(m.f)
          [] m.id = "QUIT" -> Serve("closed", << >>) /\ UNCHANGED <<remote, kept, cur, fd>>
          [] OTHER -> Serve("closing", FAIL) /\ UNCHANGED <<remote, kept, cur, fd>>
  /\ UNCHANGED <<cmd, kind, local, copy, down, broken, client>>

\* A mutant: after a failed write the descriptor is not forgotten.
send_file_again ==
  /\ spc = "data" /\ CanServe
  /\ up' = Tail(up)
  /\ LET m == Head(up)
     IN \/ /\ m.id = "DATA"
           /\ \/ fd >= 0 /\ remote' = Put /\ fd' = fd + 1 /\ UNCHANGED <<spc, out, kept>>
              \/ "write" \in Faults /\ Unlink(cur) /\ Serve("data", FAIL) /\ UNCHANGED fd
        \/ /\ m.id = "DONE" /\ Serve("command", <<Id("OKAY")>>) /\ UNCHANGED <<fd, kept>>
           /\ remote' = [remote EXCEPT ![cur].t = m.t]
  /\ UNCHANGED <<cmd, kind, local, copy, down, broken, client, cur>>

\* handle_send_file(): after a failure it reads on to the end of the file, so that
\* the client, which reads no answer before, can go on writing.
handle_send_file ==
  /\ spc = "data" /\ CanServe
  /\ up' = Tail(up)
  /\ LET m == Head(up)
     IN \/ /\ m.id = "DATA" /\ fd < 0
           /\ UNCHANGED <<remote, kept, spc, out, fd>>
        \/ /\ m.id = "DATA" /\ fd >= 0
           /\ remote' = Put /\ fd' = fd + 1
           /\ UNCHANGED <<spc, out, kept>>
        \/ /\ m.id = "DATA" /\ fd >= 0 /\ "write" \in Faults
           /\ Unlink(cur) /\ fd' = -1
           /\ Serve("data", FAIL)
        \/ /\ m.id = "DONE"
           /\ remote' = IF fd >= 0 THEN [remote EXCEPT ![cur].t = m.t] ELSE remote
           /\ Serve("command", IF fd >= 0 THEN <<Id("OKAY")>> ELSE << >>) /\ fd' = -1
           /\ UNCHANGED kept
        \/ /\ m.id \notin {"DATA", "DONE"}
           /\ Unlink(cur) /\ fd' = -1
           /\ Serve("closing", FAIL)
  /\ UNCHANGED <<cmd, kind, local, copy, down, broken, client, cur>>

\* A link is made when its target has come, unless something is still there under its
\* name; any failure ends the service.
handle_send_link ==
  /\ spc \in {"link", "link_done"} /\ CanServe
  /\ up' = Tail(up)
  /\ LET m == Head(up)
     IN \/ /\ spc = "link" /\ m.id = "DATA" /\ remote[cur] = ABSENT
           /\ remote' = [remote EXCEPT ![cur] = [n |-> 1, t |-> NOW]] /\ UNCHANGED kept
           /\ Serve("link_done", << >>)
        \/ /\ spc = "link" /\ (m.id # "DATA" \/ remote[cur] # ABSENT \/ "write" \in Faults)
           /\ Serve("closing", FAIL) /\ UNCHANGED <<remote, kept>>
        \/ /\ spc = "link_done"
           /\ IF m.id = "DONE" THEN Serve("command", <<Id("OKAY")>>) ELSE Serve("closing", FAIL)
           /\ UNCHANGED <<remote, kept>>
  /\ UNCHANGED <<cmd, kind, local, copy, down, broken, client, cur, fd>>

\* readx() fails: what has come of a file is removed.
EndOfStream ==
  /\ spc \notin {"closing", "closed"} /\ ServiceEof
  /\ Serve("closed", << >>) /\ fd' = -1
  /\ IF spc = "data" THEN Unlink(cur) ELSE UNCHANGED <<remote, kept>>
  /\ UNCHANGED <<cmd, kind, local, copy, up, down, broken, client, cur>>

-----------------------------------------------------------------------------

Break ==
  /\ "break" \in Faults /\ ~broken /\ pc # "exit"
  /\ broken' = TRUE /\ up' = << >> /\ down' = << >>
  /\ UNCHANGED <<cmd, kind, local, remote, kept, copy, client, service>>

Contents == {[n |-> n, t |-> t] : n \in Chunks, t \in Times}

\* A link is one message long.
Init ==
  /\ cmd \in Commands
  /\ kind \in [Files -> Kinds]
  /\ local \in [Files -> IF Pulls THEN {ABSENT} ELSE Contents]
  /\ remote \in [Files -> Contents \cup (IF cmd = "pull_dir" THEN {} ELSE {ABSENT})]
  /\ \A f \in Files : kind[f] = "link" =>
       remote[f].n \in {-1, 1} /\ local[f].n = (IF Pulls THEN -1 ELSE 1)
  /\ copy = [f \in Files |-> ABSENT]
  /\ up = << >> /\ down = << >> /\ broken = FALSE
  /\ pc = "start" /\ req = << >> /\ dirs = << >> /\ k = 1 /\ flag = {} /\ opened = FALSE
  /\ ignored = {} /\ kept = {} /\ ret = 1
  /\ list = CASE cmd \in {"push", "pull"} -> <<1>> [] cmd = "pull_dir" -> << >> [] OTHER -> Sources
  /\ cmd = "push" => kind[1] # "link"      \* stat() follows links
  /\ spc = "command" /\ out = << >> /\ cur = 0 /\ fd = -1

ClientStep ==
  \/ Start \/ ClientWrites \/ ClientEof \/ ReadMode \/ finish_readtime \/ NextFile \/ Status
  \/ sync_ls \/ sync_recv
ServiceStep ==
  \/ ServiceWrites \/ Close \/ Command \/ handle_send_file \/ handle_send_link \/ EndOfStream

Next == ClientStep \/ ServiceStep \/ Break

Spec == Init /\ [][Next]_vars

\* The client and the service are processes of their own.
Fairness == WF_vars(ClientStep) /\ WF_vars(ServiceStep)

-----------------------------------------------------------------------------

\* Between two commands, and when it has ended, the service leaves no half of a file
\* under its name, whatever failed, unless an unlink() did: handle_send_file() sets a
\* file's time when its end has come, and removes it otherwise.
NoHalfFile ==
  spc \in {"command", "closed"} =>
    \A f \in Files \ kept : kind[f] = "reg" => remote[f].t # NOW

\* A file is where it should be, with its size and, if it was pushed, its time.
Whole(f) ==
  IF Pulls THEN copy[f].n = remote[f].n
  ELSE remote[f].n = local[f].n /\ (kind[f] = "reg" => remote[f].t = local[f].t)

\* When the client reports success, every file is whole, apart from three failures that
\* it does not report: the device refused a file to "pull", of which then nothing is left
\* unless that could not be removed; it could not read to the end what it pushed, and
\* the device has no more than that; the device could not remove the file it replaced,
\* and has at least what was sent.
SuccessIsCopied ==
  pc = "exit" /\ ret = 0 /\ cmd # "list_only" =>
    \A i \in DOMAIN list :
      LET f == list[i]
      IN \/ Whole(f)
         \/ /\ Pulls /\ <<f, "refused">> \in ignored
            /\ copy[f] = ABSENT \/ <<f, "unlink">> \in ignored
         \/ /\ ~Pulls /\ (kind[f] = "reg" => remote[f].t = local[f].t)
            /\ \/ <<f, "read">> \in ignored /\ remote[f].n < local[f].n
               \/ f \in kept /\ (remote[f].n >= local[f].n \/ <<f, "read">> \in ignored)

\* A success of the client means that all files are whole.
SuccessIsWhole ==
  pc = "exit" /\ ret = 0 /\ cmd # "list_only" => \A i \in DOMAIN list : Whole(list[i])

\* Both ends wait: to write into a stream that is full, or to read.
BothWrite ==
  req # << >> /\ Len(up) = Capacity /\ out # << >> /\ Len(down) = Capacity /\ ~broken
BothRead ==
  /\ req = << >> /\ pc \in {"mode", "times", "list", "status", "recv"} /\ k <= Len(list)
  /\ spc \in {"command", "data", "link", "link_done"} /\ out = << >>
  /\ down = << >> /\ up = << >> /\ ~broken

\* "adb sync" asks for the times of all files before it reads one: when the stream is
\* full in both directions, the service has an answer to write and the client another
\* question, nobody goes on.
SyncStandstill == pc = "times" /\ BothWrite

\* The client and the service both wait for the other only there, and only when there are
\* at least two files more than both directions hold: the service answers a file that it
\* cannot take at most once before its end, and every command is answered as often as
\* the client reads.
NoStandstill ==
  /\ ~BothRead
  /\ BothWrite => SyncStandstill /\ Len(list) >= 2 * Capacity + 2

\* The same without exception.
NeverBothWait == ~BothRead /\ ~BothWrite

\* Every command ends, and with it the service, although each side blocks while it
\* writes and while it reads, and whatever fails, unless "adb sync" comes to a standstill.
CommandEnds == <>((pc = "exit" /\ spc = "closed") \/ SyncStandstill)
=============================================================================

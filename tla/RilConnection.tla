--------------------------- MODULE RilConnection ---------------------------
(***************************************************************************)
(* libril between the telephony process and the vendor's radio library:    *)
(* the start of the event loop, the table of watched descriptors, the one  *)
(* command connection that is accepted, read and closed on the loop's      *)
(* thread, the requests that are pending, and the answers and unsolicited  *)
(* messages that threads of the vendor's library write to the connection.  *)
(*                                                                         *)
(* A message is written in two parts, its length and its data.  Faults are *)
(* the failures that a run allows: "write" (the client goes away at any    *)
(* time and a write fails), "accept", "reject" (the client is not the      *)
(* telephony process), "invalid" (a request that cannot be dispatched) and *)
(* "debug" (the debug port's order to close the connection).  Without      *)
(* "write" a client goes away only when no message is on its way, and none *)
(* is sent until the loop has closed its end.                              *)
(***************************************************************************)
EXTENDS Integers, FiniteSets, Sequences

CONSTANTS
  Conns,         \* connections of the client, 1 to n
  Requests,      \* requests of the client
  LocalRequests, \* requests of the debug port
  Threads,       \* the threads of the vendor's library
  MaxUnsol,      \* bound on unsolicited messages of the threads
  Faults

VARIABLES
  main,        \* where RIL_register() is
  pc,          \* where the event loop is
  wakefd,      \* the wakeup pipe has been made
  pipe,        \* the pipe is readable
  watch_table, \* slots of events
  rfds,        \* the loop's copy of readFds, then what select() answered
  pending,     \* events to be fired, in the slots from which they came
  fdtab,       \* open descriptors: the connection behind each, or 0
  s_fdCommand,
  cmdFd,       \* s_commands_event.fd and the RecordStream's
  conn,        \* of each connection: none, backlog, open, eof or over
  req,         \* of each request: unsent, sent, vendor, done or lost
  origin,      \* the connection on which a request was sent
  pendingRequests, cancelled,  \* s_pendingRequests, and those marked
  writer,      \* holder of s_writeMutex
  spc, job, fd,\* of each sender: where it is, its message, its descriptor
  stream,      \* what was written to each connection
  unsol, debugs\* unsolicited messages and orders on the debug port so far

vars == <<main, pc, wakefd, pipe, watch_table, rfds, pending, fdtab, s_fdCommand,
          cmdFd, conn, req, origin, pendingRequests, cancelled, writer, spc, job,
          fd, stream, unsol, debugs>>

loopVars == <<watch_table, rfds, pending, cmdFd>>
clientVars == <<conn, origin, debugs>>
requestVars == <<req, pendingRequests, cancelled>>
sendVars == <<writer, spc, job, fd, stream>>
startVars == <<main, wakefd>>

-----------------------------------------------------------------------------

MAX_FD_EVENTS == 8

Fds == {1, 2}
NoFd == -1
NULL == "NULL"
Loop == "loop"
Senders == Threads \union {Loop}
AllRequests == Requests \union LocalRequests
Unsolicited == "unsolicited"

Watched(e) == \E i \in 1..MAX_FD_EVENTS : watch_table[i] = e

\* ril_event_add(): the first free slot; nothing happens when there is none.
Add(table, e) ==
  LET free == {i \in 1..MAX_FD_EVENTS : table[i] = NULL}
  IN [i \in 1..MAX_FD_EVENTS |->
        IF i \in free /\ \A j \in free : i <= j THEN e ELSE table[i]]

\* ril_event_del(), removeWatch()
Del(table, e) == [i \in 1..MAX_FD_EVENTS |-> IF table[i] = e THEN NULL ELSE table[i]]

Events == {"wakeup", "listen", "commands", "debug"}

\* The connection behind a descriptor, or 0.
Behind(f) == IF f \in Fds THEN fdtab[f] ELSE 0

Readable(e) ==
  CASE e = "wakeup" -> pipe
    [] e = "listen" -> \E c \in Conns : conn[c] = "backlog"
    [] e = "debug" -> debugs > 0
    [] e = "commands" ->
         /\ Behind(cmdFd) # 0
         /\ \/ conn[Behind(cmdFd)] = "eof"
            \/ \E r \in Requests : req[r] = "sent" /\ origin[r] = Behind(cmdFd)

Close(tab, f) == IF f \in Fds THEN [tab EXCEPT ![f] = 0] ELSE tab

\* close() also tells the client.
CloseConn(f) ==
  /\ fdtab' = Close(fdtab, f)
  /\ conn' = IF Behind(f) # 0 THEN [conn EXCEPT ![Behind(f)] = "over"] ELSE conn

-----------------------------------------------------------------------------

Init ==
  /\ main = "listen" /\ pc = "pipe"
  /\ wakefd = FALSE /\ pipe = FALSE
  /\ watch_table = [i \in 1..MAX_FD_EVENTS |-> NULL]
  /\ rfds = {} /\ pending = [i \in 1..MAX_FD_EVENTS |-> NULL]
  /\ fdtab = [f \in Fds |-> 0]
  /\ s_fdCommand = NoFd /\ cmdFd = NoFd
  /\ conn = [c \in Conns |-> "none"]
  /\ req = [r \in AllRequests |-> "unsent"]
  /\ origin = [r \in Requests |-> 0]
  /\ pendingRequests = {} /\ cancelled = {}
  /\ writer = NULL
  /\ spc = [s \in Senders |-> "idle"]
  /\ job = [s \in Senders |-> NULL]
  /\ fd = [s \in Senders |-> NoFd]
  /\ stream = [c \in Conns |-> <<>>]
  /\ unsol = 0 /\ debugs = 0

\* RIL_register() on the main thread, once s_started is set: rilEventAddWakeup()
\* is ril_event_add() and then a byte to the pipe, which may not exist yet.
RegisterAdds ==
  /\ main \in {"listen", "debug"}
  /\ watch_table' = Add(watch_table, main)
  /\ main' = IF main = "listen" THEN "trigger_listen" ELSE "trigger_debug"
  /\ UNCHANGED <<pc, wakefd, pipe, rfds, pending, cmdFd, fdtab, s_fdCommand,
                 clientVars, requestVars, sendVars, unsol>>

RegisterTriggers ==
  /\ main \in {"trigger_listen", "trigger_debug"}
  /\ pipe' = (wakefd \/ pipe)
  /\ main' = IF main = "trigger_listen" THEN "debug" ELSE "done"
  /\ UNCHANGED <<pc, wakefd, loopVars, fdtab, s_fdCommand,
                 clientVars, requestVars, sendVars, unsol>>

\* eventLoop(): the pipe is made after s_started was announced.
MakePipe ==
  /\ pc = "pipe"
  /\ wakefd' = TRUE
  /\ pc' = "wakeup"
  /\ UNCHANGED <<main, pipe, loopVars, fdtab, s_fdCommand,
                 clientVars, requestVars, sendVars, unsol>>

AddWakeup ==
  /\ pc = "wakeup"
  /\ watch_table' = Add(watch_table, "wakeup")
  /\ pc' = "copy"
  /\ UNCHANGED <<startVars, pipe, rfds, pending, cmdFd, fdtab, s_fdCommand,
                 clientVars, requestVars, sendVars, unsol>>

-----------------------------------------------------------------------------
(* ril_event_loop() *)

CopyReadFds ==
  /\ pc = "copy"
  /\ rfds' = {e \in Events : Watched(e)}
  /\ pc' = "select"
  /\ UNCHANGED <<startVars, pipe, watch_table, pending, cmdFd, fdtab, s_fdCommand,
                 clientVars, requestVars, sendVars, unsol>>

\* A descriptor that was closed while it is watched makes select() fail, and
\* the loop returns.
BadFd == "commands" \in rfds /\ Behind(cmdFd) = 0

SelectFails ==
  /\ pc = "select" /\ BadFd
  /\ pc' = "dead"
  /\ UNCHANGED <<startVars, pipe, loopVars, fdtab, s_fdCommand,
                 clientVars, requestVars, sendVars, unsol>>

Select ==
  /\ pc = "select" /\ ~BadFd
  /\ \E e \in rfds : Readable(e)
  /\ rfds' = {e \in rfds : Readable(e)}
  /\ pc' = "readies"
  /\ UNCHANGED <<startVars, pipe, watch_table, pending, cmdFd, fdtab, s_fdCommand,
                 clientVars, requestVars, sendVars, unsol>>

\* The list that processReadReadies() makes and firePending() empties, in the order of
\* the table.
Ready == [i \in 1..MAX_FD_EVENTS |-> IF watch_table[i] \in rfds THEN watch_table[i] ELSE NULL]

Firing(e) ==
  /\ pc = "fire"
  /\ \E i \in 1..MAX_FD_EVENTS : pending[i] = e /\ \A j \in 1..(i - 1) : pending[j] = NULL

\* processReadReadies(): in the order of the table; only s_listen_event is not
\* persistent.
ProcessReadReadies ==
  /\ pc = "readies"
  /\ pending' = Ready
  /\ watch_table' = IF "listen" \in rfds THEN Del(watch_table, "listen") ELSE watch_table
  /\ rfds' = {}
  /\ pc' = "fire"
  /\ UNCHANGED <<startVars, pipe, cmdFd, fdtab, s_fdCommand,
                 clientVars, requestVars, sendVars, unsol>>

NothingPending ==
  /\ pc = "fire" /\ \A i \in 1..MAX_FD_EVENTS : pending[i] = NULL
  /\ pc' = "copy"
  /\ UNCHANGED <<startVars, pipe, loopVars, fdtab, s_fdCommand,
                 clientVars, requestVars, sendVars, unsol>>

ProcessWakeupCallback ==
  /\ Firing("wakeup")
  /\ pipe' = FALSE
  /\ pending' = Del(pending, "wakeup")
  /\ UNCHANGED <<startVars, pc, watch_table, rfds, cmdFd, fdtab, s_fdCommand,
                 clientVars, requestVars, sendVars, unsol>>

\* listenCallback(), up to accept(): the first in the backlog gets the lowest
\* descriptor.
Accept ==
  /\ Firing("listen")
  /\ \E c \in Conns, f \in Fds :
       /\ conn[c] = "backlog" /\ \A d \in Conns : conn[d] = "backlog" => c <= d
       /\ fdtab[f] = 0 /\ \A g \in Fds : fdtab[g] = 0 => f <= g
       /\ s_fdCommand' = f
       /\ fdtab' = [fdtab EXCEPT ![f] = c]
       /\ conn' = [conn EXCEPT ![c] = "open"]
  /\ pc' = "creds"
  /\ UNCHANGED <<startVars, pipe, loopVars, origin, debugs,
                 requestVars, sendVars, unsol>>

AcceptFails ==
  /\ "accept" \in Faults
  /\ Firing("listen")
  /\ s_fdCommand' = NoFd
  /\ watch_table' = Add(watch_table, "listen")
  /\ pending' = Del(pending, "listen")
  /\ UNCHANGED <<startVars, pc, pipe, rfds, cmdFd, fdtab,
                 clientVars, requestVars, sendVars, unsol>>

\* onCommandsSocketClosed()
OnCommandsSocketClosed == cancelled' = cancelled \union pendingRequests

\* listenCallback(): the peer is not the telephony process
Reject ==
  /\ "reject" \in Faults
  /\ pc = "creds"
  /\ CloseConn(s_fdCommand)
  /\ s_fdCommand' = NoFd
  /\ OnCommandsSocketClosed
  /\ watch_table' = Add(watch_table, "listen")
  /\ pending' = Del(pending, "listen")
  /\ pc' = "fire"
  /\ UNCHANGED <<startVars, pipe, rfds, cmdFd, origin, debugs,
                 req, pendingRequests, sendVars, unsol>>

\* listenCallback(): s_commands_event is watched; onNewCommandConnect() then
\* sends the state of the radio from the loop's thread.
NewConnection ==
  /\ pc = "creds"
  /\ cmdFd' = s_fdCommand
  /\ watch_table' = Add(watch_table, "commands")
  /\ spc' = [spc EXCEPT ![Loop] = "readfd"]
  /\ job' = [job EXCEPT ![Loop] = Unsolicited]
  /\ pc' = "sending"
  /\ UNCHANGED <<startVars, pipe, rfds, pending, fdtab, s_fdCommand,
                 clientVars, requestVars, writer, fd, stream, unsol>>

LoopHasSent ==
  /\ pc = "sending" /\ spc[Loop] = "idle"
  /\ pending' = Del(pending, "listen")
  /\ pc' = "fire"
  /\ UNCHANGED <<startVars, pipe, watch_table, rfds, cmdFd, fdtab, s_fdCommand,
                 clientVars, requestVars, sendVars, unsol>>

\* processCommandBuffer(): a request code that is not supported is dropped; one
\* whose arguments are invalid stays in s_pendingRequests and nobody has it.
ProcessCommand(r) ==
  /\ Firing("commands")
  /\ req[r] = "sent" /\ Behind(cmdFd) # 0 /\ origin[r] = Behind(cmdFd)
  /\ \/ /\ req' = [req EXCEPT ![r] = "vendor"]
        /\ pendingRequests' = pendingRequests \union {r}
     \/ /\ "invalid" \in Faults
        /\ req' = [req EXCEPT ![r] = "lost"]
        /\ \/ pendingRequests' = pendingRequests \union {r}
           \/ UNCHANGED pendingRequests
  /\ UNCHANGED <<startVars, pc, pipe, loopVars, fdtab, s_fdCommand,
                 clientVars, cancelled, sendVars, unsol>>

\* processCommandsCallback(): nothing more to read
CommandsDone ==
  /\ Firing("commands")
  /\ Behind(cmdFd) # 0 /\ ~Readable("commands")
  /\ pending' = Del(pending, "commands")
  /\ UNCHANGED <<startVars, pc, pipe, watch_table, rfds, cmdFd, fdtab, s_fdCommand,
                 clientVars, requestVars, sendVars, unsol>>

\* processCommandsCallback(): end of stream, or an error on the descriptor
CommandsClose ==
  /\ Firing("commands")
  /\ Behind(cmdFd) # 0 =>
       /\ conn[Behind(cmdFd)] = "eof"
       /\ \A r \in Requests : req[r] = "sent" => origin[r] # Behind(cmdFd)
  /\ CloseConn(s_fdCommand)
  /\ pc' = "reset"
  /\ UNCHANGED <<startVars, pipe, loopVars, s_fdCommand, origin, debugs,
                 requestVars, sendVars, unsol>>

CommandsReset ==
  /\ pc = "reset"
  /\ s_fdCommand' = NoFd
  /\ watch_table' = Add(Del(watch_table, "commands"), "listen")
  /\ pc' = "cancel"
  /\ UNCHANGED <<startVars, pipe, rfds, pending, cmdFd, fdtab,
                 clientVars, requestVars, sendVars, unsol>>

\* Mutant: pending requests are not marked.
CancelNothing ==
  /\ pc = "cancel"
  /\ pending' = Del(pending, "commands")
  /\ pc' = "fire"
  /\ UNCHANGED <<startVars, pipe, watch_table, rfds, cmdFd, fdtab, s_fdCommand,
                 clientVars, requestVars, sendVars, unsol>>

CommandsCancel ==
  /\ pc = "cancel"
  /\ OnCommandsSocketClosed
  /\ pending' = Del(pending, "commands")
  /\ pc' = "fire"
  /\ UNCHANGED <<startVars, pipe, watch_table, rfds, cmdFd, fdtab, s_fdCommand,
                 clientVars, req, pendingRequests, sendVars, unsol>>

\* debugCallback(): issueLocalRequest()
DebugIssues(r) ==
  /\ Firing("debug")
  /\ req[r] = "unsent"
  /\ req' = [req EXCEPT ![r] = "vendor"]
  /\ pendingRequests' = pendingRequests \union {r}
  /\ debugs' = debugs - 1
  /\ pending' = Del(pending, "debug")
  /\ UNCHANGED <<startVars, pc, pipe, watch_table, rfds, cmdFd, fdtab, s_fdCommand,
                 conn, origin, cancelled, sendVars, unsol>>

\* debugCallback(), order 1: a local request, and the connection is closed.
DebugCloses(r) ==
  /\ "debug" \in Faults
  /\ Firing("debug")
  /\ req[r] = "unsent"
  /\ req' = [req EXCEPT ![r] = "vendor"]
  /\ pendingRequests' = pendingRequests \union {r}
  /\ CloseConn(s_fdCommand)
  /\ s_fdCommand' = NoFd
  /\ debugs' = debugs - 1
  /\ pending' = Del(pending, "debug")
  /\ UNCHANGED <<startVars, pc, pipe, watch_table, rfds, cmdFd,
                 origin, cancelled, sendVars, unsol>>

-----------------------------------------------------------------------------
(* The vendor's threads, and the loop where it sends *)

Quiet ==
  \/ "write" \in Faults
  \/ pc \notin {"reset", "cancel"} /\ \A c \in Conns : conn[c] # "eof"

\* RIL_onRequestComplete(): checkAndDequeueRequestInfo().  A local request is
\* not answered.
Complete(th, r) ==
  /\ spc[th] = "idle" /\ Quiet
  /\ req[r] = "vendor"
  /\ req' = [req EXCEPT ![r] = "done"]
  /\ pendingRequests' = pendingRequests \ {r}
  /\ IF r \in LocalRequests THEN UNCHANGED <<spc, job>>
     ELSE spc' = [spc EXCEPT ![th] = "check"] /\ job' = [job EXCEPT ![th] = r]
  /\ UNCHANGED <<startVars, pc, pipe, loopVars, fdtab, s_fdCommand,
                 clientVars, cancelled, writer, fd, stream, unsol>>

\* The sender returns.
Return(s) ==
  /\ spc' = [spc EXCEPT ![s] = "idle"]
  /\ job' = [job EXCEPT ![s] = NULL]
  /\ fd' = [fd EXCEPT ![s] = NoFd]

\* Mutant: the mark is not looked at.
CheckNothing(th) ==
  /\ spc[th] = "check"
  /\ spc' = [spc EXCEPT ![th] = "readfd"]
  /\ UNCHANGED <<startVars, pc, pipe, loopVars, fdtab, s_fdCommand,
                 clientVars, requestVars, writer, job, fd, stream, unsol>>

\* RIL_onRequestComplete(): pRI->cancelled
CheckCancelled(th) ==
  /\ spc[th] = "check"
  /\ IF job[th] \in cancelled THEN Return(th)
     ELSE spc' = [spc EXCEPT ![th] = "readfd"] /\ UNCHANGED <<job, fd>>
  /\ UNCHANGED <<startVars, pc, pipe, loopVars, fdtab, s_fdCommand,
                 clientVars, requestVars, writer, stream, unsol>>

\* RIL_onUnsolicitedResponse() on a thread
OnUnsolicitedResponse(th) ==
  /\ spc[th] = "idle" /\ Quiet
  /\ unsol < MaxUnsol
  /\ unsol' = unsol + 1
  /\ spc' = [spc EXCEPT ![th] = "readfd"]
  /\ job' = [job EXCEPT ![th] = Unsolicited]
  /\ UNCHANGED <<startVars, pc, pipe, loopVars, fdtab, s_fdCommand,
                 clientVars, requestVars, writer, fd, stream>>

\* sendResponseRaw(): s_fdCommand is read, and read again for the check.
ReadFd(s) ==
  /\ spc[s] = "readfd"
  /\ fd' = [fd EXCEPT ![s] = s_fdCommand]
  /\ spc' = [spc EXCEPT ![s] = "checkfd"]
  /\ UNCHANGED <<startVars, pc, pipe, loopVars, fdtab, s_fdCommand,
                 clientVars, requestVars, writer, job, stream, unsol>>

CheckFd(s) ==
  /\ spc[s] = "checkfd"
  /\ IF s_fdCommand = NoFd THEN Return(s)
     ELSE spc' = [spc EXCEPT ![s] = "lock"] /\ UNCHANGED <<job, fd>>
  /\ UNCHANGED <<startVars, pc, pipe, loopVars, fdtab, s_fdCommand,
                 clientVars, requestVars, writer, stream, unsol>>

LockWrite(s) ==
  /\ spc[s] = "lock" /\ writer = NULL
  /\ writer' = s
  /\ spc' = [spc EXCEPT ![s] = "header"]
  /\ UNCHANGED <<startVars, pc, pipe, loopVars, fdtab, s_fdCommand,
                 clientVars, requestVars, job, fd, stream, unsol>>

\* blockingWrite() of the length, then of the data
Write(s) ==
  /\ spc[s] \in {"header", "data"}
  /\ Behind(fd[s]) # 0 /\ conn[Behind(fd[s])] = "open"
  /\ stream' = [stream EXCEPT ![Behind(fd[s])] = Append(@, <<spc[s], s, job[s]>>)]
  /\ IF spc[s] = "header"
     THEN spc' = [spc EXCEPT ![s] = "data"] /\ UNCHANGED <<job, fd, writer>>
     ELSE Return(s) /\ writer' = NULL
  /\ UNCHANGED <<startVars, pc, pipe, loopVars, fdtab, s_fdCommand,
                 clientVars, requestVars, unsol>>

\* blockingWrite() closes the descriptor when a write fails: the client has
\* gone away, its buffer is full, or the descriptor is closed already.
WriteFails(s) ==
  /\ spc[s] \in {"header", "data"}
  /\ \/ "write" \in Faults
     \/ Behind(fd[s]) = 0
  /\ CloseConn(fd[s])
  /\ Return(s)
  /\ writer' = NULL
  /\ UNCHANGED <<startVars, pc, pipe, loopVars, s_fdCommand, origin, debugs,
                 requestVars, stream, unsol>>

-----------------------------------------------------------------------------
(* The client *)

Connect(c) ==
  /\ conn[c] = "none"
  /\ \A d \in Conns : d < c => conn[d] \in {"eof", "over"}
  /\ conn' = [conn EXCEPT ![c] = "backlog"]
  /\ UNCHANGED <<startVars, pc, pipe, loopVars, fdtab, s_fdCommand, origin, debugs,
                 requestVars, sendVars, unsol>>

SendRequest(c, r) ==
  /\ conn[c] = "open" /\ req[r] = "unsent"
  /\ req' = [req EXCEPT ![r] = "sent"]
  /\ origin' = [origin EXCEPT ![r] = c]
  /\ UNCHANGED <<startVars, pc, pipe, loopVars, fdtab, s_fdCommand, conn, debugs,
                 pendingRequests, cancelled, sendVars, unsol>>

Disconnect(c) ==
  /\ conn[c] = "open"
  /\ "write" \in Faults \/ \A s \in Senders : spc[s] = "idle" /\ pc # "creds"
  /\ conn' = [conn EXCEPT ![c] = "eof"]
  /\ UNCHANGED <<startVars, pc, pipe, loopVars, fdtab, s_fdCommand, origin, debugs,
                 requestVars, sendVars, unsol>>

\* Somebody connects to the debug port.
DebugOrder ==
  /\ debugs = 0
  /\ \E r \in LocalRequests : req[r] = "unsent"
  /\ debugs' = 1
  /\ UNCHANGED <<startVars, pc, pipe, loopVars, fdtab, s_fdCommand, conn, origin,
                 requestVars, sendVars, unsol>>

-----------------------------------------------------------------------------

Register == RegisterAdds \/ RegisterTriggers

EventLoop ==
  \/ MakePipe \/ AddWakeup \/ CopyReadFds \/ Select \/ SelectFails
  \/ ProcessReadReadies \/ NothingPending \/ ProcessWakeupCallback
  \/ Accept \/ AcceptFails \/ Reject \/ NewConnection \/ LoopHasSent
  \/ \E r \in Requests : ProcessCommand(r)
  \/ CommandsDone \/ CommandsClose \/ CommandsReset \/ CommandsCancel
  \/ \E r \in LocalRequests : DebugIssues(r) \/ DebugCloses(r)

Send(s) ==
  \/ CheckCancelled(s) \/ ReadFd(s) \/ CheckFd(s) \/ LockWrite(s) \/ Write(s) \/ WriteFails(s)

Client ==
  \/ \E c \in Conns : Connect(c) \/ Disconnect(c) \/ \E r \in Requests : SendRequest(c, r)
  \/ DebugOrder

Vendor ==
  \E th \in Threads : OnUnsolicitedResponse(th) \/ \E r \in AllRequests : Complete(th, r)

Next == Register \/ EventLoop \/ (\E s \in Senders : Send(s)) \/ Client \/ Vendor

Spec == Init /\ [][Next]_vars

\* Threads that are in a call run; nobody has to make one.
FairSpec ==
  /\ Spec
  /\ WF_vars(Register) /\ WF_vars(EventLoop)
  /\ \A s \in Senders : SF_vars(Send(s))

-----------------------------------------------------------------------------

Answers(c) == {i \in 1..Len(stream[c]) : stream[c][i][1] = "data"}

TypeOK ==
  /\ watch_table \in [1..MAX_FD_EVENTS -> Events \union {NULL}]
  /\ rfds \subseteq Events
  /\ pending \in [1..MAX_FD_EVENTS -> Events \union {NULL}]
  /\ fdtab \in [Fds -> Conns \union {0}]
  /\ s_fdCommand \in Fds \union {NoFd} /\ cmdFd \in Fds \union {NoFd}
  /\ pendingRequests \subseteq AllRequests /\ cancelled \subseteq AllRequests
  /\ writer \in Senders \union {NULL}
  /\ debugs \in 0..1 /\ unsol \in 0..MaxUnsol

\* "non-persistent so we can accept only one connection at a time": while a
\* command connection is open nobody listens, and no second one is open.
OneConnection ==
  /\ Cardinality({f \in Fds : fdtab[f] # 0}) <= 1
  /\ s_fdCommand # NoFd /\ fdtab[s_fdCommand] # 0 /\ pc # "reset" =>
       ~Watched("listen")
  /\ \A e \in Events : Cardinality({i \in 1..MAX_FD_EVENTS : watch_table[i] = e}) <= 1

\* A request is answered at most once, and one that was marked cancelled when
\* its connection closed, or that the debug port issued, not at all.
AnsweredAtMostOnce ==
  \A r \in AllRequests :
    LET answers == UNION {{<<c, i>> : i \in {k \in Answers(c) : stream[c][k][3] = r}} : c \in Conns}
        never == LocalRequests \union pendingRequests \union cancelled
    IN Cardinality(answers) <= (IF r \in never THEN 0 ELSE 1)

\* Whatever fails, both hold.
ConnectionSound == AnsweredAtMostOnce /\ OneConnection

\* An answer goes to the connection that sent the request.
AnswersGoHome ==
  \A c \in Conns : \A i \in Answers(c) :
    stream[c][i][3] \in Requests => origin[stream[c][i][3]] = c

\* What a client reads is whole messages: every length is followed by the data
\* of the same message, whoever else writes.
Framed ==
  \A c \in Conns : \A i \in 1..Len(stream[c]) :
    LET part == stream[c][i]
    IN IF i % 2 = 1 THEN part[1] = "header"
       ELSE part = <<"data", stream[c][i - 1][2], stream[c][i - 1][3]>>

\* assert (fd == s_fdCommand) in processCommandsCallback() and
\* assert (s_fdCommand < 0) in listenCallback()
AssertsHold ==
  /\ Firing("commands") => cmdFd = s_fdCommand
  /\ Firing("listen") => s_fdCommand = NoFd

\* The event loop does not end: it never waits on a descriptor that is closed.
LoopGoesOn == pc # "dead"

\* Clients go away only while nothing is being sent, and nobody else closes their
\* connections.
OnlyClientsClose == Faults \intersect {"write", "reject", "debug"} = {}

\* Then answers go to the connection that asked, messages are whole, the loop goes on
\* and its assertions hold.
AnswersGoHomeWhenQuiet ==
  OnlyClientsClose => AnswersGoHome /\ Framed /\ LoopGoesOn /\ AssertsHold

\* "start listening for new connections again": whoever connects is accepted,
\* also when the one before has gone away, and when the loop and RIL_register()
\* start in any order.
ConnectionsAccepted ==
  \A c \in Conns : conn[c] = "backlog" /\ (\A d \in Conns : conn[d] # "open") ~> conn[c] # "backlog"
=============================================================================

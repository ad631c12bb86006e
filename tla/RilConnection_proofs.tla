------------------------ MODULE RilConnection_proofs ------------------------
(***************************************************************************)
(* The command connection of rild, for any connections, requests, threads  *)
(* and faults: a request is answered at most once (AInv), and one          *)
(* connection is open at a time (LInv, on who has the listening socket).   *)
(* Where clients go away only while nothing is being sent, QInv adds that  *)
(* s_fdCommand, the event that is watched and every sender's descriptor    *)
(* mean the same connection, from which the rest follows: answers reach    *)
(* who asked, messages are whole, the assertions hold.                     *)
(***************************************************************************)
EXTENDS RilConnection, TLAPS

\* Names are distinct, and connections are numbered from 1.
Names ==
  /\ Conns \subseteq Nat \ {0} /\ MaxUnsol \in Nat
  /\ Loop \notin Threads /\ NULL \notin Senders
  /\ NULL \notin AllRequests /\ Unsolicited \notin AllRequests
  /\ Requests \intersect LocalRequests = {}

Slots == 1..MAX_FD_EVENTS

Table == [Slots -> Events \union {NULL}]

Types ==
  /\ main \in {"listen", "trigger_listen", "debug", "trigger_debug", "done"}
  /\ pc \in {"pipe", "wakeup", "copy", "select", "dead", "readies", "fire", "creds", "sending",
             "reset", "cancel"}
  /\ watch_table \in Table /\ pending \in Table
  /\ rfds \subseteq Events
  /\ fdtab \in [Fds -> Conns \union {0}]
  /\ s_fdCommand \in Fds \union {NoFd} /\ cmdFd \in Fds \union {NoFd}
  /\ conn \in [Conns -> {"none", "backlog", "open", "eof", "over"}]
  /\ origin \in [Requests -> Conns \union {0}]
  /\ writer \in Senders \union {NULL}
  /\ fd \in [Senders -> Fds \union {NoFd}]
  /\ debugs \in 0..1 /\ unsol \in 0..MaxUnsol

-----------------------------------------------------------------------------
(* Requests and answers *)

Part == {"header", "data"} \X Senders \X (AllRequests \union {Unsolicited, NULL})

\* The part k of what connection c reads is the answer to r.
Answer(c, k, r) ==
  k \in 1..Len(stream[c]) /\ stream[c][k][1] = "data" /\ stream[c][k][3] = r

\* A sender that has r: nobody else has it, and it was not answered.
Carried(s, r) ==
  /\ r \notin LocalRequests /\ req[r] = "done"
  /\ r \in cancelled => spc[s] = "check"
  /\ \A u \in Senders : job[u] = r => u = s
  /\ \A c \in Conns : \A k \in Nat : ~Answer(c, k, r)

AInv ==
  /\ req \in [AllRequests -> {"unsent", "sent", "vendor", "done", "lost"}]
  /\ pendingRequests \subseteq AllRequests /\ cancelled \subseteq AllRequests
  /\ spc \in [Senders -> {"idle", "check", "readfd", "checkfd", "lock", "header", "data"}]
  /\ job \in [Senders -> AllRequests \union {Unsolicited, NULL}]
  /\ stream \in [Conns -> Seq(Part)]
  /\ \A r \in pendingRequests : req[r] \in {"vendor", "lost"}
  /\ \A r \in cancelled : req[r] \in {"vendor", "lost", "done"}
  /\ \A s \in Senders : \A r \in AllRequests : job[s] = r => Carried(s, r)
  /\ \A r \in AllRequests : \A c \in Conns : \A k \in Nat : Answer(c, k, r) =>
       /\ req[r] = "done" /\ r \notin LocalRequests \union cancelled
       /\ \A d \in Conns : \A l \in Nat : Answer(d, l, r) => c = d /\ k = l

-----------------------------------------------------------------------------
(* The event loop and the one connection *)

In(table, e) == \E i \in Slots : table[i] = e

Once(table) == \A i, j \in Slots : table[i] = table[j] /\ table[i] # NULL => i = j

Closed == \A f \in Fds : fdtab[f] = 0

Waiting == \E c \in Conns : conn[c] = "backlog"

\* Who has the listening socket: RIL_register() before it adds it, the table, the list of
\* pending events, or the connection that was accepted and is watched.
LInv ==
  /\ Once(watch_table) /\ Once(pending)
  /\ ~In(watch_table, "wakeup") \/ pc \notin {"pipe", "wakeup"}
  /\ main = "listen" =>
       /\ \A e \in {"listen", "debug", "commands"} : ~In(watch_table, e)
       /\ \A e \in {"listen", "debug", "commands"} : ~In(pending, e)
       /\ pc \notin {"creds", "sending", "reset", "cancel"} /\ Closed
  /\ main \in {"trigger_listen", "debug"} => ~In(watch_table, "debug")
  /\ In(watch_table, "listen") =>
       /\ ~In(pending, "listen") /\ ~In(watch_table, "commands")
       /\ pc \notin {"creds", "sending", "reset"} /\ Closed
  /\ In(pending, "listen") =>
       /\ ~In(pending, "commands")
       /\ pc \in {"fire", "creds", "sending"}
       /\ pc \in {"fire", "creds"} => ~In(watch_table, "commands")
       /\ pc = "fire" => Closed /\ Waiting
  /\ In(pending, "commands") => In(watch_table, "commands") \/ pc = "cancel"
  /\ pc \in {"creds", "sending"} => In(pending, "listen")
  /\ pc \in {"reset", "cancel"} => In(pending, "commands")
  /\ \A e \in Events : In(pending, e) => pc \in {"fire", "creds", "sending", "reset", "cancel"}
  /\ \A f \in Fds : fdtab[f] # 0 =>
       f = s_fdCommand /\ pc \notin {"reset", "cancel"} /\ conn[fdtab[f]] \in {"open", "eof"}
  /\ pc = "readies" => ("listen" \in rfds => Waiting) /\ ("debug" \in rfds => debugs = 1)
  /\ In(pending, "debug") => debugs = 1

-----------------------------------------------------------------------------
(* Clients that go away only while nothing is being sent *)

\* The connection that was accepted and is not closed, or 0.
Current == Behind(s_fdCommand)

\* What the event loop holds is one thing with what it watches, and nobody is sending
\* when the connection ends.
Calm ==
  /\ pc # "dead"
  /\ s_fdCommand # NoFd <=> pc = "creds" \/ In(watch_table, "commands")
  /\ In(watch_table, "commands") => cmdFd = s_fdCommand
  /\ In(watch_table, "commands") /\ pc # "reset" => Current # 0
  /\ pc = "creds" => Current # 0 /\ conn[Current] = "open"
  /\ pc = "select" => \A e \in rfds : In(watch_table, e)
  /\ \A c \in Conns : conn[c] \in {"open", "eof"} => c = Current
  /\ pc \in {"reset", "cancel"} \/ (\E c \in Conns : conn[c] = "eof") =>
        \A s \in Senders : spc[s] = "idle"
  /\ spc[Loop] # "idle" => pc = "sending"

\* A sender has the descriptor of the current connection or none; the holder of the mutex
\* has written the length when it is about to write the data; and an answer that will be
\* sent belongs to the current connection.
Sender(s) ==
  /\ spc[s] \in {"checkfd", "lock", "header", "data"} /\ fd[s] # NoFd =>
       fd[s] = s_fdCommand /\ Current # 0
  /\ spc[s] \in {"header", "data"} => writer = s
  /\ spc[s] = "idle" <=> job[s] = NULL
  /\ spc[s] = "data" =>
       /\ fd[s] # NoFd
       /\ Len(stream[Current]) % 2 = 1
       /\ stream[Current][Len(stream[Current])] = <<"header", s, job[s]>>
  /\ job[s] \in Requests /\ job[s] \notin cancelled => origin[job[s]] = Current /\ Current # 0

\* A length without its data is one that a sender is about to complete.
Halves ==
  \A c \in Conns : Len(stream[c]) % 2 = 1 => c = Current /\ \E s \in Senders : spc[s] = "data"

\* A request that may still be answered belongs to the current connection.
Owed ==
  \A r \in Requests :
    /\ req[r] = "sent" => origin[r] = Current /\ Current # 0
    /\ req[r] = "vendor" => r \in pendingRequests
    /\ req[r] = "vendor" /\ r \notin cancelled /\ pc \notin {"reset", "cancel"} =>
         origin[r] = Current /\ Current # 0

Messages == Halves /\ Framed /\ AnswersGoHome /\ \A s \in Senders : Sender(s)

QInv == Calm /\ Owed /\ Messages

\* How the current connection changes: not at all, by accept(), or by the end of one
\* while all senders are idle.
Stays == s_fdCommand' = s_fdCommand /\ Current' = Current

Opens == Accept /\ s_fdCommand = NoFd /\ Current = 0

Ends ==
  /\ CommandsClose \/ CommandsReset
  /\ \A s \in Senders : spc[s] = "idle"
  /\ Current' = 0
  /\ \A r \in Requests : req[r] = "sent" => origin[r] # Current

-----------------------------------------------------------------------------
(* A request is answered at most once *)

\* Steps that touch neither requests nor senders.
LEMMA AnswersRest ==
  ASSUME AInv, UNCHANGED <<req, pendingRequests, cancelled, spc, job, stream>>
  PROVE  AInv'
BY DEF AInv, Carried, Answer, Senders, AllRequests, Part

\* A sender goes on with what it has, or takes up or ends something that is no answer.
LEMMA AnswersSend ==
  ASSUME AInv, Names, UNCHANGED <<req, pendingRequests, cancelled, stream>>,
         NEW s \in Senders, NEW p \in {"idle", "check", "readfd", "checkfd", "lock", "header", "data"},
         NEW j \in AllRequests \union {Unsolicited, NULL},
         spc' = [spc EXCEPT ![s] = p], job' = [job EXCEPT ![s] = j],
         j \in AllRequests => j = job[s] /\ (j \in cancelled => p = "check")
  PROVE  AInv'
<1>1. spc' \in [Senders -> {"idle", "check", "readfd", "checkfd", "lock", "header", "data"}]
  BY DEF AInv
<1>2. job' \in [Senders -> AllRequests \union {Unsolicited, NULL}]
  BY DEF AInv
<1>3. \A u \in Senders : job'[u] \in AllRequests => job'[u] = job[u]
  BY DEF AInv
<1>4. \A u \in Senders : u # s => spc'[u] = spc[u]
  BY DEF AInv
<1>5. spc'[s] = p /\ job'[s] = j
  BY DEF AInv
<1>6. \A c, k, r : Answer(c, k, r)' <=> Answer(c, k, r)
  BY DEF Answer
<1>7. ASSUME NEW u \in Senders, NEW r \in AllRequests, job'[u] = r
      PROVE  Carried(u, r)'
  <2>1. Carried(u, r) /\ job[u] = r
    BY <1>3, <1>7 DEF AInv
  <2>2. \A w \in Senders : job'[w] = r => w = u
    BY <1>3, <2>1 DEF Carried
  <2>3. r \in cancelled => spc'[u] = "check"
    BY <1>4, <1>5, <1>7, <2>1 DEF Carried
  <2> QED
    BY <1>6, <2>1, <2>2, <2>3 DEF Carried
<1>8. \A r \in AllRequests : \A c \in Conns : \A k \in Nat : Answer(c, k, r)' =>
       /\ req'[r] = "done" /\ r \notin LocalRequests \union cancelled'
       /\ \A d \in Conns : \A l \in Nat : Answer(d, l, r)' => c = d /\ k = l
  BY <1>6 DEF AInv
<1> QED
  BY <1>1, <1>2, <1>7, <1>8 DEF AInv

\* A request that nobody has answered is sent, dispatched or dropped.
LEMMA AnswersIssue ==
  ASSUME AInv, UNCHANGED <<cancelled, spc, job, stream>>,
         NEW r \in AllRequests, NEW v \in {"sent", "vendor", "lost"},
         req[r] \in {"unsent", "sent"}, req' = [req EXCEPT ![r] = v],
         pendingRequests' = pendingRequests
           \/ (v # "sent" /\ pendingRequests' = pendingRequests \union {r})
  PROVE  AInv'
<1>1. req' \in [AllRequests -> {"unsent", "sent", "vendor", "done", "lost"}]
  BY DEF AInv
<1>2. \A q \in AllRequests : q # r => req'[q] = req[q]
  BY DEF AInv
<1>3. req'[r] = v
  BY DEF AInv
<1>4. \A c, k, q : Answer(c, k, q)' <=> Answer(c, k, q)
  BY DEF Answer
<1>5. r \notin cancelled /\ r \notin pendingRequests
  BY DEF AInv
<1>6. \A s \in Senders : job[s] # r
  BY DEF AInv, Carried
<1>7. \A c \in Conns : \A k \in Nat : ~Answer(c, k, r)
  BY DEF AInv
<1>8. pendingRequests' \subseteq AllRequests /\ \A q \in pendingRequests' : req'[q] \in {"vendor", "lost"}
  BY <1>2, <1>3, <1>5 DEF AInv
<1>9. \A q \in cancelled' : req'[q] \in {"vendor", "lost", "done"}
  BY <1>2, <1>5 DEF AInv
<1>10. \A s \in Senders : \A q \in AllRequests : job'[s] = q => Carried(s, q)'
  BY <1>2, <1>4, <1>6 DEF AInv, Carried
<1>11. \A q \in AllRequests : \A c \in Conns : \A k \in Nat : Answer(c, k, q)' =>
       /\ req'[q] = "done" /\ q \notin LocalRequests \union cancelled'
       /\ \A d \in Conns : \A l \in Nat : Answer(d, l, q)' => c = d /\ k = l
  BY <1>2, <1>4, <1>7 DEF AInv
<1> QED
  BY <1>1, <1>8, <1>9, <1>10, <1>11 DEF AInv

\* onCommandsSocketClosed(): what is pending was not answered, and nobody has it.
LEMMA AnswersCancel ==
  ASSUME AInv, OnCommandsSocketClosed, UNCHANGED <<req, pendingRequests, spc, job, stream>>
  PROVE  AInv'
<1>1. cancelled' = cancelled \union pendingRequests /\ cancelled' \subseteq AllRequests
  BY DEF AInv, OnCommandsSocketClosed
<1>2. \A c, k, q : Answer(c, k, q)' <=> Answer(c, k, q)
  BY DEF Answer
<1>3. \A r \in cancelled' : req[r] \in {"vendor", "lost", "done"}
  BY <1>1 DEF AInv
<1>4. \A r \in pendingRequests : req[r] # "done"
  BY DEF AInv
<1>5. \A s \in Senders : \A r \in AllRequests : job'[s] = r => Carried(s, r)'
  BY <1>1, <1>2, <1>4 DEF AInv, Carried
<1>6. \A q \in AllRequests : \A c \in Conns : \A k \in Nat : Answer(c, k, q)' =>
       /\ req'[q] = "done" /\ q \notin LocalRequests \union cancelled'
       /\ \A d \in Conns : \A l \in Nat : Answer(d, l, q)' => c = d /\ k = l
  BY <1>1, <1>2, <1>4 DEF AInv
<1> QED
  BY <1>1, <1>3, <1>5, <1>6 DEF AInv

\* A thread takes the request out of the list: from now on it alone has it.
LEMMA AnswersComplete ==
  ASSUME AInv, NEW th \in Threads, NEW r \in AllRequests, Complete(th, r)
  PROVE  AInv'
<1>1. /\ req[r] = "vendor" /\ req' = [req EXCEPT ![r] = "done"]
      /\ pendingRequests' = pendingRequests \ {r} /\ UNCHANGED <<cancelled, stream>>
  BY DEF Complete
<1>2. /\ req' \in [AllRequests -> {"unsent", "sent", "vendor", "done", "lost"}]
      /\ req'[r] = "done" /\ \A q \in AllRequests : q # r => req'[q] = req[q]
  BY <1>1 DEF AInv
<1>3. \A c, k, q : Answer(c, k, q)' <=> Answer(c, k, q)
  BY <1>1 DEF Answer
<1>4. \A s \in Senders : job[s] # r
  BY <1>1 DEF AInv, Carried
<1>5. \A c \in Conns : \A k \in Nat : ~Answer(c, k, r)
  BY <1>1 DEF AInv
<1>6. /\ pendingRequests' \subseteq AllRequests
      /\ \A q \in pendingRequests' : req'[q] \in {"vendor", "lost"}
      /\ \A q \in cancelled' : req'[q] \in {"vendor", "lost", "done"}
  BY <1>1, <1>2 DEF AInv
<1>7. \A q \in AllRequests : \A c \in Conns : \A k \in Nat : Answer(c, k, q)' =>
       /\ req'[q] = "done" /\ q \notin LocalRequests \union cancelled'
       /\ \A d \in Conns : \A l \in Nat : Answer(d, l, q)' => c = d /\ k = l
  BY <1>1, <1>2, <1>3, <1>5 DEF AInv
<1>8. \A s \in Senders : \A q \in AllRequests : job[s] = q =>
       /\ q # r /\ q \notin LocalRequests /\ req'[q] = "done"
       /\ q \in cancelled' => spc[s] = "check"
       /\ \A u \in Senders : job[u] = q => u = s
       /\ \A c \in Conns : \A k \in Nat : ~Answer(c, k, q)'
  BY <1>1, <1>2, <1>3, <1>4 DEF AInv, Carried
<1>9. CASE r \in LocalRequests
  <2>1. spc' = spc /\ job' = job
    BY <1>9 DEF Complete
  <2>2. \A s \in Senders : \A q \in AllRequests : job'[s] = q => Carried(s, q)'
    BY <1>8, <2>1 DEF Carried
  <2> QED
    BY <1>1, <1>2, <1>6, <1>7, <2>1, <2>2 DEF AInv
<1>10. CASE r \notin LocalRequests
  <2>1. spc' = [spc EXCEPT ![th] = "check"] /\ job' = [job EXCEPT ![th] = r] /\ th \in Senders
    BY <1>10 DEF Complete, Senders
  <2>2. /\ spc' \in [Senders -> {"idle", "check", "readfd", "checkfd", "lock", "header", "data"}]
        /\ job' \in [Senders -> AllRequests \union {Unsolicited, NULL}]
        /\ spc'[th] = "check" /\ job'[th] = r
        /\ \A u \in Senders : u # th => spc'[u] = spc[u] /\ job'[u] = job[u]
    BY <2>1 DEF AInv
  <2>3. ASSUME NEW s \in Senders, NEW q \in AllRequests, job'[s] = q
        PROVE  Carried(s, q)'
    <3>1. CASE s = th
      <4>1. q = r /\ \A u \in Senders : job'[u] = r => u = th
        BY <1>4, <2>2, <2>3, <3>1
      <4>2. \A c \in Conns : \A k \in Nat : ~Answer(c, k, r)'
        BY <1>3, <1>5
      <4> QED
        BY <1>2, <1>10, <2>2, <3>1, <4>1, <4>2 DEF Carried
    <3>2. CASE s # th
      <4>1. job[s] = q /\ spc'[s] = spc[s]
        BY <2>2, <2>3, <3>2
      <4>2. \A u \in Senders : job'[u] = q => u = s
        BY <1>8, <2>2, <4>1
      <4> QED
        BY <1>8, <4>1, <4>2 DEF Carried
    <3> QED
      BY <3>1, <3>2
  <2> QED
    BY <1>1, <1>2, <1>6, <1>7, <2>2, <2>3 DEF AInv
<1> QED
  BY <1>9, <1>10

\* What a part that is added to a stream changes.
LEMMA Written ==
  ASSUME stream \in [Conns -> Seq(Part)], NEW p \in Part, NEW x,
         stream' = [stream EXCEPT ![x] = Append(@, p)]
  PROVE  /\ stream' \in [Conns -> Seq(Part)]
         /\ \A c \in Conns : c # x => stream'[c] = stream[c]
         /\ \A c \in Conns : c = x =>
              /\ Len(stream'[c]) = Len(stream[c]) + 1
              /\ stream'[c][Len(stream[c]) + 1] = p
              /\ \A k \in 1..Len(stream[c]) : stream'[c][k] = stream[c][k]
         /\ \A c \in Conns : Len(stream[c]) \in Nat
<1>1. CASE x \in Conns
  <2>1. stream[x] \in Seq(Part)
    BY <1>1
  <2>2. Append(stream[x], p) \in Seq(Part)
    BY <2>1
  <2>3. stream' \in [Conns -> Seq(Part)] /\ stream'[x] = Append(stream[x], p)
    BY <1>1, <2>2
  <2>4. \A c \in Conns : c # x => stream'[c] = stream[c]
    BY <1>1
  <2>5. /\ Len(Append(stream[x], p)) = Len(stream[x]) + 1
        /\ Append(stream[x], p)[Len(stream[x]) + 1] = p
        /\ \A k \in 1..Len(stream[x]) : Append(stream[x], p)[k] = stream[x][k]
    BY <2>1
  <2> QED
    BY <2>3, <2>4, <2>5
<1>2. CASE x \notin Conns
  <2>1. stream' = stream
    BY <1>2
  <2>2. \A c \in Conns : c # x
    BY <1>2
  <2>3. \A c \in Conns : stream[c] \in Seq(Part) /\ Len(stream[c]) \in Nat
    OBVIOUS
  <2> QED
    BY <2>1, <2>2, <2>3, Zenon
<1> QED
  BY <1>1, <1>2

\* The length is no answer; the data is the only one, and the sender is done with it.
LEMMA AnswersWrite ==
  ASSUME AInv, Names, NEW s \in Senders, Write(s)
  PROVE  AInv'
<1> DEFINE x == Behind(fd[s])
           p == <<spc[s], s, job[s]>>
<1>1. spc[s] \in {"header", "data"} /\ stream' = [stream EXCEPT ![x] = Append(@, p)]
  BY DEF Write
<1>2. p \in Part /\ p[1] = spc[s] /\ p[3] = job[s]
  BY <1>1 DEF AInv, Part
<1> HIDE DEF x, p
<1>3. UNCHANGED <<req, pendingRequests, cancelled>>
  BY DEF Write, requestVars
<1>4. /\ stream' \in [Conns -> Seq(Part)]
      /\ \A c \in Conns : c # x => stream'[c] = stream[c]
      /\ \A c \in Conns : c = x =>
              /\ Len(stream'[c]) = Len(stream[c]) + 1
              /\ stream'[c][Len(stream[c]) + 1] = p
              /\ \A k \in 1..Len(stream[c]) : stream'[c][k] = stream[c][k]
      /\ \A c \in Conns : Len(stream[c]) \in Nat
  BY <1>1, <1>2, Written, Zenon DEF AInv
<1>5. ASSUME NEW c \in Conns, NEW k \in Nat, NEW r
      PROVE  Answer(c, k, r)' =>
               \/ Answer(c, k, r)
               \/ c = x /\ k = Len(stream[c]) + 1 /\ spc[s] = "data" /\ job[s] = r
  <2>1. CASE c # x
    BY <1>4, <2>1 DEF Answer
  <2>2. CASE c = x
    <3> SUFFICES ASSUME k \in 1..Len(stream'[c]), stream'[c][k][1] = "data", stream'[c][k][3] = r
                 PROVE  \/ Answer(c, k, r)
                        \/ k = Len(stream[c]) + 1 /\ spc[s] = "data" /\ job[s] = r
      BY <2>2 DEF Answer
    <3>1. k \in 1..Len(stream[c]) \/ k = Len(stream[c]) + 1
      BY <1>4, <2>2
    <3> QED
      BY <1>2, <1>4, <2>2, <3>1 DEF Answer
  <2> QED
    BY <2>1, <2>2
<1>6. spc[s] = "header" => \A c \in Conns : \A k \in Nat : \A r \in AllRequests :
        Answer(c, k, r)' => Answer(c, k, r)
  BY <1>5
<1>7. CASE spc[s] = "header"
  <2>1. spc' = [spc EXCEPT ![s] = "data"] /\ job' = job
    BY <1>7 DEF Write
  <2>2. /\ spc' \in [Senders -> {"idle", "check", "readfd", "checkfd", "lock", "header", "data"}]
        /\ spc'[s] = "data" /\ \A u \in Senders : u # s => spc'[u] = spc[u]
    BY <2>1 DEF AInv
  <2>3. \A u \in Senders : \A r \in AllRequests : job'[u] = r => Carried(u, r)'
    BY <1>3, <1>6, <1>7, <2>1, <2>2 DEF AInv, Carried
  <2>4. \A r \in AllRequests : \A c \in Conns : \A k \in Nat : Answer(c, k, r)' =>
         /\ req'[r] = "done" /\ r \notin LocalRequests \union cancelled'
         /\ \A d \in Conns : \A l \in Nat : Answer(d, l, r)' => c = d /\ k = l
    BY <1>3, <1>6, <1>7 DEF AInv
  <2> QED
    BY <1>3, <1>4, <2>1, <2>2, <2>3, <2>4 DEF AInv
<1>8. CASE spc[s] = "data"
  <2>1. spc' = [spc EXCEPT ![s] = "idle"] /\ job' = [job EXCEPT ![s] = NULL]
    BY <1>8 DEF Write, Return
  <2>2. /\ spc' \in [Senders -> {"idle", "check", "readfd", "checkfd", "lock", "header", "data"}]
        /\ job' \in [Senders -> AllRequests \union {Unsolicited, NULL}]
        /\ job'[s] = NULL /\ \A u \in Senders : u # s => spc'[u] = spc[u] /\ job'[u] = job[u]
    BY <2>1 DEF AInv
  <2>3. job[s] \in AllRequests => Carried(s, job[s])
    BY DEF AInv
  <2>4. ASSUME NEW u \in Senders, NEW r \in AllRequests, job'[u] = r
        PROVE  Carried(u, r)'
    <3>1. u # s /\ job[u] = r /\ spc'[u] = spc[u] /\ Carried(u, r)
      BY <2>2, <2>4 DEF AInv, Names
    <3>2. job[s] # r
      BY <3>1 DEF Carried
    <3>3. \A c \in Conns : \A k \in Nat : ~Answer(c, k, r)'
      BY <1>5, <3>1, <3>2 DEF Carried
    <3>4. \A w \in Senders : job'[w] = r => w = u
      BY <2>2, <3>1 DEF Carried, Names
    <3> QED
      BY <1>3, <3>1, <3>3, <3>4 DEF Carried
  <2>5. ASSUME NEW r \in AllRequests, NEW c \in Conns, NEW k \in Nat, Answer(c, k, r)'
        PROVE  /\ req'[r] = "done" /\ r \notin LocalRequests \union cancelled'
               /\ \A d \in Conns : \A l \in Nat : Answer(d, l, r)' => c = d /\ k = l
    <3>1. CASE job[s] = r
      <4>1. \A d \in Conns : \A l \in Nat : Answer(d, l, r)' => d = x /\ l = Len(stream[d]) + 1
        BY <1>5, <2>3, <3>1 DEF Carried
      <4> QED
        BY <1>3, <1>8, <2>3, <2>5, <3>1, <4>1 DEF Carried
    <3>2. CASE job[s] # r
      <4>1. \A d \in Conns : \A l \in Nat : Answer(d, l, r)' => Answer(d, l, r)
        BY <1>5, <3>2
      <4> QED
        BY <1>3, <2>5, <4>1 DEF AInv
    <3> QED
      BY <3>1, <3>2
  <2> QED
    BY <1>3, <1>4, <2>2, <2>4, <2>5 DEF AInv
<1> QED
  BY <1>1, <1>7, <1>8

\* A sender keeps what it has while it goes on to send it.
LEMMA AnswersGoOn ==
  ASSUME AInv, Names, NEW s \in Senders, NEW p \in {"readfd", "checkfd", "lock", "header"},
         spc[s] = "check" => job[s] \notin cancelled,
         UNCHANGED <<req, pendingRequests, cancelled, stream, job>>,
         spc' = [spc EXCEPT ![s] = p]
  PROVE  AInv'
<1>1. job[s] \in AllRequests \union {Unsolicited, NULL} /\ job' = [job EXCEPT ![s] = job[s]]
  BY DEF AInv
<1>2. job[s] \in AllRequests => job[s] \notin cancelled
  BY DEF AInv, Carried
<1> QED
  BY <1>1, <1>2, AnswersSend, Zenon

\* A sender returns.
LEMMA AnswersReturn ==
  ASSUME AInv, Names, NEW s \in Senders, Return(s),
         UNCHANGED <<req, pendingRequests, cancelled, stream>>
  PROVE  AInv'
<1>1. spc' = [spc EXCEPT ![s] = "idle"] /\ job' = [job EXCEPT ![s] = NULL] /\ NULL \notin AllRequests
  BY DEF Return, Names
<1> QED
  BY <1>1, AnswersSend, Zenon

\* Every step keeps a request answered at most once.
LEMMA AnswersStep ==
  ASSUME AInv, Names, [Next]_vars
  PROVE  AInv'
<1>1. CASE \/ RegisterAdds \/ RegisterTriggers \/ MakePipe \/ AddWakeup \/ CopyReadFds
           \/ Select \/ SelectFails \/ ProcessReadReadies \/ NothingPending
           \/ ProcessWakeupCallback \/ Accept \/ AcceptFails \/ LoopHasSent \/ CommandsDone
           \/ CommandsClose \/ CommandsReset \/ DebugOrder
           \/ \E c \in Conns : Connect(c) \/ Disconnect(c)
  <2>1. UNCHANGED <<req, pendingRequests, cancelled, spc, job, stream>>
    BY <1>1, Zenon DEF RegisterAdds, RegisterTriggers, MakePipe, AddWakeup, CopyReadFds, Select,
                SelectFails, ProcessReadReadies, NothingPending, ProcessWakeupCallback, Accept,
                AcceptFails, LoopHasSent, CommandsDone, CommandsClose, CommandsReset,
                DebugOrder, Connect, Disconnect, requestVars, sendVars
  <2> QED
    BY <2>1, AnswersRest
<1>2. CASE Reject \/ CommandsCancel
  BY <1>2, AnswersCancel DEF Reject, CommandsCancel, sendVars
<1>3. CASE NewConnection
  <2>1. Loop \in Senders /\ Unsolicited \notin AllRequests
    BY DEF Senders, Names
  <2> QED
    BY <1>3, <2>1, AnswersSend, Zenon DEF NewConnection, requestVars
<1>4. ASSUME NEW r \in Requests, ProcessCommand(r) PROVE AInv'
  <2>1. r \in AllRequests
    BY DEF AllRequests
  <2> QED
    BY <1>4, <2>1, AnswersIssue DEF ProcessCommand, sendVars
<1>5. ASSUME NEW r \in LocalRequests, DebugIssues(r) \/ DebugCloses(r) PROVE AInv'
  <2>1. r \in AllRequests
    BY DEF AllRequests
  <2> QED
    BY <1>5, <2>1, AnswersIssue DEF DebugIssues, DebugCloses, sendVars
<1>6. ASSUME NEW c \in Conns, NEW r \in Requests, SendRequest(c, r) PROVE AInv'
  <2>1. r \in AllRequests
    BY DEF AllRequests
  <2> QED
    BY <1>6, <2>1, AnswersIssue, Zenon DEF SendRequest, sendVars
<1>7. ASSUME NEW s \in Senders, CheckCancelled(s) PROVE AInv'
  <2>1. UNCHANGED <<req, pendingRequests, cancelled, stream>>
    BY <1>7 DEF CheckCancelled, requestVars
  <2>2. CASE job[s] \in cancelled
    BY <1>7, <2>1, <2>2, AnswersReturn DEF CheckCancelled
  <2>3. CASE job[s] \notin cancelled
    BY <1>7, <2>1, <2>3, AnswersGoOn DEF CheckCancelled
  <2> QED
    BY <2>2, <2>3
<1>8. ASSUME NEW s \in Senders, ReadFd(s) PROVE AInv'
  BY <1>8, AnswersGoOn, Zenon DEF ReadFd, requestVars
<1>9. ASSUME NEW s \in Senders, CheckFd(s) PROVE AInv'
  <2>1. UNCHANGED <<req, pendingRequests, cancelled, stream>>
    BY <1>9 DEF CheckFd, requestVars
  <2>2. CASE s_fdCommand = NoFd
    BY <1>9, <2>1, <2>2, AnswersReturn DEF CheckFd
  <2>3. CASE s_fdCommand # NoFd
    BY <1>9, <2>1, <2>3, AnswersGoOn DEF CheckFd
  <2> QED
    BY <2>2, <2>3
<1>10. ASSUME NEW s \in Senders, LockWrite(s) PROVE AInv'
  BY <1>10, AnswersGoOn, Zenon DEF LockWrite, requestVars
<1>11. ASSUME NEW s \in Senders, Write(s) PROVE AInv'
  BY <1>11, AnswersWrite
<1>12. ASSUME NEW s \in Senders, WriteFails(s) PROVE AInv'
  BY <1>12, AnswersReturn DEF WriteFails, requestVars
<1>13. ASSUME NEW th \in Threads, OnUnsolicitedResponse(th) PROVE AInv'
  <2>1. th \in Senders /\ Unsolicited \notin AllRequests
    BY DEF Senders, Names
  <2> QED
    BY <1>13, <2>1, AnswersSend, Zenon DEF OnUnsolicitedResponse, requestVars
<1>14. ASSUME NEW th \in Threads, NEW r \in AllRequests, Complete(th, r) PROVE AInv'
  BY <1>14, AnswersComplete
<1>15. CASE UNCHANGED vars
  BY <1>15, AnswersRest DEF vars
<1> QED
  BY <1>1, <1>2, <1>3, <1>4, <1>5, <1>6, <1>7, <1>8, <1>9, <1>10, <1>11, <1>12, <1>13, <1>14,
     <1>15 DEF Next, Register, EventLoop, Send, Client, Vendor

-----------------------------------------------------------------------------
(* Whole messages, and answers to whoever asked *)

\* No descriptor, no connection.
LEMMA CurrentIs ==
  /\ s_fdCommand \in Fds => Current = fdtab[s_fdCommand]
  /\ s_fdCommand = NoFd => Current = 0
BY DEF Current, Behind, Fds, NoFd

\* Steps of the loop that no sender sees
LEMMA MessagesRest ==
  ASSUME Messages, Stays, UNCHANGED <<spc, job, fd, writer, stream, origin>>,
         cancelled \subseteq cancelled'
  PROVE  Messages'
<1>1. \A s \in Senders : Sender(s)'
  BY Zenon DEF Messages, Sender, Stays
<1>2. Halves' /\ Framed' /\ AnswersGoHome'
  BY Zenon DEF Messages, Halves, Framed, AnswersGoHome, Answers, Stays
<1> QED
  BY <1>1, <1>2 DEF Messages, Senders

\* A new connection: nobody has its descriptor, and nobody has an answer for the one before.
LEMMA MessagesOpen ==
  ASSUME Messages, Owed, AInv, Types, Names, Opens, pc = "fire"
  PROVE  Messages' /\ Owed'
<1>1. UNCHANGED <<spc, job, fd, writer, stream, origin, req, pendingRequests, cancelled>>
  BY DEF Opens, Accept, sendVars, requestVars
<1>2. Current = 0 /\ 0 \notin Conns
  BY DEF Opens, Names
<1>3. \A s \in Senders : spc[s] # "data" /\ (job[s] \in Requests => job[s] \in cancelled)
                         /\ (spc[s] \in {"checkfd", "lock", "header", "data"} => fd[s] = NoFd)
  BY <1>2, Zenon DEF Messages, Sender
<1>4. \A s \in Senders : Sender(s)'
  BY <1>1, <1>3, Zenon DEF Messages, Sender
<1>5. \A c \in Conns : Len(stream[c]) % 2 # 1
  BY <1>2, Zenon DEF Messages, Halves
<1>6. Halves' /\ Framed' /\ AnswersGoHome'
  BY <1>1, <1>5, Zenon DEF Messages, Halves, Framed, AnswersGoHome, Answers
<1>7. Owed'
  BY <1>1, <1>2, Zenon DEF Owed
<1> QED
  BY <1>4, <1>6, <1>7 DEF Messages, Senders

\* The end of a connection: nothing is being sent.
LEMMA MessagesEnd ==
  ASSUME Messages, Owed, Names, Ends
  PROVE  Messages' /\ Owed'
<1>1. /\ UNCHANGED <<spc, job, fd, writer, stream, origin, req, pendingRequests, cancelled>>
      /\ pc' \in {"reset", "cancel"}
  BY Zenon DEF Ends, CommandsClose, CommandsReset, sendVars, requestVars, clientVars
<1>2. \A s \in Senders : spc[s] = "idle" /\ job[s] = NULL
  BY Zenon DEF Ends, Messages, Sender
<1>3. NULL \notin Requests
  BY DEF Names, AllRequests
<1>4. \A s \in Senders : Sender(s)'
  BY <1>1, <1>2, <1>3, Zenon DEF Sender
<1>5. \A c \in Conns : Len(stream[c]) % 2 # 1
  BY <1>2, Zenon DEF Messages, Halves
<1>6. Halves' /\ Framed' /\ AnswersGoHome'
  BY <1>1, <1>5, Zenon DEF Messages, Halves, Framed, AnswersGoHome, Answers
<1>7. Owed'
  BY <1>1 DEF Owed, Ends
<1> QED
  BY <1>4, <1>6, <1>7 DEF Messages, Senders

\* One sender takes a step other than a write.
LEMMA MessagesMove ==
  ASSUME Messages, AInv, Types, Names, Stays, NEW s \in Senders, NEW p, NEW j, NEW f,
         spc' = [spc EXCEPT ![s] = p], job' = [job EXCEPT ![s] = j], fd' = [fd EXCEPT ![s] = f],
         UNCHANGED <<stream, origin, cancelled>>, spc[s] # "data", p # "data",
         writer' = writer \/ writer \in {NULL, s}, Sender(s)'
  PROVE  Messages'
<1>1. \A u \in Senders : u # s => spc'[u] = spc[u] /\ job'[u] = job[u] /\ fd'[u] = fd[u]
  BY DEF AInv, Types
<1>2. ASSUME NEW u \in Senders, u # s
      PROVE  Sender(u)'
  <2>1. spc[u] \in {"header", "data"} => writer' = u
    BY <1>2, Zenon DEF Messages, Sender, Names
  <2>2. Sender(u)
    BY DEF Messages
  <2>3. spc'[u] = spc[u] /\ job'[u] = job[u] /\ fd'[u] = fd[u]
    BY <1>1, <1>2
  <2>4. UNCHANGED <<Current, s_fdCommand, stream, origin, cancelled>>
    BY DEF Stays
  <2> QED
    BY <2>1, <2>2, <2>3, <2>4, Zenon DEF Sender
<1>3. spc'[s] # "data"
  BY DEF AInv
<1>4. \A u \in Senders : spc'[u] = "data" <=> spc[u] = "data"
  BY <1>1, <1>3
<1>5. Halves' /\ Framed' /\ AnswersGoHome'
  <2>1. Halves'
    BY <1>4, Zenon DEF Messages, Halves, Stays, Senders
  <2> QED
    BY <2>1, Zenon DEF Messages, Framed, AnswersGoHome, Answers
<1> QED
  BY <1>2, <1>5 DEF Messages, Senders

\* Lengths and data alternate.
LEMMA Parity ==
  ASSUME NEW n \in Nat
  PROVE  /\ n % 2 = 1 <=> (n + 1) % 2 # 1
         /\ n % 2 \in {0, 1}
OBVIOUS

\* The length, and then the data of the same message: nobody else writes in between.
LEMMA MessagesWrite ==
  ASSUME Messages, AInv, Types, Names, Stays, NEW s \in Senders, Write(s)
  PROVE  Messages'
<1> DEFINE x == Current
           n == Len(stream[x])
           p == <<spc[s], s, job[s]>>
<1>1. spc[s] \in {"header", "data"} /\ Behind(fd[s]) # 0 /\ UNCHANGED <<cancelled, origin>>
  BY Zenon DEF Write, requestVars, clientVars
<1>2. fd[s] # NoFd
  <2>1. NoFd \notin Fds
    BY DEF Fds, NoFd
  <2> QED
    BY <1>1, <2>1, Zenon DEF Behind
<1>3. fd[s] = s_fdCommand /\ Behind(fd[s]) = x /\ x # 0 /\ writer = s
  BY <1>1, <1>2, Zenon DEF Messages, Sender, Current
<1>4. x \in Conns
  BY <1>3 DEF Current, Behind, Types
<1>5. stream' = [stream EXCEPT ![x] = Append(@, p)] /\ p \in Part
  BY <1>1, <1>3 DEF Write, AInv, Part
<1>6. p[1] = spc[s] /\ p[2] = s /\ p[3] = job[s]
  BY Zenon
<1>7. \A u \in Senders : spc[u] \in {"header", "data"} => u = s
  BY <1>3, Zenon DEF Messages, Sender
<1>8. n \in Nat /\ (n % 2 = 1 <=> spc[s] = "data")
  <2>1. n \in Nat
    BY <1>4 DEF AInv
  <2>2. spc[s] = "data" => n % 2 = 1
    BY Zenon DEF Messages, Sender
  <2>3. n % 2 = 1 => spc[s] = "data"
    BY <1>4, <1>7, Zenon DEF Messages, Halves
  <2> QED
    BY <2>1, <2>2, <2>3, Zenon
<1>9. spc[s] = "data" => stream[x][n] = <<"header", s, job[s]>>
  BY Zenon DEF Messages, Sender
<1> HIDE DEF p, n, x
<1>10. /\ \A c \in Conns : c # x => stream'[c] = stream[c]
       /\ Len(stream'[x]) = n + 1 /\ stream'[x][n + 1] = p
       /\ \A k \in 1..n : stream'[x][k] = stream[x][k]
       /\ stream' \in [Conns -> Seq(Part)]
  <2>1. stream \in [Conns -> Seq(Part)]
    BY Zenon DEF AInv
  <2> QED
    BY <1>4, <1>5, <2>1, Written, Zenon DEF n
<1>11. Current' = x /\ s_fdCommand' = s_fdCommand
  BY DEF Stays, x
<1>12. /\ n % 2 = 1 <=> (n + 1) % 2 # 1
       /\ n % 2 \in {0, 1}
  BY <1>8, Parity
<1>13. CASE spc[s] = "header"
  <2>1. spc' = [spc EXCEPT ![s] = "data"] /\ UNCHANGED <<job, fd, writer>>
    BY <1>13 DEF Write
  <2>2. spc'[s] = "data" /\ \A u \in Senders : u # s => spc'[u] = spc[u]
    BY <2>1 DEF AInv
  <2>3. (n + 1) % 2 = 1 /\ p = <<"header", s, job[s]>>
    BY <1>8, <1>12, <1>13 DEF p
  <2>4. Sender(s)'
    <3>1. Len(stream'[Current']) % 2 = 1 /\ stream'[Current'][Len(stream'[Current'])] = <<"header", s, job'[s]>>
      BY <1>10, <1>11, <2>1, <2>3, Zenon
    <3>2. job[s] # NULL /\ (job[s] \in Requests /\ job[s] \notin cancelled => origin[job[s]] = x)
      BY <1>13, Zenon DEF Messages, Sender, x
    <3> QED
      BY <1>1, <1>2, <1>3, <1>11, <2>1, <2>2, <3>1, <3>2, Zenon DEF Sender
  <2>5. ASSUME NEW u \in Senders, u # s PROVE Sender(u)'
    BY <1>1, <1>7, <1>11, <2>1, <2>2, <2>5, Zenon DEF Messages, Sender, x
  <2>6. Halves'
    BY <1>8, <1>10, <1>11, <2>2, Zenon DEF Messages, Halves, x, Senders
  <2>7. Framed'
    <3> SUFFICES ASSUME NEW c \in Conns, NEW i \in 1..Len(stream'[c])
                 PROVE  IF i % 2 = 1 THEN stream'[c][i][1] = "header"
                        ELSE stream'[c][i] = <<"data", stream'[c][i - 1][2], stream'[c][i - 1][3]>>
      BY Zenon DEF Framed
    <3>1. CASE c # x
      <4>1. stream'[c] = stream[c]
        BY <1>10, <3>1, Zenon
      <4> QED
        BY <4>1, Zenon DEF Messages, Framed
    <3>2. CASE c = x /\ i \in 1..n
      <4>1. stream'[c][i] = stream[c][i]
        BY <1>10, <3>2, Zenon
      <4>2. i % 2 # 1 => i - 1 \in 1..n
        <5>1. 1 % 2 = 1
          OBVIOUS
        <5>2. i % 2 # 1 => i # 1
          BY <5>1, Zenon
        <5>3. i # 1 => i - 1 \in 1..n
          BY <1>8, <3>2
        <5> QED
          BY <5>2, <5>3, Zenon
      <4> QED
        BY <1>10, <3>2, <4>1, <4>2, Zenon DEF Messages, Framed, n
    <3>3. CASE c = x /\ i = n + 1
      BY <1>6, <1>10, <1>13, <2>3, <3>3, Zenon DEF p
    <3>4. c = x => i \in 1..(n + 1)
      BY <1>10, Zenon
    <3>5. c = x => i \in 1..n \/ i = n + 1
      BY <1>8, <3>4
    <3> QED
      BY <3>1, <3>2, <3>3, <3>5, Zenon
  <2>8. AnswersGoHome'
    <3> SUFFICES ASSUME NEW c \in Conns, NEW i \in 1..Len(stream'[c]), stream'[c][i][1] = "data",
                        stream'[c][i][3] \in Requests
                 PROVE  origin'[stream'[c][i][3]] = c
      BY DEF AnswersGoHome, Answers
    <3>1. CASE c # x
      <4>1. stream'[c] = stream[c]
        BY <1>10, <3>1, Zenon
      <4> QED
        BY <1>1, <4>1, Zenon DEF Messages, AnswersGoHome, Answers
    <3>2. CASE c = x
      <4>1. i # n + 1
        BY <1>6, <1>10, <1>13, <3>2 DEF p
      <4>2. i \in 1..n
        BY <1>8, <1>10, <3>2, <4>1
      <4> QED
        <5>1. stream'[c][i] = stream[c][i] /\ i \in 1..Len(stream[c])
          BY <1>10, <3>2, <4>2, Zenon DEF n
        <5> QED
          BY <1>1, <5>1, Zenon DEF Messages, AnswersGoHome, Answers
    <3> QED
      BY <3>1, <3>2
  <2> QED
    BY <2>4, <2>5, <2>6, <2>7, <2>8 DEF Messages, Senders
<1>14. CASE spc[s] = "data"
  <2>1. /\ spc' = [spc EXCEPT ![s] = "idle"] /\ job' = [job EXCEPT ![s] = NULL]
        /\ fd' = [fd EXCEPT ![s] = NoFd] /\ writer' = NULL
    BY <1>14 DEF Write, Return
  <2>2. /\ spc'[s] = "idle" /\ job'[s] = NULL
        /\ \A u \in Senders : u # s => spc'[u] = spc[u] /\ job'[u] = job[u] /\ fd'[u] = fd[u]
    BY <2>1 DEF AInv, Types
  <2>3. NULL \notin Requests
    BY DEF Names, AllRequests
  <2>4. Sender(s)'
    BY <2>2, <2>3 DEF Sender
  <2>5. ASSUME NEW u \in Senders, u # s PROVE Sender(u)'
    BY <1>1, <1>7, <1>11, <2>2, <2>5, Zenon DEF Messages, Sender, x
  <2>6. Halves'
    <3>1. (n + 1) % 2 # 1
      BY <1>8, <1>12, <1>14
    <3>2. \A c \in Conns : c # x => Len(stream[c]) % 2 # 1
      BY Zenon DEF Messages, Halves, x
    <3> QED
      BY <1>10, <3>1, <3>2, Zenon DEF Halves
  <2>7. n \in 1..n /\ (n + 1) % 2 # 1 /\ p = <<"data", stream[x][n][2], stream[x][n][3]>>
    <3>1. n # 0 /\ (n + 1) % 2 # 1
      BY <1>8, <1>12, <1>14
    <3>2. stream[x][n][2] = s /\ stream[x][n][3] = job[s]
      BY <1>9, <1>14
    <3> QED
      BY <1>8, <1>14, <3>1, <3>2 DEF p
  <2>8. Framed'
    <3> SUFFICES ASSUME NEW c \in Conns, NEW i \in 1..Len(stream'[c])
                 PROVE  IF i % 2 = 1 THEN stream'[c][i][1] = "header"
                        ELSE stream'[c][i] = <<"data", stream'[c][i - 1][2], stream'[c][i - 1][3]>>
      BY Zenon DEF Framed
    <3>1. CASE c # x
      <4>1. stream'[c] = stream[c]
        BY <1>10, <3>1, Zenon
      <4> QED
        BY <4>1, Zenon DEF Messages, Framed
    <3>2. CASE c = x /\ i \in 1..n
      <4>1. stream'[c][i] = stream[c][i]
        BY <1>10, <3>2, Zenon
      <4>2. i % 2 # 1 => i - 1 \in 1..n
        <5>1. 1 % 2 = 1
          OBVIOUS
        <5>2. i % 2 # 1 => i # 1
          BY <5>1, Zenon
        <5>3. i # 1 => i - 1 \in 1..n
          BY <1>8, <3>2
        <5> QED
          BY <5>2, <5>3, Zenon
      <4> QED
        BY <1>10, <3>2, <4>1, <4>2, Zenon DEF Messages, Framed, n
    <3>3. CASE c = x /\ i = n + 1
      <4>1. i - 1 = n /\ i % 2 # 1
        BY <1>8, <2>7, <3>3
      <4>2. stream'[c][i] = p /\ stream'[c][n] = stream[x][n]
        BY <1>10, <2>7, <3>3, Zenon
      <4> QED
        BY <2>7, <4>1, <4>2, Zenon
    <3>4. c = x => i \in 1..(n + 1)
      BY <1>10, Zenon
    <3>5. c = x => i \in 1..n \/ i = n + 1
      BY <1>8, <3>4
    <3> QED
      BY <3>1, <3>2, <3>3, <3>5, Zenon
  <2>9. job[s] \in Requests => origin[job[s]] = x
    <3>1. job[s] \in Requests => job[s] \notin cancelled
      BY <1>14 DEF AInv, Carried, AllRequests
    <3> QED
      BY <3>1, Zenon DEF Messages, Sender, x
  <2>10. AnswersGoHome'
    <3> SUFFICES ASSUME NEW c \in Conns, NEW i \in 1..Len(stream'[c]), stream'[c][i][1] = "data",
                        stream'[c][i][3] \in Requests
                 PROVE  origin'[stream'[c][i][3]] = c
      BY DEF AnswersGoHome, Answers
    <3>1. CASE c # x
      <4>1. stream'[c] = stream[c]
        BY <1>10, <3>1, Zenon
      <4> QED
        BY <1>1, <4>1, Zenon DEF Messages, AnswersGoHome, Answers
    <3>2. CASE c = x /\ i = n + 1
      BY <1>1, <1>6, <1>10, <2>9, <3>2, Zenon DEF p
    <3>3. CASE c = x /\ i # n + 1
      <4>1. i \in 1..(n + 1) /\ i # n + 1
        BY <1>10, <3>3
      <4>2. i \in 1..n
        BY <1>8, <4>1
      <4> QED
        <5>1. stream'[c][i] = stream[c][i] /\ i \in 1..Len(stream[c])
          BY <1>10, <3>3, <4>2, Zenon DEF n
        <5> QED
          BY <1>1, <5>1, Zenon DEF Messages, AnswersGoHome, Answers
    <3> QED
      BY <3>1, <3>2, <3>3
  <2> QED
    BY <2>4, <2>5, <2>6, <2>8, <2>10 DEF Messages, Senders
<1> QED
  BY <1>1, <1>13, <1>14

\* Steps that no request sees
LEMMA OwedRest ==
  ASSUME Owed, Stays, UNCHANGED <<req, pendingRequests, cancelled, origin>>,
         pc \notin {"reset", "cancel"} \/ pc' \in {"reset", "cancel"}
  PROVE  Owed'
BY DEF Owed, Stays

-----------------------------------------------------------------------------
(* Tables of events *)

\* ril_event_add() of an event that is not in the table: there is room.
LEMMA Added ==
  ASSUME NEW t \in Table, Once(t), NEW e \in Events, ~In(t, e)
  PROVE  /\ Add(t, e) \in Table /\ Once(Add(t, e))
         /\ In(Add(t, e), e)
         /\ \A g \in Events : g # e => (In(Add(t, e), g) <=> In(t, g))
<1>1. \A i \in {1, 2, 3, 4, 5} : i \in Slots
  BY DEF Slots, MAX_FD_EVENTS
<1>2. \E i \in {1, 2, 3, 4, 5} : t[i] = NULL
  <2> SUFFICES ASSUME \A i \in {1, 2, 3, 4, 5} : t[i] # NULL PROVE FALSE
    OBVIOUS
  <2>1. \A i \in {1, 2, 3, 4, 5} : t[i] \in Events
    BY <1>1 DEF Table
  <2>2. \A i, j \in {1, 2, 3, 4, 5} : i # j => t[i] # t[j]
    BY <1>1 DEF Once
  <2> QED
    BY <2>1, <2>2 DEF Events
<1>3. PICK m \in Slots : t[m] = NULL /\ \A j \in Slots : t[j] = NULL => m <= j
  <2>1. \E m \in {1, 2, 3, 4, 5} :
           t[m] = NULL /\ \A j \in {1, 2, 3, 4, 5} : t[j] = NULL => m <= j
    BY <1>2
  <2> QED
    BY <2>1, <1>1 DEF Slots, MAX_FD_EVENTS
<1>4. Add(t, e) = [i \in Slots |-> IF i = m THEN e ELSE t[i]]
  <2>1. \A i \in Slots : (t[i] = NULL /\ \A j \in Slots : t[j] = NULL => i <= j) <=> i = m
    BY <1>3 DEF Slots, MAX_FD_EVENTS
  <2> QED
    BY <2>1 DEF Add, Slots
<1>5. NULL \notin Events
  BY DEF NULL, Events
<1>6. Add(t, e) \in Table
  BY <1>4 DEF Table
<1>7. Once(Add(t, e))
  BY <1>4 DEF Once, In
<1>8. In(Add(t, e), e)
  BY <1>3, <1>4 DEF In
<1>9. ASSUME NEW g \in Events, g # e
      PROVE  In(Add(t, e), g) <=> In(t, g)
  BY <1>3, <1>4, <1>5, <1>9 DEF In
<1> QED
  BY <1>6, <1>7, <1>8, <1>9

\* ril_event_del(), and what is taken from the list of pending events
LEMMA Deleted ==
  ASSUME NEW t \in Table, Once(t), NEW e \in Events
  PROVE  /\ Del(t, e) \in Table /\ Once(Del(t, e))
         /\ ~In(Del(t, e), e)
         /\ \A g \in Events : g # e => (In(Del(t, e), g) <=> In(t, g))
<1>1. Del(t, e) = [i \in Slots |-> IF t[i] = e THEN NULL ELSE t[i]]
  BY DEF Del, Slots
<1>2. NULL \notin Events
  BY DEF NULL, Events
<1>3. Del(t, e) \in Table
  BY <1>1 DEF Table
<1>4. Once(Del(t, e))
  BY <1>1 DEF Once
<1>5. ~In(Del(t, e), e)
  BY <1>1, <1>2 DEF In
<1>6. \A g \in Events : g # e => (In(Del(t, e), g) <=> In(t, g))
  BY <1>1, <1>2 DEF In
<1> QED
  BY <1>3, <1>4, <1>5, <1>6

\* processReadReadies()
LEMMA Readied ==
  ASSUME watch_table \in Table, Once(watch_table)
  PROVE  /\ Ready \in Table /\ Once(Ready)
         /\ \A e \in Events : In(Ready, e) <=> In(watch_table, e) /\ e \in rfds
<1>1. Ready = [i \in Slots |-> IF watch_table[i] \in rfds THEN watch_table[i] ELSE NULL]
  BY DEF Ready, Slots
<1>2. NULL \notin Events
  BY DEF NULL, Events
<1>3. Ready \in Table
  BY <1>1 DEF Table
<1>4. Once(Ready)
  BY <1>1 DEF Once
<1>5. \A e \in Events : In(Ready, e) <=> In(watch_table, e) /\ e \in rfds
  BY <1>1, <1>2 DEF In
<1> QED
  BY <1>3, <1>4, <1>5

\* firePending(): the event that is fired is in the list.
LEMMA Fires ==
  ASSUME NEW e, Firing(e)
  PROVE  pc = "fire" /\ In(pending, e)
BY DEF Firing, In, Slots

-----------------------------------------------------------------------------
(* One connection *)

\* close(): the descriptor is free, and its connection is over.
LEMMA Closing ==
  ASSUME Types, LInv, Names, NEW f \in Fds \union {NoFd}, CloseConn(f)
  PROVE  /\ fdtab' \in [Fds -> Conns \union {0}]
         /\ conn' \in [Conns -> {"none", "backlog", "open", "eof", "over"}]
         /\ \A g \in Fds : fdtab'[g] = IF g = f THEN 0 ELSE fdtab[g]
         /\ \A c \in Conns : conn'[c] = IF c = Behind(f) THEN "over" ELSE conn[c]
         /\ Waiting' <=> Waiting
         /\ Closed => Closed'
<1>1. /\ fdtab' \in [Fds -> Conns \union {0}]
      /\ \A g \in Fds : fdtab'[g] = IF g = f THEN 0 ELSE fdtab[g]
  BY DEF Types, CloseConn, Close
<1>2. Behind(f) \in Conns \union {0} /\ 0 \notin Conns
  BY DEF Types, Behind, Names
<1>3. conn' = IF Behind(f) # 0 THEN [conn EXCEPT ![Behind(f)] = "over"] ELSE conn
  BY DEF CloseConn
<1>4. /\ conn' \in [Conns -> {"none", "backlog", "open", "eof", "over"}]
      /\ \A c \in Conns : conn'[c] = IF c = Behind(f) THEN "over" ELSE conn[c]
  BY <1>2, <1>3 DEF Types
<1>5. Behind(f) # 0 => conn[Behind(f)] # "backlog"
  BY DEF LInv, Behind
<1>6. Waiting' <=> Waiting
  BY <1>2, <1>4, <1>5 DEF Waiting
<1>7. Closed => Closed'
  BY <1>1 DEF Closed
<1> QED
  BY <1>1, <1>4, <1>6, <1>7

\* Steps that only the senders, the requests or the start of the loop see
LEMMA LoopRest ==
  ASSUME LInv, UNCHANGED <<main, pc, watch_table, pending, rfds, fdtab, s_fdCommand, conn, debugs>>
  PROVE  LInv'
BY DEF LInv, Waiting, Closed

\* RIL_register() adds an event that the loop does not have yet.
LEMMA LoopRegisterAdds ==
  ASSUME LInv, Types, RegisterAdds
  PROVE  LInv' /\ watch_table' \in Table
<1>1. main \in {"listen", "debug"} /\ main \in Events /\ ~In(watch_table, main)
  BY DEF LInv, RegisterAdds, Events
<1>2. /\ watch_table' \in Table /\ Once(watch_table')
      /\ \A g \in Events : g # main => (In(watch_table', g) <=> In(watch_table, g))
  BY <1>1, Added DEF LInv, Types, RegisterAdds
<1>3. \A e \in {"wakeup", "listen", "commands", "debug"} : e # main => (In(watch_table', e) <=> In(watch_table, e))
  BY <1>2 DEF Events
<1>4. main' = IF main = "listen" THEN "trigger_listen" ELSE "trigger_debug"
  BY DEF RegisterAdds
<1>5. UNCHANGED <<pc, pending, rfds, fdtab, s_fdCommand, conn, debugs>>
  BY DEF RegisterAdds, clientVars
<1>6. (Closed' <=> Closed) /\ (Waiting' <=> Waiting)
  BY <1>5 DEF Closed, Waiting
<1> QED
  BY <1>1, <1>2, <1>3, <1>4, <1>5, <1>6 DEF LInv

\* RIL_register() and the start of eventLoop()
LEMMA LoopStart ==
  ASSUME LInv, Types, RegisterTriggers \/ MakePipe \/ AddWakeup
  PROVE  LInv' /\ watch_table' \in Table
<1>1. UNCHANGED <<pending, rfds, fdtab, s_fdCommand, conn, debugs>>
  BY DEF RegisterTriggers, MakePipe, AddWakeup, clientVars, loopVars
<1>2. (Closed' <=> Closed) /\ (Waiting' <=> Waiting)
  BY <1>1 DEF Closed, Waiting
<1>3. CASE RegisterTriggers
  <2>1. /\ main \in {"trigger_listen", "trigger_debug"} /\ UNCHANGED <<pc, watch_table>>
        /\ main' = IF main = "trigger_listen" THEN "debug" ELSE "done"
    BY <1>3 DEF RegisterTriggers, loopVars
  <2> QED
    BY <1>1, <1>2, <2>1 DEF LInv, Types
<1>4. CASE MakePipe
  <2>1. pc = "pipe" /\ pc' = "wakeup" /\ UNCHANGED <<main, watch_table>>
    BY <1>4 DEF MakePipe, loopVars
  <2> QED
    BY <1>1, <1>2, <2>1 DEF LInv, Types
<1>5. CASE AddWakeup
  <2>1. /\ pc = "wakeup" /\ pc' = "copy" /\ UNCHANGED main
        /\ watch_table' = Add(watch_table, "wakeup") /\ "wakeup" \in Events
    BY <1>5 DEF AddWakeup, startVars, Events
  <2>2. /\ watch_table' \in Table /\ Once(watch_table')
        /\ \A g \in Events : g # "wakeup" => (In(watch_table', g) <=> In(watch_table, g))
    BY <2>1, Added DEF LInv, Types
  <2>3. \A e \in {"listen", "commands", "debug"} : In(watch_table', e) <=> In(watch_table, e)
    BY <2>2 DEF Events
  <2> QED
    BY <1>1, <1>2, <2>1, <2>2, <2>3 DEF LInv
<1> QED
  BY <1>3, <1>4, <1>5

\* ril_event_loop(), up to the list of pending events
LEMMA LoopSelect ==
  ASSUME LInv, Types, CopyReadFds \/ Select \/ SelectFails \/ NothingPending
  PROVE  LInv' /\ rfds' \subseteq Events
<1>1. UNCHANGED <<main, watch_table, pending, fdtab, s_fdCommand, conn, debugs>>
  BY DEF CopyReadFds, Select, SelectFails, NothingPending, clientVars, startVars, loopVars
<1>2. (Closed' <=> Closed) /\ (Waiting' <=> Waiting)
  BY <1>1 DEF Closed, Waiting
<1>3. CASE CopyReadFds \/ SelectFails
  <2>1. pc \in {"copy", "select"} /\ pc' \in {"select", "dead"} /\ rfds' \subseteq Events
    BY <1>3 DEF CopyReadFds, SelectFails, Types, loopVars
  <2> QED
    BY <1>1, <1>2, <2>1 DEF LInv
<1>4. CASE Select
  <2>1. pc = "select" /\ pc' = "readies" /\ rfds' = {e \in rfds : Readable(e)}
    BY <1>4 DEF Select
  <2>2. ("listen" \in rfds' => Waiting) /\ ("debug" \in rfds' => debugs = 1)
    BY <2>1 DEF Readable, Waiting, Types
  <2>3. rfds' \subseteq Events
    BY <2>1 DEF Types
  <2> QED
    BY <1>1, <1>2, <2>1, <2>2, <2>3 DEF LInv
<1>5. CASE NothingPending
  <2>1. pc = "fire" /\ pc' = "copy" /\ rfds' = rfds /\ \A e \in Events : ~In(pending, e)
    BY <1>5 DEF NothingPending, loopVars, In, Slots, Events, NULL
  <2>2. \A e \in {"wakeup", "listen", "commands", "debug"} : ~In(pending, e)
    BY <2>1 DEF Events
  <2>3. rfds' \subseteq Events
    BY <2>1 DEF Types
  <2> QED
    BY <1>1, <1>2, <2>1, <2>2, <2>3 DEF LInv
<1> QED
  BY <1>3, <1>4, <1>5

\* processReadReadies(): the listening socket goes from the table to the list.
LEMMA LoopReadies ==
  ASSUME LInv, Types, ProcessReadReadies
  PROVE  LInv' /\ watch_table' \in Table /\ pending' \in Table
<1>1. /\ pc = "readies" /\ pc' = "fire" /\ pending' = Ready /\ rfds' = {}
      /\ UNCHANGED <<main, fdtab, s_fdCommand, conn, debugs>>
  BY DEF ProcessReadReadies, startVars, clientVars
<1>2. /\ pending' \in Table /\ Once(pending')
      /\ \A e \in Events : In(pending', e) <=> In(watch_table, e) /\ e \in rfds
  BY <1>1, Readied DEF LInv, Types
<1>3. /\ watch_table' \in Table /\ Once(watch_table')
      /\ \A e \in Events : e # "listen" => (In(watch_table', e) <=> In(watch_table, e))
      /\ In(watch_table', "listen") <=> In(watch_table, "listen") /\ "listen" \notin rfds
  <2>1. "listen" \in Events
    BY DEF Events
  <2>2. CASE "listen" \in rfds
    BY <2>1, <2>2, Deleted DEF LInv, Types, ProcessReadReadies
  <2>3. CASE "listen" \notin rfds
    BY <2>3 DEF LInv, Types, ProcessReadReadies
  <2> QED
    BY <2>2, <2>3
<1>4. (Closed' <=> Closed) /\ (Waiting' <=> Waiting)
  BY <1>1 DEF Closed, Waiting
<1>5. {"wakeup", "listen", "commands", "debug"} \subseteq Events
  BY DEF Events
<1> QED
  BY <1>1, <1>2, <1>3, <1>4, <1>5 DEF LInv

\* processWakeupCallback() and the debug port: an event is taken from the list.
LEMMA LoopCallbacks ==
  ASSUME LInv, Types, Names,
         \/ ProcessWakeupCallback
         \/ \E r \in LocalRequests : DebugIssues(r) \/ DebugCloses(r)
  PROVE  LInv' /\ pending' \in Table /\ debugs' \in 0..1
<1>1. UNCHANGED <<main, pc, watch_table, rfds>>
  BY DEF ProcessWakeupCallback, DebugIssues, DebugCloses, startVars
<1>2. PICK e \in {"wakeup", "debug"} : /\ Firing(e) /\ pending' = Del(pending, e)
                                       /\ e = "debug" => debugs' = debugs - 1
                                       /\ e = "wakeup" => debugs' = debugs
  BY DEF ProcessWakeupCallback, DebugIssues, DebugCloses, clientVars
<1>3. pc = "fire" /\ In(pending, e) /\ e \in Events
  BY <1>2, Fires DEF Events
<1>4. /\ pending' \in Table /\ Once(pending') /\ ~In(pending', e)
      /\ \A g \in Events : g # e => (In(pending', g) <=> In(pending, g))
  BY <1>2, <1>3, Deleted DEF LInv, Types
<1>5. \A g \in {"listen", "commands", "debug", "wakeup"} : In(pending', g) => In(pending, g)
  BY <1>3, <1>4 DEF Events
<1>6. debugs' \in 0..1 /\ (In(pending', "debug") => debugs' = 1)
  BY <1>2, <1>3, <1>4, <1>5 DEF LInv, Types
<1>7. /\ Closed => Closed'
      /\ Waiting' <=> Waiting
      /\ \A f \in Fds : fdtab'[f] # 0 => f = s_fdCommand' /\ conn'[fdtab'[f]] \in {"open", "eof"}
  <2>1. CASE UNCHANGED <<fdtab, s_fdCommand, conn>>
    BY <1>3, <2>1 DEF LInv, Closed, Waiting
  <2>2. CASE CloseConn(s_fdCommand)
    <3>1. s_fdCommand \in Fds \union {NoFd}
      BY DEF Types
    <3>2. \A g \in Fds : fdtab'[g] = 0
      BY <2>2, <3>1, Closing DEF LInv
    <3> QED
      BY <2>2, <3>1, <3>2, Closing
  <2> QED
    BY <2>1, <2>2 DEF ProcessWakeupCallback, DebugIssues, DebugCloses, clientVars
<1>8. \A g \in Events : In(pending', g) => pc' = "fire"
  BY <1>1, <1>3
<1> QED
  BY <1>1, <1>3, <1>4, <1>5, <1>6, <1>7, <1>8, Zenon DEF LInv

\* listenCallback(): a descriptor is free, and somebody waits.
LEMMA LoopAccept ==
  ASSUME LInv, Types, Names, Accept
  PROVE  /\ LInv' /\ fdtab' \in [Fds -> Conns \union {0}] /\ s_fdCommand' \in Fds
         /\ conn' \in [Conns -> {"none", "backlog", "open", "eof", "over"}]
         /\ \E c \in Conns :
              /\ conn[c] = "backlog" /\ conn' = [conn EXCEPT ![c] = "open"]
              /\ fdtab' = [fdtab EXCEPT ![s_fdCommand'] = c]
<1>1. PICK c \in Conns, f \in Fds :
        /\ Firing("listen") /\ s_fdCommand' = f /\ fdtab' = [fdtab EXCEPT ![f] = c]
        /\ conn' = [conn EXCEPT ![c] = "open"] /\ pc' = "creds" /\ conn[c] = "backlog"
        /\ UNCHANGED <<main, watch_table, pending, rfds, debugs>>
  BY Zenon DEF Accept, startVars, loopVars
<1>2. pc = "fire" /\ In(pending, "listen")
  BY <1>1, Fires
<1>3. Closed /\ Waiting /\ ~In(watch_table, "commands") /\ ~In(watch_table, "listen")
  BY <1>2 DEF LInv
<1>4. /\ fdtab' \in [Fds -> Conns \union {0}] /\ s_fdCommand' \in Fds
      /\ conn' \in [Conns -> {"none", "backlog", "open", "eof", "over"}]
  BY <1>1 DEF Types
<1>5. \A g \in Fds : fdtab'[g] # 0 => g = s_fdCommand' /\ conn'[fdtab'[g]] \in {"open", "eof"}
  BY <1>1, <1>3 DEF Types, Closed
<1>6. LInv'
  BY <1>1, <1>2, <1>3, <1>5 DEF LInv
<1> QED
  BY <1>1, <1>4, <1>6, Zenon

\* Nobody is accepted, and the listening socket goes back to the table.
LEMMA LoopNotAccepted ==
  ASSUME LInv, Types, Names, AcceptFails \/ Reject
  PROVE  /\ LInv' /\ watch_table' \in Table /\ pending' \in Table
         /\ fdtab' \in [Fds -> Conns \union {0}]
         /\ conn' \in [Conns -> {"none", "backlog", "open", "eof", "over"}]
<1>1. /\ watch_table' = Add(watch_table, "listen") /\ pending' = Del(pending, "listen")
      /\ pc' = "fire" /\ s_fdCommand' = NoFd /\ UNCHANGED <<main, rfds, debugs>>
  BY Fires DEF AcceptFails, Reject, startVars, clientVars
<1>2. /\ pc \in {"fire", "creds"} /\ In(pending, "listen")
      /\ pc = "fire" => AcceptFails
  BY Fires DEF AcceptFails, Reject, LInv
<1>3. ~In(watch_table, "listen") /\ ~In(watch_table, "commands") /\ ~In(pending, "commands")
  BY <1>2 DEF LInv
<1>4. {"wakeup", "listen", "commands", "debug"} \subseteq Events
  BY DEF Events
<1>5. /\ watch_table' \in Table /\ Once(watch_table') /\ In(watch_table', "listen")
      /\ \A g \in Events : g # "listen" => (In(watch_table', g) <=> In(watch_table, g))
  BY <1>1, <1>3, <1>4, Added, Zenon DEF LInv, Types
<1>6. /\ pending' \in Table /\ Once(pending') /\ ~In(pending', "listen")
      /\ \A g \in Events : g # "listen" => (In(pending', g) <=> In(pending, g))
  BY <1>1, <1>4, Deleted DEF LInv, Types
<1>7. /\ Closed' /\ fdtab' \in [Fds -> Conns \union {0}]
      /\ conn' \in [Conns -> {"none", "backlog", "open", "eof", "over"}]
  <2>1. CASE AcceptFails
    BY <1>2, <2>1, Fires, Zenon DEF AcceptFails, LInv, Types, Closed, clientVars
  <2>2. CASE Reject
    <3>1. s_fdCommand \in Fds \union {NoFd} /\ CloseConn(s_fdCommand)
      BY <2>2 DEF Types, Reject
    <3>2. \A g \in Fds : fdtab'[g] = 0
      <4>1. \A g \in Fds : fdtab'[g] = IF g = s_fdCommand THEN 0 ELSE fdtab[g]
        BY <3>1, Closing, Zenon
      <4>2. \A g \in Fds : g # s_fdCommand => fdtab[g] = 0
        BY Zenon DEF LInv
      <4> QED
        BY <4>1, <4>2
    <3> QED
      BY <3>1, <3>2, Closing DEF Closed
  <2> QED
    BY <2>1, <2>2
<1>8. \A g \in Fds : fdtab'[g] = 0
  BY <1>7 DEF Closed
<1>9. main # "listen"
  BY <1>2 DEF LInv
<1>10. LInv'
  BY <1>1, <1>2, <1>3, <1>4, <1>5, <1>6, <1>7, <1>8, <1>9, Zenon DEF LInv
<1> QED
  BY <1>5, <1>6, <1>7, <1>10

\* The connection is watched, while the listening socket is not.
LEMMA LoopNew ==
  ASSUME LInv, Types, NewConnection
  PROVE  /\ LInv' /\ watch_table' \in Table
         /\ In(watch_table', "commands")
         /\ \A g \in Events : g # "commands" => (In(watch_table', g) <=> In(watch_table, g))
<1>1. /\ pc = "creds" /\ pc' = "sending" /\ watch_table' = Add(watch_table, "commands")
      /\ UNCHANGED <<main, pending, rfds, fdtab, s_fdCommand, conn, debugs>>
  BY DEF NewConnection, startVars, clientVars
<1>2. In(pending, "listen") /\ ~In(watch_table, "listen") /\ ~In(watch_table, "commands")
  BY <1>1 DEF LInv
<1>3. {"wakeup", "listen", "commands", "debug"} \subseteq Events
  BY DEF Events
<1>4. /\ watch_table' \in Table /\ Once(watch_table') /\ In(watch_table', "commands")
      /\ \A g \in Events : g # "commands" => (In(watch_table', g) <=> In(watch_table, g))
  BY <1>1, <1>2, <1>3, Added DEF LInv, Types
<1>5. (Closed' <=> Closed) /\ (Waiting' <=> Waiting)
  BY <1>1 DEF Closed, Waiting
<1> QED
  BY <1>1, <1>2, <1>3, <1>4, <1>5 DEF LInv

\* The callbacks of the listening socket and of the connection end.
LEMMA LoopEnd ==
  ASSUME LInv, Types, LoopHasSent \/ CommandsDone \/ CommandsCancel
  PROVE  LInv' /\ pending' \in Table
<1>1. /\ pc' = "fire" /\ UNCHANGED <<main, watch_table, rfds, fdtab, s_fdCommand, conn, debugs>>
  BY Fires DEF LoopHasSent, CommandsDone, CommandsCancel, startVars, clientVars
<1>2. PICK e \in {"listen", "commands"} :
        /\ pending' = Del(pending, e) /\ In(pending, e)
        /\ e = "listen" <=> pc = "sending"
        /\ e = "commands" => pc \in {"fire", "cancel"}
  BY Fires, Zenon DEF LoopHasSent, CommandsDone, CommandsCancel, LInv
<1>3. {"wakeup", "listen", "commands", "debug"} \subseteq Events
  BY DEF Events
<1>4. /\ pending' \in Table /\ Once(pending') /\ ~In(pending', e)
      /\ \A g \in Events : g # e => (In(pending', g) <=> In(pending, g))
  BY <1>2, <1>3, Deleted DEF LInv, Types
<1>5. (Closed' <=> Closed) /\ (Waiting' <=> Waiting)
  BY <1>1 DEF Closed, Waiting
<1> QED
  BY <1>1, <1>2, <1>3, <1>4, <1>5, Zenon DEF LInv

\* processCommandsCallback(): the connection is closed ...
LEMMA LoopClose ==
  ASSUME LInv, Types, Names, CommandsClose
  PROVE  /\ LInv' /\ fdtab' \in [Fds -> Conns \union {0}]
         /\ conn' \in [Conns -> {"none", "backlog", "open", "eof", "over"}]
         /\ Closed'
<1>1. /\ Firing("commands") /\ CloseConn(s_fdCommand) /\ pc' = "reset"
      /\ UNCHANGED <<main, watch_table, pending, rfds, s_fdCommand, debugs>>
  BY Zenon DEF CommandsClose, startVars, loopVars
<1>2. pc = "fire" /\ In(pending, "commands") /\ In(watch_table, "commands")
  BY <1>1, Fires DEF LInv
<1>3. s_fdCommand \in Fds \union {NoFd}
  BY DEF Types
<1>4. \A g \in Fds : fdtab'[g] = 0
  <2>1. \A g \in Fds : fdtab'[g] = IF g = s_fdCommand THEN 0 ELSE fdtab[g]
    BY <1>1, <1>3, Closing, Zenon
  <2>2. \A g \in Fds : g # s_fdCommand => fdtab[g] = 0
    BY Zenon DEF LInv
  <2> QED
    BY <2>1, <2>2
<1>5. /\ fdtab' \in [Fds -> Conns \union {0}] /\ Closed'
      /\ conn' \in [Conns -> {"none", "backlog", "open", "eof", "over"}]
  BY <1>1, <1>3, <1>4, Closing DEF Closed
<1>6. ~In(watch_table, "listen") /\ ~In(pending, "listen")
  BY <1>2 DEF LInv
<1> QED
  BY <1>1, <1>2, <1>4, <1>5, <1>6 DEF LInv

\* ... and the listening socket takes its place in the table.
LEMMA LoopReset ==
  ASSUME LInv, Types, CommandsReset
  PROVE  /\ LInv' /\ watch_table' \in Table
         /\ ~In(watch_table', "commands")
<1>1. /\ pc = "reset" /\ pc' = "cancel"
      /\ watch_table' = Add(Del(watch_table, "commands"), "listen")
      /\ UNCHANGED <<main, pending, rfds, fdtab, conn, debugs>>
  BY DEF CommandsReset, startVars, clientVars
<1>2. In(pending, "commands") /\ ~In(watch_table, "listen") /\ ~In(pending, "listen")
  BY <1>1 DEF LInv
<1>3. {"wakeup", "listen", "commands", "debug"} \subseteq Events
  BY DEF Events
<1> DEFINE t == Del(watch_table, "commands")
<1>4. /\ t \in Table /\ Once(t) /\ ~In(t, "commands")
      /\ \A g \in Events : g # "commands" => (In(t, g) <=> In(watch_table, g))
  BY <1>3, Deleted DEF LInv, Types
<1>5. ~In(t, "listen")
  BY <1>2, <1>3, <1>4
<1>6. watch_table' = Add(t, "listen")
  BY <1>1
<1> HIDE DEF t
<1>7. /\ watch_table' \in Table /\ Once(watch_table') /\ In(watch_table', "listen")
      /\ \A g \in Events : g # "listen" => (In(watch_table', g) <=> In(t, g))
  BY <1>3, <1>4, <1>5, <1>6, Added
<1>8. /\ ~In(watch_table', "commands")
      /\ In(watch_table', "debug") <=> In(watch_table, "debug")
      /\ In(watch_table', "wakeup") <=> In(watch_table, "wakeup")
  BY <1>3, <1>4, <1>7
<1>9. Closed' /\ (Waiting' <=> Waiting) /\ \A g \in Fds : fdtab'[g] = 0
  BY <1>1 DEF LInv, Closed, Waiting
<1>10. main # "listen"
  BY <1>1 DEF LInv
<1> QED
  BY <1>1, <1>2, <1>7, <1>8, <1>9, <1>10 DEF LInv

\* A write that fails closes a descriptor.
LEMMA LoopWriteFails ==
  ASSUME LInv, Types, Names, NEW s \in Senders, WriteFails(s)
  PROVE  /\ LInv' /\ fdtab' \in [Fds -> Conns \union {0}]
         /\ conn' \in [Conns -> {"none", "backlog", "open", "eof", "over"}]
<1>1. /\ CloseConn(fd[s]) /\ fd[s] \in Fds \union {NoFd}
      /\ UNCHANGED <<main, pc, watch_table, pending, rfds, s_fdCommand, debugs>>
  BY DEF WriteFails, startVars, loopVars, Types
<1> DEFINE f == fd[s]
<1>2. /\ fdtab' \in [Fds -> Conns \union {0}]
      /\ conn' \in [Conns -> {"none", "backlog", "open", "eof", "over"}]
      /\ \A g \in Fds : fdtab'[g] = IF g = f THEN 0 ELSE fdtab[g]
      /\ \A c \in Conns : conn'[c] = IF c = Behind(f) THEN "over" ELSE conn[c]
      /\ Waiting' <=> Waiting
      /\ Closed => Closed'
  BY <1>1, Closing, Zenon
<1> HIDE DEF f
<1>3. ASSUME NEW g \in Fds, fdtab'[g] # 0
      PROVE  /\ g = s_fdCommand /\ pc \notin {"reset", "cancel"}
             /\ conn'[fdtab'[g]] \in {"open", "eof"}
  <2>1. fdtab'[g] = fdtab[g] /\ g # f /\ g = s_fdCommand /\ fdtab[g] \in Conns
    BY <1>2, <1>3 DEF LInv, Types
  <2>2. Behind(f) # fdtab[g]
    BY <1>2, <1>3, <2>1 DEF LInv, Types, Behind
  <2> QED
    BY <1>2, <1>3, <2>1, <2>2 DEF LInv
<1> QED
  BY <1>1, <1>2, <1>3, Zenon DEF LInv

\* The client and whoever gives orders on the debug port
LEMMA LoopClient ==
  ASSUME LInv, Types, Names,
         (\E c \in Conns : Connect(c) \/ Disconnect(c)) \/ DebugOrder
  PROVE  /\ LInv' /\ conn' \in [Conns -> {"none", "backlog", "open", "eof", "over"}]
         /\ debugs' \in 0..1
<1>1. UNCHANGED <<main, pc, watch_table, pending, rfds, fdtab, s_fdCommand>>
  BY DEF Connect, Disconnect, DebugOrder, startVars, loopVars
<1>2. /\ conn' \in [Conns -> {"none", "backlog", "open", "eof", "over"}]
      /\ \A c \in Conns : conn[c] \in {"open", "eof"} => conn'[c] \in {"open", "eof"}
      /\ \A c \in Conns : conn[c] = "backlog" => conn'[c] = "backlog"
  BY DEF Connect, Disconnect, DebugOrder, Types
<1>3. debugs' \in 0..1 /\ (debugs = 1 => debugs' = 1)
  BY DEF Connect, Disconnect, DebugOrder, Types
<1>4. (Waiting => Waiting') /\ (Closed' <=> Closed)
  BY <1>1, <1>2 DEF Waiting, Closed
<1>5. \A f \in Fds : fdtab'[f] # 0 =>
        f = s_fdCommand' /\ pc' \notin {"reset", "cancel"} /\ conn'[fdtab'[f]] \in {"open", "eof"}
  BY <1>1, <1>2 DEF LInv, Types
<1> QED
  BY <1>1, <1>2, <1>3, <1>4, <1>5, Zenon DEF LInv

\* The variables that the lemmas above do not mention keep their types.
LEMMA OtherTypes ==
  ASSUME Types, Names, [Next]_vars
  PROVE  /\ main' \in {"listen", "trigger_listen", "debug", "trigger_debug", "done"}
         /\ pc' \in {"pipe", "wakeup", "copy", "select", "dead", "readies", "fire", "creds",
                     "sending", "reset", "cancel"}
         /\ cmdFd' \in Fds \union {NoFd}
         /\ origin' \in [Requests -> Conns \union {0}]
         /\ writer' \in Senders \union {NULL}
         /\ fd' \in [Senders -> Fds \union {NoFd}]
         /\ unsol' \in 0..MaxUnsol
         /\ s_fdCommand' \in {s_fdCommand, NoFd} \/ Accept
<1>1. CASE Register
  BY <1>1 DEF Register, RegisterAdds, RegisterTriggers, Types, loopVars, clientVars, sendVars
<1>2. CASE EventLoop
  <2>1. CASE \/ MakePipe \/ AddWakeup \/ CopyReadFds \/ Select \/ SelectFails
             \/ ProcessReadReadies \/ NothingPending \/ ProcessWakeupCallback
    BY <2>1, Zenon DEF MakePipe, AddWakeup, CopyReadFds, Select, SelectFails,
                ProcessReadReadies,
                NothingPending, ProcessWakeupCallback, Types, startVars, loopVars, clientVars,
                sendVars
  <2>2. CASE Accept \/ AcceptFails \/ Reject \/ NewConnection \/ LoopHasSent
    BY <2>2, Zenon DEF Accept, AcceptFails, Reject, NewConnection, LoopHasSent, Types, startVars,
                loopVars, clientVars, sendVars
  <2>3. CASE \/ CommandsDone \/ CommandsClose \/ CommandsReset \/ CommandsCancel
             \/ \E r \in Requests : ProcessCommand(r)
    BY <2>3, Zenon DEF CommandsDone, CommandsClose, CommandsReset, CommandsCancel, ProcessCommand,
                Types, startVars, loopVars, clientVars, sendVars
  <2>4. CASE \E r \in LocalRequests : DebugIssues(r) \/ DebugCloses(r)
    BY <2>4 DEF DebugIssues, DebugCloses, Types, startVars, loopVars, clientVars, sendVars
  <2> QED
    BY <1>2, <2>1, <2>2, <2>3, <2>4, Zenon DEF EventLoop
<1>3. ASSUME NEW s \in Senders, Send(s)
      PROVE  /\ UNCHANGED <<main, pc, cmdFd, origin, unsol, s_fdCommand>>
             /\ writer' \in {writer, s, NULL}
             /\ \E f \in Fds \union {NoFd} : fd' = [fd EXCEPT ![s] = f]
  <2>1. fd = [fd EXCEPT ![s] = fd[s]] /\ fd[s] \in Fds \union {NoFd}
    BY DEF Types
  <2>2. NoFd \in Fds \union {NoFd} /\ s_fdCommand \in Fds \union {NoFd}
    BY DEF Types
  <2> QED
    BY <1>3, <2>1, <2>2, Zenon DEF Send, CheckCancelled, ReadFd, CheckFd, LockWrite, Write,
         WriteFails, Return, startVars, loopVars, clientVars
<1>4. ASSUME NEW s \in Senders, Send(s)
      PROVE  writer' \in Senders \union {NULL} /\ fd' \in [Senders -> Fds \union {NoFd}]
  BY <1>3, <1>4 DEF Types
<1>5. CASE Client
  <2>1. CASE \E c \in Conns : Connect(c) \/ Disconnect(c)
    BY <2>1 DEF Connect, Disconnect, Types, startVars, loopVars, sendVars
  <2>2. CASE \E c \in Conns, r \in Requests : SendRequest(c, r)
    BY <2>2 DEF SendRequest, Types, startVars, loopVars, sendVars
  <2>3. CASE DebugOrder
    BY <2>3 DEF DebugOrder, Types, startVars, loopVars, sendVars
  <2> QED
    BY <1>5, <2>1, <2>2, <2>3, Zenon DEF Client
<1>6. CASE Vendor
  <2>1. UNCHANGED <<main, pc, cmdFd, origin, s_fdCommand, writer, fd>>
    BY <1>6 DEF Vendor, OnUnsolicitedResponse, Complete, startVars, loopVars, clientVars
  <2>2. unsol' \in {unsol, unsol + 1} /\ (unsol' # unsol => unsol < MaxUnsol)
    BY <1>6 DEF Vendor, OnUnsolicitedResponse, Complete
  <2>3. unsol' \in 0..MaxUnsol
    BY <2>2 DEF Types, Names
  <2> QED
    BY <2>1, <2>3 DEF Types
<1>7. CASE UNCHANGED vars
  BY <1>7 DEF vars, Types
<1> QED
  BY <1>1, <1>2, <1>3, <1>4, <1>5, <1>6, <1>7, Zenon DEF Next, Types

\* Every step keeps one connection at a time.
LEMMA LoopStep ==
  ASSUME LInv, Types, Names, [Next]_vars
  PROVE  LInv' /\ Types'
<1> DEFINE Rest == /\ watch_table' \in Table /\ pending' \in Table /\ rfds' \subseteq Events
                   /\ fdtab' \in [Fds -> Conns \union {0}] /\ s_fdCommand' \in Fds \union {NoFd}
                   /\ conn' \in [Conns -> {"none", "backlog", "open", "eof", "over"}]
                   /\ debugs' \in 0..1
<1> SUFFICES LInv' /\ Rest
  BY OtherTypes DEF Types
<1>1. CASE RegisterAdds
  BY <1>1, LoopRegisterAdds DEF RegisterAdds, Types, clientVars
<1>2. CASE RegisterTriggers \/ MakePipe \/ AddWakeup
  BY <1>2, LoopStart, Zenon DEF RegisterTriggers, MakePipe, AddWakeup, Types, clientVars, loopVars
<1>3. CASE CopyReadFds \/ Select \/ SelectFails \/ NothingPending
  BY <1>3, LoopSelect, Zenon DEF CopyReadFds, Select, SelectFails, NothingPending, Types,
     clientVars, loopVars
<1>4. CASE ProcessReadReadies
  <2>1. rfds' \subseteq Events
    BY <1>4 DEF ProcessReadReadies
  <2> QED
    BY <1>4, <2>1, LoopReadies DEF ProcessReadReadies, Types, clientVars
<1>5. CASE ProcessWakeupCallback
  BY <1>5, LoopCallbacks, Zenon DEF ProcessWakeupCallback, Types, clientVars
<1>6. ASSUME NEW r \in LocalRequests, DebugIssues(r) \/ DebugCloses(r)
      PROVE  LInv' /\ Rest
  <2>1. LInv' /\ pending' \in Table /\ debugs' \in 0..1
    BY <1>6, LoopCallbacks
  <2>2. UNCHANGED <<watch_table, rfds>> /\ s_fdCommand' \in Fds \union {NoFd}
    BY <1>6 DEF DebugIssues, DebugCloses, Types
  <2>3. /\ fdtab' \in [Fds -> Conns \union {0}]
        /\ conn' \in [Conns -> {"none", "backlog", "open", "eof", "over"}]
    <3>1. CASE DebugIssues(r)
      BY <3>1 DEF DebugIssues, Types
    <3>2. CASE DebugCloses(r)
      <4>1. CloseConn(s_fdCommand) /\ s_fdCommand \in Fds \union {NoFd}
        BY <3>2 DEF DebugCloses, Types
      <4> QED
        BY <4>1, Closing
    <3> QED
      BY <1>6, <3>1, <3>2
  <2> QED
    BY <2>1, <2>2, <2>3 DEF Types
<1>7. CASE Accept
  BY <1>7, LoopAccept, Zenon DEF Accept, Types, loopVars
<1>8. CASE AcceptFails \/ Reject
  <2>1. UNCHANGED <<rfds, debugs>> /\ s_fdCommand' = NoFd
    BY <1>8 DEF AcceptFails, Reject, clientVars
  <2> QED
    BY <1>8, <2>1, LoopNotAccepted DEF Types
<1>9. CASE NewConnection
  BY <1>9, LoopNew, Zenon DEF NewConnection, Types, clientVars
<1>10. CASE LoopHasSent \/ CommandsDone \/ CommandsCancel
  BY <1>10, LoopEnd, Zenon DEF LoopHasSent, CommandsDone, CommandsCancel, Types, clientVars
<1>11. CASE CommandsClose
  BY <1>11, LoopClose, Zenon DEF CommandsClose, Types, loopVars
<1>12. CASE CommandsReset
  BY <1>12, LoopReset DEF CommandsReset, Types, clientVars
<1>13. ASSUME NEW s \in Senders, WriteFails(s)
       PROVE  LInv' /\ Rest
  <2>1. UNCHANGED <<watch_table, pending, rfds, s_fdCommand, debugs>>
    BY <1>13, Zenon DEF WriteFails, loopVars
  <2> QED
    BY <1>13, <2>1, LoopWriteFails DEF Types
<1>14. CASE (\E c \in Conns : Connect(c) \/ Disconnect(c)) \/ DebugOrder
  <2>1. UNCHANGED <<watch_table, pending, rfds, fdtab, s_fdCommand>>
    BY <1>14 DEF Connect, Disconnect, DebugOrder, loopVars
  <2> QED
    BY <1>14, <2>1, LoopClient DEF Types
<1>15. CASE \/ \E r \in Requests : ProcessCommand(r) \/ \E c \in Conns : SendRequest(c, r)
            \/ \E s \in Senders : \/ CheckCancelled(s) \/ ReadFd(s) \/ CheckFd(s)
                                  \/ LockWrite(s) \/ Write(s)
            \/ \E th \in Threads : OnUnsolicitedResponse(th) \/ \E r \in AllRequests : Complete(th, r)
            \/ UNCHANGED vars
  <2>1. UNCHANGED <<main, pc, watch_table, pending, rfds, fdtab, s_fdCommand, conn, debugs>>
    BY <1>15, Zenon DEF ProcessCommand, SendRequest, CheckCancelled, ReadFd, CheckFd, LockWrite,
         Write, OnUnsolicitedResponse, Complete, vars, startVars, loopVars, clientVars
  <2> QED
    BY <2>1, LoopRest DEF Types
<1> HIDE DEF Rest
<1> QED
  BY <1>1, <1>2, <1>3, <1>4, <1>5, <1>6, <1>7, <1>8, <1>9, <1>10, <1>11, <1>12, <1>13, <1>14,
     <1>15 DEF Next, Register, EventLoop, Send, Client, Vendor

-----------------------------------------------------------------------------
(* Nobody is sending when a connection ends *)

\* Steps that leave the loop's state, the connections and the senders as they are
LEMMA CalmRest ==
  ASSUME Calm, UNCHANGED <<pc, s_fdCommand, watch_table, cmdFd, rfds, fdtab, conn, spc>>
  PROVE  Calm' /\ Stays
BY DEF Calm, Stays, Current, Behind

\* RIL_register() and the start of the loop
LEMMA CalmStart ==
  ASSUME Calm, LInv, Types, RegisterAdds \/ RegisterTriggers \/ MakePipe \/ AddWakeup
  PROVE  Calm' /\ Stays
<1>1. UNCHANGED <<s_fdCommand, cmdFd, rfds, fdtab, conn, spc>>
  BY DEF RegisterAdds, RegisterTriggers, MakePipe, AddWakeup, loopVars, clientVars, sendVars
<1>2. Stays
  BY <1>1 DEF Stays, Current, Behind
<1>3. CASE RegisterTriggers \/ MakePipe
  BY <1>1, <1>2, <1>3, Zenon DEF RegisterTriggers, MakePipe, loopVars, Calm, Stays
<1>4. CASE RegisterAdds \/ AddWakeup
  <2>1. PICK e \in {"listen", "debug", "wakeup"} :
          watch_table' = Add(watch_table, e) /\ ~In(watch_table, e)
    BY <1>4, Zenon DEF RegisterAdds, AddWakeup, LInv
  <2>2. e \in Events /\ e # "commands" /\ "commands" \in Events
    BY DEF Events
  <2>3. /\ In(watch_table', e)
        /\ \A g \in Events : g # e => (In(watch_table', g) <=> In(watch_table, g))
    BY <2>1, <2>2, Added DEF LInv, Types
  <2>4. /\ In(watch_table', "commands") <=> In(watch_table, "commands")
        /\ \A g \in rfds : In(watch_table, g) => In(watch_table', g)
    BY <2>2, <2>3 DEF Types
  <2>5. pc' = pc \/ (pc = "wakeup" /\ pc' = "copy")
    BY <1>4 DEF RegisterAdds, AddWakeup
  <2> QED
    BY <1>1, <1>2, <2>4, <2>5 DEF Calm, Stays
<1> QED
  BY <1>3, <1>4

\* select() never sees a descriptor that is closed.
LEMMA CalmSelect ==
  ASSUME Calm, LInv, Types, CopyReadFds \/ Select \/ SelectFails \/ ProcessReadReadies \/ NothingPending
  PROVE  Calm' /\ Stays
<1>1. UNCHANGED <<s_fdCommand, cmdFd, fdtab, conn, spc>>
  BY DEF CopyReadFds, Select, SelectFails, ProcessReadReadies, NothingPending, loopVars,
         clientVars, sendVars
<1>2. Stays
  BY <1>1 DEF Stays, Current, Behind
<1>3. CASE CopyReadFds
  <2>1. \A e \in rfds' : In(watch_table', e)
    BY <1>3 DEF CopyReadFds, Watched, In, Slots
  <2> QED
    BY <1>1, <1>2, <1>3, <2>1 DEF CopyReadFds, Calm, Stays
<1>4. CASE Select \/ NothingPending
  BY <1>1, <1>2, <1>4, Zenon DEF Select, NothingPending, Calm, Stays, loopVars
<1>5. ~SelectFails
  <2> SUFFICES ASSUME pc = "select", "commands" \in rfds, Behind(cmdFd) = 0 PROVE FALSE
    BY DEF SelectFails, BadFd
  <2> QED
    BY DEF Calm, Current
<1>6. CASE ProcessReadReadies
  <2>1. pc = "readies" /\ pc' = "fire"
    BY <1>6 DEF ProcessReadReadies
  <2>2. In(watch_table', "commands") <=> In(watch_table, "commands")
    <3>1. "listen" \in Events /\ "commands" \in Events
      BY DEF Events
    <3> QED
      BY <1>6, <3>1, Deleted, Zenon DEF ProcessReadReadies, LInv, Types
  <2> QED
    BY <1>1, <1>2, <2>1, <2>2 DEF Calm, Stays
<1> QED
  BY <1>3, <1>4, <1>5, <1>6

\* accept() finds no connection that is open or ending.
LEMMA CalmAccept ==
  ASSUME Calm, LInv, Types, Names, Accept
  PROVE  Calm' /\ Opens
<1>1. pc = "fire" /\ In(pending, "listen") /\ pc' = "creds" /\ UNCHANGED <<watch_table, cmdFd, spc>>
  BY Fires DEF Accept, loopVars, sendVars
<1>2. ~In(watch_table, "commands")
  BY <1>1 DEF LInv
<1>3. s_fdCommand = NoFd /\ Current = 0
  BY <1>1, <1>2, CurrentIs DEF Calm
<1>4. PICK c \in Conns : /\ conn[c] = "backlog" /\ conn' = [conn EXCEPT ![c] = "open"]
                         /\ fdtab' = [fdtab EXCEPT ![s_fdCommand'] = c] /\ s_fdCommand' \in Fds
  BY LoopAccept
<1>5. Current' = c /\ c # 0 /\ s_fdCommand' # NoFd
  BY <1>4 DEF Current, Behind, Types, Names, Fds, NoFd
<1>6. \A d \in Conns : conn[d] \notin {"open", "eof"}
  BY <1>3 DEF Calm, Names
<1>7. \A d \in Conns : conn'[d] = IF d = c THEN "open" ELSE conn[d]
  BY <1>4 DEF Types
<1>8. spc[Loop] = "idle"
  BY <1>1 DEF Calm
<1> QED
  BY <1>1, <1>2, <1>3, <1>5, <1>6, <1>7, <1>8 DEF Calm, Opens

\* A client that was accepted has not gone away when the loop writes to it.
LEMMA CalmNew ==
  ASSUME Calm, LInv, Types, Names, NewConnection
  PROVE  Calm' /\ Stays
<1>1. /\ pc = "creds" /\ pc' = "sending" /\ cmdFd' = s_fdCommand
      /\ UNCHANGED <<s_fdCommand, fdtab, conn>>
  BY DEF NewConnection, clientVars
<1>2. In(watch_table', "commands")
  BY LoopNew
<1>3. Stays
  BY <1>1 DEF Stays, Current, Behind
<1>4. \A c \in Conns : conn[c] # "eof"
  BY <1>1 DEF Calm
<1> QED
  BY <1>1, <1>2, <1>3, <1>4 DEF Calm, Stays

\* The other callbacks of a round
LEMMA CalmCallbacks ==
  ASSUME Calm, LInv, Types, Names, OnlyClientsClose,
         \/ ProcessWakeupCallback \/ AcceptFails \/ LoopHasSent \/ CommandsDone \/ CommandsCancel
         \/ \E r \in LocalRequests : DebugIssues(r)
  PROVE  Calm' /\ Stays
<1>1. UNCHANGED <<cmdFd, rfds, fdtab, conn, spc>>
  BY Zenon DEF ProcessWakeupCallback, AcceptFails, LoopHasSent, CommandsDone, CommandsCancel,
         DebugIssues, clientVars, sendVars
<1>2. CASE AcceptFails
  <2>1. pc = "fire" /\ pc' = "fire" /\ In(pending, "listen") /\ s_fdCommand' = NoFd
    BY <1>2, Fires DEF AcceptFails
  <2>2. ~In(watch_table, "commands") /\ ~In(watch_table, "listen")
    BY <2>1 DEF LInv
  <2>3. s_fdCommand = NoFd
    BY <2>1, <2>2 DEF Calm
  <2>4. Stays
    BY <1>1, <2>1, <2>3 DEF Stays, Current, Behind
  <2>5. ~In(watch_table', "commands")
    <3>1. "listen" \in Events /\ "commands" \in Events
      BY DEF Events
    <3> QED
      BY <1>2, <2>2, <3>1, Added, Zenon DEF AcceptFails, LInv, Types
  <2> QED
    BY <1>1, <2>1, <2>2, <2>3, <2>4, <2>5 DEF Calm, Stays
<1>3. CASE ~AcceptFails
  <2>1. UNCHANGED <<s_fdCommand, watch_table>> /\ pc' = "fire" /\ pc \in {"fire", "sending", "cancel"}
    BY <1>3, Fires DEF ProcessWakeupCallback, LoopHasSent, CommandsDone, CommandsCancel, DebugIssues
  <2>2. Stays
    BY <1>1, <2>1 DEF Stays, Current, Behind
  <2>3. spc[Loop] = "idle"
    <3>1. CASE LoopHasSent
      BY <3>1 DEF LoopHasSent
    <3>2. CASE ~LoopHasSent
      <4>1. pc \in {"fire", "cancel"}
        BY <1>3, <3>2, Fires DEF ProcessWakeupCallback, CommandsDone, CommandsCancel, DebugIssues
      <4> QED
        BY <4>1 DEF Calm
    <3> QED
      BY <3>1, <3>2
  <2> QED
    BY <1>1, <2>1, <2>2, <2>3 DEF Calm, Stays
<1> QED
  BY <1>2, <1>3

\* The client has gone away, so that nobody is sending.
LEMMA CalmClose ==
  ASSUME Calm, LInv, Types, Names, CommandsClose
  PROVE  Calm' /\ Ends
<1>1. /\ pc = "fire" /\ In(pending, "commands") /\ pc' = "reset"
      /\ UNCHANGED <<s_fdCommand, watch_table, cmdFd, spc>>
  BY Fires, Zenon DEF CommandsClose, loopVars, sendVars
<1>2. In(watch_table, "commands") /\ s_fdCommand # NoFd /\ cmdFd = s_fdCommand /\ Current # 0
  BY <1>1 DEF LInv, Calm
<1>3. /\ Behind(cmdFd) = Current /\ conn[Current] = "eof"
      /\ \A r \in Requests : req[r] = "sent" => origin[r] # Current
  BY <1>2, Zenon DEF CommandsClose, Current
<1>4. s_fdCommand \in Fds /\ Current \in Conns
  BY <1>2 DEF Types, Current, Behind
<1>5. \A s \in Senders : spc[s] = "idle"
  BY <1>3, <1>4 DEF Calm
<1>6. CloseConn(s_fdCommand) /\ s_fdCommand \in Fds \union {NoFd}
  BY <1>4 DEF CommandsClose
<1>7. /\ \A g \in Fds : fdtab'[g] = IF g = s_fdCommand THEN 0 ELSE fdtab[g]
      /\ \A c \in Conns : conn'[c] = IF c = Current THEN "over" ELSE conn[c]
  BY <1>6, Closing DEF Current
<1>8. Current' = 0
  BY <1>1, <1>4, <1>7 DEF Current, Behind
<1>9. \A c \in Conns : conn'[c] \notin {"open", "eof"}
  BY <1>7 DEF Calm
<1>10. Ends
  BY <1>3, <1>5, <1>8 DEF Ends
<1>11. spc'[Loop] = "idle"
  BY <1>1, <1>5 DEF Senders
<1> QED
  BY <1>1, <1>2, <1>5, <1>9, <1>10, <1>11 DEF Calm

\* The connection is forgotten, and the listening socket is watched again.
LEMMA CalmReset ==
  ASSUME Calm, LInv, Types, Names, CommandsReset, Owed
  PROVE  Calm' /\ Ends
<1>1. /\ pc = "reset" /\ pc' = "cancel" /\ s_fdCommand' = NoFd
      /\ UNCHANGED <<cmdFd, fdtab, conn, spc>>
  BY DEF CommandsReset, clientVars, sendVars
<1>2. ~In(watch_table', "commands")
  BY LoopReset
<1>3. Current = 0 /\ Current' = 0
  BY <1>1 DEF LInv, Current, Behind, Fds, NoFd
<1>4. \A c \in Conns : conn[c] \notin {"open", "eof"}
  BY <1>3 DEF Calm, Names
<1>5. \A s \in Senders : spc[s] = "idle"
  BY <1>1 DEF Calm
<1>6. spc[Loop] = "idle"
  BY <1>5 DEF Senders
<1>7. Ends
  BY <1>3, <1>5, Zenon DEF Ends, Owed
<1> QED
  BY <1>1, <1>2, <1>3, <1>4, <1>5, <1>6, <1>7 DEF Calm

\* A sender that has begun goes on or returns.
LEMMA CalmSend ==
  ASSUME Calm, AInv, Types, Names, OnlyClientsClose, NEW s \in Senders, Send(s), Sender(s)
  PROVE  Calm' /\ Stays /\ UNCHANGED <<fdtab, conn>>
<1>1. UNCHANGED <<pc, s_fdCommand, watch_table, cmdFd, rfds>>
  BY Zenon DEF Send, CheckCancelled, ReadFd, CheckFd, LockWrite, Write, WriteFails, loopVars
<1>2. UNCHANGED <<fdtab, conn>>
  <2>1. CASE WriteFails(s)
    <3>1. CloseConn(fd[s]) /\ Behind(fd[s]) = 0
      BY <2>1, Zenon DEF WriteFails, OnlyClientsClose
    <3>2. fdtab' = fdtab
      BY <3>1 DEF CloseConn, Close, Behind, Types
    <3> QED
      BY <3>1, <3>2 DEF CloseConn
  <2> QED
    BY <2>1, Zenon DEF Send, CheckCancelled, ReadFd, CheckFd, LockWrite, Write, clientVars
<1>3. Stays
  BY <1>1, <1>2 DEF Stays, Current, Behind
<1>4. spc[s] # "idle" /\ \A u \in Senders : u # s => spc'[u] = spc[u]
  BY Zenon DEF Send, CheckCancelled, ReadFd, CheckFd, LockWrite, Write, WriteFails, Return, AInv
<1>5. Loop \in Senders
  BY DEF Senders
<1>6. spc'[Loop] # "idle" => spc[Loop] # "idle"
  BY <1>4, <1>5, Zenon
<1> QED
  BY <1>1, <1>2, <1>3, <1>4, <1>6, Zenon DEF Calm, Stays

\* A thread begins while the client is there.
LEMMA CalmVendor ==
  ASSUME Calm, AInv, Types, Names, OnlyClientsClose, Vendor
  PROVE  Calm' /\ Stays
<1>1. UNCHANGED <<pc, s_fdCommand, watch_table, cmdFd, rfds, fdtab, conn>> /\ Quiet
  BY DEF Vendor, OnUnsolicitedResponse, Complete, loopVars, clientVars
<1>2. Stays
  BY <1>1 DEF Stays, Current, Behind
<1>3. spc'[Loop] = spc[Loop]
  <2>1. PICK th \in Threads : OnUnsolicitedResponse(th) \/ \E r \in AllRequests : Complete(th, r)
    BY DEF Vendor
  <2>2. spc' = spc \/ \E p : spc' = [spc EXCEPT ![th] = p]
    <3>1. CASE OnUnsolicitedResponse(th)
      BY <3>1, Zenon DEF OnUnsolicitedResponse
    <3>2. CASE \E r \in AllRequests : Complete(th, r)
      BY <3>2, Zenon DEF Complete
    <3> QED
      BY <2>1, <3>1, <3>2
  <2>3. th # Loop /\ Loop \in DOMAIN spc
    BY DEF AInv, Senders, Names
  <2> QED
    BY <2>2, <2>3
<1> QED
  BY <1>1, <1>2, <1>3, Zenon DEF Calm, Stays, Quiet, OnlyClientsClose

\* A client goes away while nobody is sending.
LEMMA CalmClient ==
  ASSUME Calm, Types, Names, OnlyClientsClose, NEW c \in Conns, Connect(c) \/ Disconnect(c)
  PROVE  Calm' /\ Stays
<1>1. UNCHANGED <<pc, s_fdCommand, watch_table, cmdFd, rfds, fdtab, spc>>
  BY DEF Connect, Disconnect, loopVars, sendVars
<1>2. Stays
  BY <1>1 DEF Stays, Current, Behind
<1>3. \A d \in Conns : d # c => conn'[d] = conn[d]
  BY Zenon DEF Connect, Disconnect, Types
<1>4. CASE Connect(c)
  <2>1. conn[c] = "none" /\ conn'[c] = "backlog"
    BY <1>4 DEF Connect, Types
  <2>2. pc = "creds" => Current \in Conns
    BY DEF Calm, Types, Current, Behind
  <2> QED
    BY <1>1, <1>2, <1>3, <2>1, <2>2 DEF Calm, Stays
<1>5. CASE Disconnect(c)
  <2>1. conn[c] = "open" /\ conn'[c] = "eof"
    BY <1>5 DEF Disconnect, Types
  <2>2. pc # "creds" /\ \A s \in Senders : spc[s] = "idle"
    BY <1>5 DEF Disconnect, OnlyClientsClose, Senders
  <2> QED
    BY <1>1, <1>2, <1>3, <2>1, <2>2, Zenon DEF Calm, Stays
<1> QED
  BY <1>4, <1>5

-----------------------------------------------------------------------------
(* Clients that go away only while nothing is being sent: every step *)

\* The register, the loop between its callbacks, and clients that come and go
LEMMA QuietRest ==
  ASSUME QInv, Stays, Calm', UNCHANGED <<origin, requestVars, sendVars>>,
         pc \notin {"reset", "cancel"} \/ pc' \in {"reset", "cancel"}
  PROVE  QInv'
<1>1. UNCHANGED <<req, pendingRequests, cancelled, origin, spc, job, fd, writer, stream>>
  BY DEF requestVars, sendVars
<1>2. Owed'
  BY <1>1, OwedRest DEF QInv
<1>3. Messages'
  BY <1>1, MessagesRest DEF QInv
<1> QED
  BY <1>2, <1>3 DEF QInv

\* onCommandsSocketClosed(): whatever is pending will not be answered.
LEMMA QuietCancel ==
  ASSUME QInv, AInv, LInv, Types, Names, OnlyClientsClose, CommandsCancel
  PROVE  QInv'
<1>1. Calm' /\ Stays
  BY CalmCallbacks DEF QInv
<1>2. /\ cancelled' = cancelled \union pendingRequests
      /\ UNCHANGED <<req, pendingRequests, origin, spc, job, fd, writer, stream>>
  BY DEF CommandsCancel, OnCommandsSocketClosed, clientVars, sendVars
<1>3. Messages'
  BY <1>1, <1>2, MessagesRest DEF QInv
<1>4. Owed'
  BY <1>1, <1>2 DEF QInv, Owed, Stays
<1> QED
  BY <1>1, <1>3, <1>4 DEF QInv

\* The loop begins to send the state of the radio to the connection.
LEMMA QuietNew ==
  ASSUME QInv, AInv, LInv, Types, Names, NewConnection
  PROVE  QInv'
<1>1. Calm' /\ Stays
  BY CalmNew DEF QInv
<1>2. /\ spc' = [spc EXCEPT ![Loop] = "readfd"] /\ job' = [job EXCEPT ![Loop] = Unsolicited]
      /\ pc = "creds"
      /\ UNCHANGED <<req, pendingRequests, cancelled, origin, writer, fd, stream>>
  BY DEF NewConnection, requestVars, clientVars
<1>3. Loop \in Senders /\ spc[Loop] = "idle"
  BY <1>2 DEF QInv, Calm, Senders
<1>4. fd' = [fd EXCEPT ![Loop] = fd[Loop]]
  BY <1>2 DEF Types
<1>5. spc'[Loop] = "readfd" /\ job'[Loop] = Unsolicited
  BY <1>2, <1>3 DEF AInv
<1>6. Unsolicited \notin Requests /\ Unsolicited # NULL
  BY DEF Names, AllRequests, Unsolicited, NULL
<1>7. Sender(Loop)'
  BY <1>5, <1>6 DEF Sender
<1>8. Messages'
  BY <1>1, <1>2, <1>3, <1>4, <1>7, MessagesMove, Zenon DEF QInv
<1>9. Owed'
  BY <1>1, <1>2, OwedRest DEF QInv
<1> QED
  BY <1>1, <1>8, <1>9 DEF QInv

\* A request is sent on the connection that is current when it is dispatched.
LEMMA QuietRequest ==
  ASSUME QInv, AInv, LInv, Types, Names, OnlyClientsClose,
         \/ \E r \in Requests : ProcessCommand(r) \/ \E c \in Conns : SendRequest(c, r)
         \/ \E r \in LocalRequests : DebugIssues(r)
  PROVE  QInv'
<1>1. CASE \E r \in Requests : ProcessCommand(r)
  <2>1. PICK r \in Requests : ProcessCommand(r)
    BY <1>1
  <2>2. /\ UNCHANGED <<pc, s_fdCommand, watch_table, cmdFd, rfds, fdtab, conn, spc>>
        /\ UNCHANGED <<cancelled, origin, job, fd, writer, stream>>
    BY <2>1, Zenon DEF ProcessCommand, loopVars, clientVars, sendVars
  <2>3. Calm' /\ Stays
    BY <2>2, CalmRest DEF QInv
  <2>4. Messages'
    BY <2>2, <2>3, MessagesRest DEF QInv
  <2>5. /\ req[r] = "sent" /\ r \in AllRequests /\ pendingRequests \subseteq pendingRequests'
        /\ \E v \in {"vendor", "lost"} : /\ req' = [req EXCEPT ![r] = v]
                                         /\ v = "vendor" => r \in pendingRequests'
    BY <2>1, Zenon DEF ProcessCommand, AllRequests
  <2>6. /\ req'[r] \in {"vendor", "lost"} /\ (req'[r] = "vendor" => r \in pendingRequests')
        /\ \A q \in Requests : q # r => req'[q] = req[q]
    BY <2>5 DEF AInv, AllRequests
  <2>7. origin[r] = Current /\ Current # 0
    BY <2>5, Zenon DEF QInv, Owed
  <2>8. Owed'
    BY <2>2, <2>3, <2>5, <2>6, <2>7, Zenon DEF QInv, Owed, Stays
  <2> QED
    BY <2>3, <2>4, <2>8 DEF QInv
<1>2. CASE \E r \in Requests : \E c \in Conns : SendRequest(c, r)
  <2>1. PICK r \in Requests, c \in Conns : SendRequest(c, r)
    BY <1>2
  <2>2. /\ UNCHANGED <<pc, s_fdCommand, watch_table, cmdFd, rfds, fdtab, conn, spc>>
        /\ UNCHANGED <<cancelled, pendingRequests, job, fd, writer, stream>>
    BY <2>1 DEF SendRequest, loopVars, sendVars
  <2>3. Calm' /\ Stays
    BY <2>2, CalmRest DEF QInv
  <2>4. /\ conn[c] = "open" /\ req[r] = "unsent" /\ r \in AllRequests
        /\ req' = [req EXCEPT ![r] = "sent"] /\ origin' = [origin EXCEPT ![r] = c]
    BY <2>1 DEF SendRequest, AllRequests
  <2>5. /\ req'[r] = "sent" /\ origin'[r] = c /\ c = Current /\ c # 0
        /\ \A q \in Requests : q # r => req'[q] = req[q] /\ origin'[q] = origin[q]
    BY <2>4, Zenon DEF AInv, Types, QInv, Calm, Names, AllRequests
  <2>6. \A s \in Senders : job[s] # r
    BY <2>4 DEF AInv, Carried
  <2>7. \A d \in Conns : \A k \in Nat : ~Answer(d, k, r)
    BY <2>4 DEF AInv
  <2>8. \A s \in Senders : Sender(s)'
    <3>1. \A s \in Senders : job[s] \in Requests => origin'[job[s]] = origin[job[s]]
      BY <2>5, <2>6, Zenon
    <3> QED
      BY <2>2, <2>3, <3>1, Zenon DEF QInv, Messages, Sender, Stays
  <2>9. AnswersGoHome'
    <3> SUFFICES ASSUME NEW d \in Conns, NEW k \in Answers(d), stream[d][k][3] \in Requests
                 PROVE  origin'[stream[d][k][3]] = d
      BY <2>2, Zenon DEF AnswersGoHome, Answers
    <3>1. Len(stream[d]) \in Nat
      <4>1. stream[d] \in Seq(Part)
        BY Zenon DEF AInv
      <4> QED
        BY <4>1
    <3>2. stream[d][k][3] # r
      BY <2>7, <3>1 DEF Answer, Answers
    <3> QED
      BY <2>5, <3>2, Zenon DEF QInv, Messages, AnswersGoHome
  <2>10. Halves' /\ Framed'
    BY <2>2, <2>3, Zenon DEF QInv, Messages, Halves, Framed, Stays
  <2>11. Owed'
    BY <2>2, <2>3, <2>5, Zenon DEF QInv, Owed, Stays
  <2> QED
    BY <2>3, <2>8, <2>9, <2>10, <2>11 DEF QInv, Messages, Senders
<1>3. CASE \E r \in LocalRequests : DebugIssues(r)
  <2>1. PICK r \in LocalRequests : DebugIssues(r)
    BY <1>3
  <2>2. Calm' /\ Stays
    BY <1>3, CalmCallbacks DEF QInv
  <2>3. /\ UNCHANGED <<pc, cancelled, origin, spc, job, fd, writer, stream>>
        /\ req' = [req EXCEPT ![r] = "vendor"] /\ pendingRequests' = pendingRequests \union {r}
    BY <2>1 DEF DebugIssues, sendVars
  <2>4. Messages'
    BY <2>2, <2>3, MessagesRest DEF QInv
  <2>5. \A q \in Requests : req'[q] = req[q]
    BY <2>3 DEF AInv, Names, AllRequests
  <2>6. Owed'
    BY <2>2, <2>3, <2>5 DEF QInv, Owed, Stays
  <2> QED
    BY <2>2, <2>4, <2>6 DEF QInv
<1> QED
  BY <1>1, <1>2, <1>3

\* A thread of the vendor's library begins.
LEMMA QuietVendor ==
  ASSUME QInv, AInv, LInv, Types, Names, OnlyClientsClose, NEW th \in Threads,
         OnUnsolicitedResponse(th) \/ \E r \in AllRequests : Complete(th, r)
  PROVE  QInv'
<1>1. Calm' /\ Stays /\ th \in Senders
  BY CalmVendor DEF QInv, Vendor, Senders
<1>2. /\ spc[th] = "idle" /\ Quiet
      /\ UNCHANGED <<pc, cancelled, origin, writer, fd, stream>>
  BY DEF OnUnsolicitedResponse, Complete, clientVars, requestVars
<1>3. fd' = [fd EXCEPT ![th] = fd[th]]
  BY <1>2 DEF Types
<1>4. pc \notin {"reset", "cancel"}
  BY <1>2 DEF Quiet, OnlyClientsClose
<1>5. CASE OnUnsolicitedResponse(th)
  <2>1. /\ spc' = [spc EXCEPT ![th] = "readfd"] /\ job' = [job EXCEPT ![th] = Unsolicited]
        /\ UNCHANGED <<req, pendingRequests>>
    BY <1>5 DEF OnUnsolicitedResponse, requestVars
  <2>2. spc'[th] = "readfd" /\ job'[th] = Unsolicited
    BY <1>1, <2>1 DEF AInv
  <2>3. Unsolicited \notin Requests /\ Unsolicited # NULL
    BY DEF Names, AllRequests, Unsolicited, NULL
  <2>4. Sender(th)'
    BY <2>2, <2>3, Zenon DEF Sender
  <2>5. Messages'
    BY <1>1, <1>2, <1>3, <2>1, <2>4, MessagesMove, Zenon DEF QInv
  <2>6. Owed'
    BY <1>1, <1>2, <1>4, <2>1, OwedRest DEF QInv
  <2> QED
    BY <1>1, <2>5, <2>6 DEF QInv
<1>6. ASSUME NEW r \in AllRequests, Complete(th, r)
      PROVE  QInv'
  <2>1. /\ req[r] = "vendor" /\ req' = [req EXCEPT ![r] = "done"]
        /\ pendingRequests' = pendingRequests \ {r}
    BY <1>6 DEF Complete
  <2>2. /\ req'[r] = "done" /\ \A q \in AllRequests : q # r => req'[q] = req[q]
        /\ Requests \subseteq AllRequests
    BY <2>1 DEF AInv, AllRequests
  <2>3. Owed'
    BY <1>1, <1>2, <2>1, <2>2 DEF QInv, Owed, Stays
  <2>4. CASE r \in LocalRequests
    <3>1. spc' = spc /\ job' = job
      BY <1>6, <2>4 DEF Complete
    <3>2. Messages'
      BY <1>1, <1>2, <3>1, MessagesRest DEF QInv
    <3> QED
      BY <1>1, <2>3, <3>2 DEF QInv
  <2>5. CASE r \notin LocalRequests
    <3>1. /\ spc' = [spc EXCEPT ![th] = "check"] /\ job' = [job EXCEPT ![th] = r]
          /\ r \in Requests
      BY <1>6, <2>5 DEF Complete, AllRequests
    <3>2. spc'[th] = "check" /\ job'[th] = r /\ r # NULL
      BY <1>1, <3>1 DEF AInv, Names
    <3>3. r \notin cancelled => origin[r] = Current /\ Current # 0
      BY <1>4, <2>1, <3>1, Zenon DEF QInv, Owed
    <3>4. Sender(th)'
      BY <1>1, <1>2, <3>2, <3>3, Zenon DEF Sender, Stays
    <3>5. Messages'
      BY <1>1, <1>2, <1>3, <3>1, <3>4, MessagesMove, Zenon DEF QInv
    <3> QED
      BY <1>1, <2>3, <3>5 DEF QInv
  <2> QED
    BY <2>4, <2>5
<1> QED
  BY <1>5, <1>6

\* A sender goes on.
LEMMA QuietSend ==
  ASSUME QInv, AInv, LInv, Types, Names, OnlyClientsClose, NEW s \in Senders, Send(s)
  PROVE  QInv'
<1>1. Calm' /\ Stays /\ Sender(s)
  BY CalmSend DEF QInv, Messages
<1>2. UNCHANGED <<pc, req, pendingRequests, cancelled, origin>>
  BY Zenon DEF Send, CheckCancelled, ReadFd, CheckFd, LockWrite, Write, WriteFails, requestVars,
     clientVars
<1>3. Owed'
  BY <1>1, <1>2, Zenon DEF QInv, Owed, Stays
<1>4. NULL \notin Requests
  BY DEF Names, AllRequests
<1>5. ASSUME Return(s), spc[s] # "data", stream' = stream, writer' = writer \/ writer = s
      PROVE  Messages'
  <2>1. /\ spc' = [spc EXCEPT ![s] = "idle"] /\ job' = [job EXCEPT ![s] = NULL]
        /\ fd' = [fd EXCEPT ![s] = NoFd]
    BY <1>5 DEF Return
  <2>2. spc'[s] = "idle" /\ job'[s] = NULL
    BY <2>1 DEF AInv
  <2>3. Sender(s)'
    BY <1>4, <2>2 DEF Sender
  <2> QED
    BY <1>1, <1>2, <1>5, <2>1, <2>3, MessagesMove, Zenon DEF QInv
<1>6. ASSUME NEW p \in {"readfd", "checkfd", "lock", "header"},
             NEW f, spc' = [spc EXCEPT ![s] = p], job' = job, fd' = [fd EXCEPT ![s] = f],
             stream' = stream, spc[s] \notin {"idle", "data"},
             writer' = writer \/ (writer = NULL /\ writer' = s),
             p = "header" => writer' = s,
             p # "readfd" /\ f # NoFd => f = s_fdCommand /\ Current # 0
      PROVE  Messages'
  <2>1. job' = [job EXCEPT ![s] = job[s]]
    BY <1>6 DEF AInv
  <2>2. spc'[s] = p /\ fd'[s] = f /\ job'[s] = job[s]
    BY <1>6, <2>1, Zenon DEF AInv, Types
  <2>3. p \notin {"idle", "data"} /\ job[s] # NULL
    BY <1>1, <1>6, Zenon DEF Sender
  <2>4. UNCHANGED <<Current, s_fdCommand, stream, origin, cancelled>>
    BY <1>1, <1>2, <1>6 DEF Stays
  <2>5. Sender(s)'
    BY <1>1, <1>6, <2>2, <2>3, <2>4, Zenon DEF Sender
  <2>6. writer' = writer \/ writer \in {NULL, s}
    BY <1>6
  <2>7. /\ spc' = [spc EXCEPT ![s] = p] /\ fd' = [fd EXCEPT ![s] = f]
        /\ spc[s] # "data" /\ p # "data"
    BY <1>6
  <2> QED
    BY <1>1, <2>1, <2>4, <2>5, <2>6, <2>7, MessagesMove, Zenon DEF QInv
<1>7. fd = [fd EXCEPT ![s] = fd[s]]
  BY DEF Types
<1> SUFFICES Messages'
  BY <1>1, <1>3 DEF QInv
<1>8. CASE CheckCancelled(s)
  <2>1. spc[s] = "check" /\ UNCHANGED <<writer, stream>>
    BY <1>8 DEF CheckCancelled
  <2>2. CASE job[s] \in cancelled
    BY <1>5, <1>8, <2>1, <2>2 DEF CheckCancelled
  <2>3. CASE job[s] \notin cancelled
    <3>1. spc' = [spc EXCEPT ![s] = "readfd"] /\ UNCHANGED <<job, fd>>
      BY <1>8, <2>3 DEF CheckCancelled
    <3> QED
      BY <1>6, <1>7, <2>1, <3>1
  <2> QED
    BY <2>2, <2>3
<1>9. CASE ReadFd(s)
  <2>1. /\ spc[s] = "readfd" /\ spc' = [spc EXCEPT ![s] = "checkfd"]
        /\ fd' = [fd EXCEPT ![s] = s_fdCommand] /\ UNCHANGED <<job, writer, stream>>
    BY <1>9 DEF ReadFd
  <2>2. s_fdCommand # NoFd => Current # 0
    BY <2>1 DEF QInv, Calm
  <2> QED
    BY <1>6, <2>1, <2>2, Zenon
<1>10. CASE CheckFd(s)
  <2>1. spc[s] = "checkfd" /\ UNCHANGED <<writer, stream>>
    BY <1>10 DEF CheckFd
  <2>2. CASE s_fdCommand = NoFd
    BY <1>5, <1>10, <2>1, <2>2 DEF CheckFd
  <2>3. CASE s_fdCommand # NoFd
    <3>1. spc' = [spc EXCEPT ![s] = "lock"] /\ UNCHANGED <<job, fd>>
      BY <1>10, <2>3 DEF CheckFd
    <3>2. fd[s] # NoFd => fd[s] = s_fdCommand /\ Current # 0
      BY <1>1, <2>1, Zenon DEF Sender
    <3> QED
      BY <1>6, <1>7, <2>1, <3>1, <3>2
  <2> QED
    BY <2>2, <2>3
<1>11. CASE LockWrite(s)
  <2>1. /\ spc[s] = "lock" /\ spc' = [spc EXCEPT ![s] = "header"]
        /\ writer = NULL /\ writer' = s /\ UNCHANGED <<job, fd, stream>>
    BY <1>11 DEF LockWrite
  <2>2. fd[s] # NoFd => fd[s] = s_fdCommand /\ Current # 0
    BY <1>1, <2>1, Zenon DEF Sender
  <2> QED
    BY <1>6, <1>7, <2>1, <2>2
<1>12. CASE Write(s)
  BY <1>1, <1>12, MessagesWrite DEF QInv
<1>13. CASE WriteFails(s)
  <2>1. spc[s] \in {"header", "data"} /\ Behind(fd[s]) = 0 /\ Return(s) /\ stream' = stream
    BY <1>13, Zenon DEF WriteFails, OnlyClientsClose
  <2>2. spc[s] # "data" /\ writer = s
    BY <1>1, <2>1, Zenon DEF Sender, Current
  <2> QED
    BY <1>5, <2>1, <2>2
<1> QED
  BY <1>8, <1>9, <1>10, <1>11, <1>12, <1>13 DEF Send

\* Every step keeps the invariant of the quiet case.
LEMMA QuietStep ==
  ASSUME QInv, AInv, LInv, Types, Names, OnlyClientsClose, [Next]_vars
  PROVE  QInv'
<1> USE DEF QInv
<1>1. CASE RegisterAdds \/ RegisterTriggers \/ MakePipe \/ AddWakeup
  <2>1. Calm' /\ Stays
    BY <1>1, CalmStart
  <2>2. UNCHANGED <<origin, requestVars, sendVars>>
    BY <1>1 DEF RegisterAdds, RegisterTriggers, MakePipe, AddWakeup, clientVars
  <2>3. pc \notin {"reset", "cancel"} \/ pc' = pc
    BY <1>1 DEF RegisterAdds, RegisterTriggers, MakePipe, AddWakeup
  <2> QED
    BY <2>1, <2>2, <2>3, QuietRest
<1>2. CASE CopyReadFds \/ Select \/ SelectFails \/ ProcessReadReadies \/ NothingPending
  <2>1. Calm' /\ Stays
    BY <1>2, CalmSelect
  <2>2. UNCHANGED <<origin, requestVars, sendVars>> /\ pc \notin {"reset", "cancel"}
    BY <1>2, Zenon DEF CopyReadFds, Select, SelectFails, ProcessReadReadies, NothingPending,
       clientVars
  <2> QED
    BY <2>1, <2>2, QuietRest
<1>3. CASE ProcessWakeupCallback \/ AcceptFails \/ LoopHasSent \/ CommandsDone
  <2>1. Calm' /\ Stays
    BY <1>3, CalmCallbacks
  <2>2. UNCHANGED <<origin, requestVars, sendVars>> /\ pc \notin {"reset", "cancel"}
    BY <1>3, Fires DEF ProcessWakeupCallback, AcceptFails, LoopHasSent, CommandsDone, clientVars
  <2> QED
    BY <2>1, <2>2, QuietRest
<1>4. CASE Accept
  <2>1. Calm' /\ Opens /\ pc = "fire"
    BY <1>4, CalmAccept, Fires DEF Accept
  <2> QED
    BY <2>1, MessagesOpen
<1>5. CASE NewConnection
  BY <1>5, QuietNew
<1>6. CASE CommandsClose
  <2>1. Calm' /\ Ends
    BY <1>6, CalmClose
  <2> QED
    BY <2>1, MessagesEnd
<1>7. CASE CommandsReset
  <2>1. Calm' /\ Ends
    BY <1>7, CalmReset
  <2> QED
    BY <2>1, MessagesEnd
<1>8. CASE CommandsCancel
  BY <1>8, QuietCancel
<1>9. CASE \/ \E r \in Requests : ProcessCommand(r) \/ \E c \in Conns : SendRequest(c, r)
           \/ \E r \in LocalRequests : DebugIssues(r)
  BY <1>9, QuietRequest
<1>10. ~Reject /\ \A r \in LocalRequests : ~DebugCloses(r)
  BY DEF Reject, DebugCloses, OnlyClientsClose
<1>11. ASSUME NEW s \in Senders, Send(s) PROVE QInv'
  BY <1>11, QuietSend
<1>12. ASSUME NEW th \in Threads, OnUnsolicitedResponse(th) \/ \E r \in AllRequests : Complete(th, r)
       PROVE  QInv'
  BY <1>12, QuietVendor
<1>13. ASSUME NEW c \in Conns, Connect(c) \/ Disconnect(c) PROVE QInv'
  <2>1. Calm' /\ Stays
    BY <1>13, CalmClient
  <2>2. UNCHANGED <<origin, requestVars, sendVars, pc>>
    BY <1>13 DEF Connect, Disconnect
  <2> QED
    BY <2>1, <2>2, QuietRest
<1>14. CASE DebugOrder \/ UNCHANGED vars
  <2>1. /\ UNCHANGED <<pc, s_fdCommand, watch_table, cmdFd, rfds, fdtab, conn, spc>>
        /\ UNCHANGED <<origin, requestVars, sendVars>>
    BY <1>14, Zenon DEF DebugOrder, vars, loopVars, requestVars, sendVars
  <2>2. Calm' /\ Stays
    BY <2>1, CalmRest
  <2> QED
    BY <2>1, <2>2, QuietRest
<1> HIDE DEF QInv
<1> QED
  BY <1>1, <1>2, <1>3, <1>4, <1>5, <1>6, <1>7, <1>8, <1>9, <1>10, <1>11, <1>12, <1>13, <1>14
     DEF Next, Register, EventLoop, Client, Vendor

-----------------------------------------------------------------------------

\* The initial states satisfy each of the four invariants.
LEMMA InitTypes ==
  ASSUME Names, Init
  PROVE  /\ Types /\ Closed
         /\ \A e \in Events : ~In(watch_table, e) /\ ~In(pending, e)
<1>1. watch_table = [i \in Slots |-> NULL] /\ pending = [i \in Slots |-> NULL]
  BY DEF Init, Slots
<1>2. watch_table \in Table /\ pending \in Table
  BY <1>1 DEF Table
<1>3. \A e \in Events : ~In(watch_table, e) /\ ~In(pending, e)
  BY <1>1 DEF In, Events, NULL
<1>4. /\ fdtab \in [Fds -> Conns \union {0}] /\ fd \in [Senders -> Fds \union {NoFd}]
      /\ conn \in [Conns -> {"none", "backlog", "open", "eof", "over"}]
      /\ origin \in [Requests -> Conns \union {0}]
  BY DEF Init
<1>5. debugs \in 0..1 /\ unsol \in 0..MaxUnsol /\ rfds \subseteq Events
  BY DEF Init, Names
<1>6. Closed
  BY DEF Init, Closed
<1> QED
  BY <1>2, <1>3, <1>4, <1>5, <1>6, Zenon DEF Init, Types

\* Nothing was sent and nothing answered.
LEMMA InitAnswers ==
  ASSUME Names, Init
  PROVE  AInv
<1>1. /\ stream \in [Conns -> Seq(Part)] /\ \A c \in Conns : stream[c] = <<>> /\ Len(stream[c]) = 0
  BY DEF Init
<1>2. \A c \in Conns : \A k, r : ~Answer(c, k, r)
  <2>1. \A c \in Conns : 1..Len(stream[c]) = {}
    BY <1>1
  <2> QED
    BY <2>1, Zenon DEF Answer
<1>3. /\ req \in [AllRequests -> {"unsent", "sent", "vendor", "done", "lost"}]
      /\ spc \in [Senders -> {"idle", "check", "readfd", "checkfd", "lock", "header", "data"}]
      /\ job \in [Senders -> AllRequests \union {Unsolicited, NULL}]
      /\ \A s \in Senders : job[s] = NULL
      /\ pendingRequests = {} /\ cancelled = {}
  BY DEF Init
<1> QED
  BY <1>1, <1>2, <1>3, Zenon DEF AInv, Names

\* Nothing is watched and nothing is open.
LEMMA InitLoop ==
  ASSUME Names, Init
  PROVE  LInv
<1>1. {"wakeup", "listen", "commands", "debug"} \subseteq Events
  BY DEF Events
<1>2. Once(watch_table) /\ Once(pending)
  BY DEF Init, Once, Slots
<1>3. /\ main = "listen" /\ pc = "pipe" /\ \A f \in Fds : fdtab[f] = 0
  BY DEF Init
<1> QED
  BY <1>1, <1>2, <1>3, InitTypes DEF LInv

\* Nobody sends and no connection was made.
LEMMA InitQuiet ==
  ASSUME Names, Init
  PROVE  QInv
<1>1. \A e \in {"wakeup", "listen", "commands", "debug"} : ~In(watch_table, e) /\ ~In(pending, e)
  BY InitTypes DEF Events
<1>2. /\ \A s \in Senders : spc[s] = "idle" /\ job[s] = NULL
      /\ \A c \in Conns : conn[c] = "none" /\ stream[c] = <<>>
      /\ \A r \in Requests : req[r] = "unsent"
      /\ pc = "pipe" /\ s_fdCommand = NoFd
  BY DEF Init, AllRequests
<1>3. Loop \in Senders /\ NULL \notin Requests
  BY DEF Senders, Names, AllRequests
<1>4. Calm
  BY <1>1, <1>2, <1>3 DEF Calm
<1>5. Owed
  BY <1>2 DEF Owed
<1>6. \A s \in Senders : Sender(s)
  BY <1>2, <1>3, Zenon DEF Sender
<1>7. \A c \in Conns : Len(stream[c]) = 0
  BY <1>2
<1>8. Halves
  <2>1. 0 % 2 # 1
    OBVIOUS
  <2>2. \A c \in Conns : Len(stream[c]) % 2 # 1
    BY <1>7, <2>1, Zenon
  <2> QED
    BY <2>2, Zenon DEF Halves
<1>9. \A c \in Conns : 1..Len(stream[c]) = {}
  BY <1>7
<1>10. Framed
  BY <1>9 DEF Framed
<1>11. AnswersGoHome
  BY <1>9 DEF AnswersGoHome, Answers
<1> QED
  BY <1>4, <1>5, <1>6, <1>8, <1>10, <1>11 DEF QInv, Messages

-----------------------------------------------------------------------------
(* The properties *)

INSTANCE FiniteSetTheorems

\* Answered as AInv has it, counted as AnsweredAtMostOnce has it.
LEMMA AnswersCounted ==
  ASSUME AInv
  PROVE  AnsweredAtMostOnce
<1> SUFFICES ASSUME NEW r \in AllRequests
             PROVE  LET answers == UNION {{<<c, i>> : i \in {k \in Answers(c) : stream[c][k][3] = r}} : c \in Conns}
                        never == LocalRequests \union pendingRequests \union cancelled
                    IN Cardinality(answers) <= (IF r \in never THEN 0 ELSE 1)
  BY DEF AnsweredAtMostOnce
<1> DEFINE answers == UNION {{<<c, i>> : i \in {k \in Answers(c) : stream[c][k][3] = r}} : c \in Conns}
           never == LocalRequests \union pendingRequests \union cancelled
<1>1. ASSUME NEW a \in answers
      PROVE  \E c \in Conns : \E k \in Nat : a = <<c, k>> /\ Answer(c, k, r)
  <2>1. PICK c \in Conns : a \in {<<c, i>> : i \in {k \in Answers(c) : stream[c][k][3] = r}}
    OBVIOUS
  <2>2. PICK k \in Answers(c) : a = <<c, k>> /\ stream[c][k][3] = r
    BY <2>1
  <2>3. Len(stream[c]) \in Nat
    <3>1. stream[c] \in Seq(Part)
      BY Zenon DEF AInv
    <3> QED
      BY <3>1
  <2> QED
    BY <2>2, <2>3 DEF Answers, Answer
<1> HIDE DEF answers
<1>2. r \in never => answers = {}
  BY <1>1 DEF AInv
<1>3. \A a, b \in answers : a = b
  BY <1>1 DEF AInv
<1>4. CASE answers = {}
  <2>1. Cardinality(answers) = 0
    BY <1>4, FS_EmptySet
  <2> QED
    BY <2>1 DEF answers
<1>5. CASE answers # {}
  <2>1. PICK a : a \in answers
    BY <1>5
  <2>2. answers = {a}
    BY <1>3, <2>1
  <2>3. Cardinality(answers) = 1 /\ r \notin never
    BY <1>2, <2>1, <2>2, FS_Singleton
  <2> QED
    BY <2>3 DEF answers
<1> QED
  BY <1>4, <1>5

\* What the invariant says in the words of OneConnection
LEMMA LoopHasOne ==
  ASSUME LInv, Types
  PROVE  OneConnection
<1>1. Cardinality({f \in Fds : fdtab[f] # 0}) <= 1
  <2> DEFINE S == {f \in Fds : fdtab[f] # 0}
  <2>1. CASE S = {}
    BY <2>1, FS_EmptySet
  <2>2. CASE S # {}
    <3>1. S = {s_fdCommand}
      BY <2>2 DEF LInv
    <3>2. Cardinality({s_fdCommand}) = 1
      BY FS_Singleton
    <3> QED
      BY <3>1, <3>2
  <2> QED
    BY <2>1, <2>2
<1>2. s_fdCommand # NoFd /\ fdtab[s_fdCommand] # 0 /\ pc # "reset" => ~Watched("listen")
  <2>1. Watched("listen") => In(watch_table, "listen")
    BY DEF Watched, In, Slots
  <2>2. s_fdCommand # NoFd => s_fdCommand \in Fds
    BY DEF Types
  <2> QED
    BY <2>1, <2>2 DEF LInv, Closed
<1>3. ASSUME NEW e \in Events
      PROVE  Cardinality({i \in 1..MAX_FD_EVENTS : watch_table[i] = e}) <= 1
  <2> DEFINE S == {i \in 1..MAX_FD_EVENTS : watch_table[i] = e}
  <2>1. \A i, j \in S : i = j
    <3>1. e # NULL
      BY DEF Events, NULL
    <3> QED
      BY <3>1 DEF LInv, Once, Slots
  <2>2. CASE S = {}
    BY <2>2, FS_EmptySet
  <2>3. CASE S # {}
    <3>1. PICK i : i \in S
      BY <2>3
    <3>2. S = {i}
      BY <2>1, <3>1
    <3> QED
      BY <3>2, FS_Singleton
  <2> QED
    BY <2>2, <2>3
<1> QED
  BY <1>1, <1>2, <1>3 DEF OneConnection

\* Whatever fails and whoever goes away when: one connection is open at a time, nobody
\* listens while it is, ril_event_add() never puts an event into the table twice, and
\* RIL_onRequestComplete() answers a request at most once, and not at all once
\* onCommandsSocketClosed() has marked it.
THEOREM RequestsSound ==
  ASSUME Names
  PROVE  Spec => [](TypeOK /\ ConnectionSound)
<1> DEFINE Inv == AInv /\ LInv /\ Types
<1>1. Init => Inv
  BY InitTypes, InitAnswers, InitLoop
<1>2. Inv /\ [Next]_vars => Inv'
  BY AnswersStep, LoopStep
<1>3. Inv => ConnectionSound
  BY AnswersCounted, LoopHasOne DEF ConnectionSound
<1>4. Inv => TypeOK
  BY Zenon DEF AInv, Types, Table, Slots, TypeOK
<1> QED
  BY <1>1, <1>2, <1>3, <1>4, PTL DEF Spec

\* While clients go away only when nothing is being sent, an answer reaches the connection
\* that asked, what a client reads is whole messages although several threads write, the
\* assertions of listenCallback() and processCommandsCallback() hold and select() never
\* sees a closed descriptor: for any number of connections, requests and threads.
THEOREM QuietSound ==
  ASSUME Names
  PROVE  Spec => []AnswersGoHomeWhenQuiet
<1>1. CASE OnlyClientsClose
  <2> DEFINE Inv == AInv /\ LInv /\ Types /\ QInv
  <2>1. Init => Inv
    BY InitTypes, InitAnswers, InitLoop, InitQuiet
  <2>2. Inv /\ [Next]_vars => Inv'
    BY <1>1, AnswersStep, LoopStep, QuietStep
  <2>3. Inv => AnswersGoHomeWhenQuiet
    <3> SUFFICES ASSUME Inv PROVE AnswersGoHome /\ Framed /\ LoopGoesOn /\ AssertsHold
      BY DEF AnswersGoHomeWhenQuiet
    <3>1. AnswersGoHome /\ Framed /\ LoopGoesOn
      BY DEF QInv, Messages, Calm, LoopGoesOn
    <3>2. Firing("commands") => cmdFd = s_fdCommand
      BY Fires, Zenon DEF LInv, QInv, Calm
    <3>3. Firing("listen") => s_fdCommand = NoFd
      BY Fires, Zenon DEF LInv, QInv, Calm
    <3> QED
      BY <3>1, <3>2, <3>3 DEF AssertsHold
  <2> QED
    BY <2>1, <2>2, <2>3, PTL DEF Spec
<1>2. CASE ~OnlyClientsClose
  <2>1. AnswersGoHomeWhenQuiet
    BY <1>2 DEF AnswersGoHomeWhenQuiet
  <2> QED
    BY <2>1, PTL
<1> QED
  BY <1>1, <1>2
=============================================================================

----------------------------- MODULE Win32Files -----------------------------
(***************************************************************************)
(* tools/adb/sysdeps_win32.c: the table of descriptors, shared by the      *)
(* threads of adb on Windows.                                              *)
(*                                                                         *)
(* Every descriptor is made in the same way: _fh_alloc() takes an entry    *)
(* under _win32_lock, one or more system calls follow, and when one of     *)
(* them fails _fh_close() gives the entry back.  _fh_close() takes no lock.*)
(***************************************************************************)
EXTENDS Integers, Sequences

CONSTANTS Threads, WIN32_MAX_FHS, Operations

VARIABLES
  count,    \* _win32_fh_count
  clazz,    \* of an entry, "none" for NULL
  inUse,    \* its field used
  handle,   \* whether it holds a file, a socket or a pair
  pc, op,   \* of a thread
  fh,       \* entries the thread is working on
  mine,     \* descriptors it has been given
  left      \* entries that socket_loopback_server() did not give back

vars == <<count, clazz, inUse, handle, pc, op, fh, mine, left>>

-----------------------------------------------------------------------------

Entries == 1..WIN32_MAX_FHS

\* What the operations call once they have an entry.
adb_open_calls == <<"CreateFile">>
adb_creat_calls == <<"CreateFile">>
loopback_client_calls == <<"socket", "connect">>
loopback_server_calls == <<"socket", "bind", "listen">>
network_client_calls == <<"gethostbyname", "socket", "connect">>
inaddr_any_server_calls == <<"socket", "bind", "listen">>
accept_calls == <<"accept">>
socketpair_calls == <<"malloc">>

Calls ==
  [adb_open |-> adb_open_calls, adb_creat |-> adb_creat_calls,
   socket_loopback_client |-> loopback_client_calls,
   socket_loopback_server |-> loopback_server_calls,
   socket_network_client |-> network_client_calls,
   socket_inaddr_any_server |-> inaddr_any_server_calls,
   adb_socket_accept |-> accept_calls, adb_socketpair |-> socketpair_calls]
Creates == {"CreateFile", "socket", "accept", "malloc"}

Class(o) == IF o \in {"adb_open", "adb_creat"} THEN "file"
            ELSE IF o = "adb_socketpair" THEN "pair" ELSE "socket"

Init ==
  /\ count = 0 /\ clazz = [e \in Entries |-> "none"]
  /\ inUse = [e \in Entries |-> FALSE] /\ handle = [e \in Entries |-> FALSE]
  /\ pc = [t \in Threads |-> 0] /\ op = [t \in Threads |-> "none"]
  /\ fh = [t \in Threads |-> << >>] /\ mine = [t \in Threads |-> {}] /\ left = {}

Set(f, t, v) == [f EXCEPT ![t] = v]

\* A mutant: an entry is free as soon as it is not used.
FreeNotUsed == IF count < WIN32_MAX_FHS THEN {count + 1} ELSE {e \in Entries : ~inUse[e]}

\* The entries _fh_alloc() chooses from: a new one while there are any, then the
\* first one without a class.
Free == IF count < WIN32_MAX_FHS THEN {count + 1} ELSE {e \in Entries : clazz[e] = "none"}

\* _fh_alloc(): a pair needs two entries.
Alloc(t, o) ==
  LET e == CHOOSE x \in Free : \A y \in Free : x <= y
  IN /\ \/ pc[t] = 0
        \/ o = "adb_socketpair" /\ op[t] = o /\ pc[t] = 1 /\ Len(fh[t]) = 1
     /\ Free # {}
     /\ count' = IF count < WIN32_MAX_FHS THEN count + 1 ELSE count
     /\ clazz' = Set(clazz, e, Class(o)) /\ inUse' = Set(inUse, e, TRUE)
     /\ handle' = Set(handle, e, FALSE)
     /\ op' = Set(op, t, o) /\ fh' = [fh EXCEPT ![t] = Append(@, e)] /\ pc' = Set(pc, t, 1)
     /\ UNCHANGED <<mine, left>>

\* There is none: the operation fails.
AllocFails(t, o) ==
  /\ pc[t] = 0 /\ o # "adb_socketpair" /\ Free = {} /\ op' = Set(op, t, o)
  /\ UNCHANGED <<count, clazz, inUse, handle, pc, fh, mine, left>>

\* An entry of a pair is missing: _fh_close() is called with NULL, and the program
\* ends.
PairAllocFails(t) ==
  /\ pc[t] = 0 \/ (pc[t] = 1 /\ op[t] = "adb_socketpair" /\ Len(fh[t]) = 1)
  /\ Free = {} /\ "adb_socketpair" \in Operations /\ pc' = Set(pc, t, 99)
  /\ UNCHANGED <<count, clazz, inUse, handle, op, fh, mine, left>>

\* Both entries of a pair have been made, or the only one of another descriptor.
Allocated(t) == pc[t] \in 1..3 /\ Len(fh[t]) = (IF op[t] = "adb_socketpair" THEN 2 ELSE 1)
Entry(t) == {fh[t][i] : i \in DOMAIN fh[t]}
Call(t) == Calls[op[t]][pc[t]]

CallSucceeds(t) ==
  LET last == pc[t] = Len(Calls[op[t]])
  IN /\ Allocated(t)
     /\ handle' = IF Call(t) \in Creates
                  THEN [e \in Entries |-> e \in Entry(t) \/ handle[e]] ELSE handle
     /\ pc' = Set(pc, t, IF last THEN 0 ELSE pc[t] + 1)
     /\ mine' = IF last THEN [mine EXCEPT ![t] = @ \cup Entry(t)] ELSE mine
     /\ fh' = IF last THEN Set(fh, t, << >>) ELSE fh
     /\ UNCHANGED <<count, clazz, inUse, op, left>>

\* A call fails: the entry is closed, both entries of a pair.
CallFails(t) ==
  /\ Allocated(t) /\ ~(op[t] = "socket_loopback_server" /\ Call(t) = "socket")
  /\ pc' = Set(pc, t, -1)
  /\ UNCHANGED <<count, clazz, inUse, handle, op, fh, mine, left>>

\* socket_loopback_server() returns -1 and keeps the entry when there is no socket.
ServerSocketFails(t) ==
  /\ Allocated(t) /\ op[t] = "socket_loopback_server" /\ Call(t) = "socket"
  /\ pc' = Set(pc, t, 0) /\ fh' = Set(fh, t, << >>) /\ left' = left \union Entry(t)
  /\ UNCHANGED <<count, clazz, inUse, handle, op, mine>>

\* adb_close(): the thread does not use the descriptor any more.
adb_close(t, e) ==
  /\ pc[t] = 0 /\ e \in mine[t]
  /\ mine' = [mine EXCEPT ![t] = @ \ {e}]
  /\ fh' = Set(fh, t, <<e>>) /\ pc' = Set(pc, t, -1) /\ op' = Set(op, t, "adb_close")
  /\ UNCHANGED <<count, clazz, inUse, handle, left>>

\* _fh_close(), without the lock: the class closes what it holds, then the entry
\* is not used, then it has no class.
CloseHandle(t) ==
  /\ pc[t] = -1 /\ handle' = Set(handle, Head(fh[t]), FALSE) /\ pc' = Set(pc, t, -2)
  /\ UNCHANGED <<count, clazz, inUse, op, fh, mine, left>>

CloseUsed(t) ==
  /\ pc[t] = -2 /\ inUse' = Set(inUse, Head(fh[t]), FALSE) /\ pc' = Set(pc, t, -3)
  /\ UNCHANGED <<count, clazz, handle, op, fh, mine, left>>

CloseClass(t) ==
  /\ pc[t] = -3 /\ clazz' = Set(clazz, Head(fh[t]), "none")
  /\ fh' = [fh EXCEPT ![t] = Tail(@)] /\ pc' = Set(pc, t, IF Len(fh[t]) = 1 THEN 0 ELSE -1)
  /\ UNCHANGED <<count, inUse, handle, op, mine, left>>

-----------------------------------------------------------------------------

Next ==
  \E t \in Threads :
    \/ \E o \in Operations : Alloc(t, o) \/ AllocFails(t, o)
    \/ PairAllocFails(t) \/ CallSucceeds(t) \/ CallFails(t) \/ ServerSocketFails(t)
    \/ \E e \in Entries : adb_close(t, e)
    \/ CloseHandle(t) \/ CloseUsed(t) \/ CloseClass(t)

Spec == Init /\ [][Next]_vars

-----------------------------------------------------------------------------

Holds(t) == mine[t] \cup Entry(t)

\* No entry is given out twice, whatever _fh_close() of another thread has come to,
\* and a descriptor that was given out stays open until it is closed.
EntriesExclusive ==
  /\ \A t \in Threads : mine[t] \cap Entry(t) = {}
  /\ \A t, u \in Threads : t # u => Holds(t) \cap Holds(u) = {}
  /\ \A t \in Threads : \A e \in mine[t] : inUse[e] /\ clazz[e] # "none" /\ handle[e]

\* What the code does not guarantee: without a free entry adb_socketpair() crashes.
NoCrash == \A t \in Threads : pc[t] # 99

\* Every entry with a class belongs to somebody, who will give it back, but for the ones
\* that socket_loopback_server() left: these are lost for good, and hold nothing.
NoEntryLost ==
  \A e \in Entries :
    IF e \in left THEN clazz[e] = "socket" /\ ~handle[e] /\ \A t \in Threads : e \notin Holds(t)
    ELSE clazz[e] # "none" => \E t \in Threads : e \in Holds(t)

\* What the code does not guarantee: socket_loopback_server() gives its entry back, too.
NoneLeft == left = {}
=============================================================================

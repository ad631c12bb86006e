-------------------------- MODULE BipBuffer_proofs --------------------------
(***************************************************************************)
(* For buffers of every size: the regions of the emulated socket pairs are *)
(* sound, bytes come out in order, and the buffer implements ByteQueue.    *)
(***************************************************************************)
EXTENDS BipBuffer, TLAPS

Room == a_end < BIP_BUFFER_SIZE \/ b_end < a_start
Data == a_start < a_end

\* The lock is held by who is in the critical section, and the flags that the
\* holder has not yet brought up to date are known.
LockInv ==
  /\ lock = "w" <=> pc["w"] = "leave"
  /\ lock = "r" <=> pc["r"] = "leave"
  /\ lock = "w" => Data /\ (can_write <=> Room)
  /\ lock = "r" => Room /\ (can_read <=> Data)

\* Region A holds the next bytes, region B the ones after them.
ContentInv ==
  /\ \A i \in a_start..(a_end - 1) : buff[i] = taken + 1 + (i - a_start)
  /\ \A i \in 0..(b_end - 1) : buff[i] = taken + 1 + (a_end - a_start) + i
  /\ written = taken + (a_end - a_start) + b_end

IInv ==
  /\ TypeOK
  /\ RegionsSound
  /\ LockInv
  /\ ContentInv
  /\ inOrder
  /\ \A e \in Ends : pc[e] \in {"enter", "blocked", "wait"} => len[e] \in Nat \ {0}

-----------------------------------------------------------------------------

\* The initial states.
LEMMA InitIInv == Init => IInv
  <1> SUFFICES ASSUME Init PROVE IInv
    OBVIOUS
  <1>1. TypeOK
    <2>1. /\ a_start \in Nat /\ a_end \in Nat /\ b_end \in Nat
          /\ buff \in [0..(BIP_BUFFER_SIZE - 1) -> Nat]
          /\ used \in Int /\ written \in Nat /\ taken \in Nat /\ len \in [Ends -> Int]
      BY BipAssumption DEF Init
    <2>2. /\ can_read \in BOOLEAN /\ can_write \in BOOLEAN /\ evt_read \in BOOLEAN
          /\ evt_write \in BOOLEAN /\ closed \in BOOLEAN /\ freed \in BOOLEAN
          /\ inOrder \in BOOLEAN /\ lock \in {"free", "w", "r"}
      BY Zenon DEF Init
    <2>3. pc \in [Ends -> {"idle", "enter", "blocked", "wait", "leave", "close_read",
                          "close_write", "count", "store", "gone"}]
      BY DEF Init
    <2> QED
      BY <2>1, <2>2, <2>3 DEF TypeOK
  <1>2. RegionsSound
    <2>1. /\ a_start <= a_end /\ a_end < BIP_BUFFER_SIZE /\ b_end <= a_start /\ ~(b_end > 0)
          /\ a_end = 0 /\ ~(a_start < a_end)
      BY BipAssumption DEF Init
    <2>2. a_end <= BIP_BUFFER_SIZE
      BY <2>1, BipAssumption
    <2>3. can_read = FALSE /\ can_write = TRUE
      BY DEF Init
    <2> QED
      BY <2>1, <2>2, <2>3, Zenon DEF RegionsSound
  <1>3. LockInv /\ ContentInv /\ inOrder
    BY DEF Init, LockInv, ContentInv, Ends
  <1>4. \A e \in Ends : pc[e] \in {"enter", "blocked", "wait"} => len[e] \in Nat \ {0}
    BY DEF Init
  <1> QED
    BY <1>1, <1>2, <1>3, <1>4 DEF IInv

-----------------------------------------------------------------------------
(* The steps that leave the regions, the flags and the lock alone          *)

\* Calls, waits, and the closing of the pair.
LEMMA QuietIInv ==
  ASSUME IInv, NEW e \in Ends,
         UNCHANGED <<regions, flags, lock, ghost>>,
         pc[e] # "leave",
         pc' = [pc EXCEPT ![e] = pc'[e]],
         pc'[e] # "leave",
         TypeOK',
         \A x \in Ends : pc'[x] \in {"enter", "blocked", "wait"} => len'[x] \in Nat \ {0}
  PROVE  IInv'
  <1>1. RegionsSound' /\ ContentInv' /\ inOrder'
    BY DEF IInv, RegionsSound, ContentInv, regions, flags, ghost
  <1>2. \A x \in Ends : pc'[x] = "leave" <=> pc[x] = "leave"
    BY DEF IInv, TypeOK
  <1>3. LockInv'
    BY <1>2 DEF IInv, LockInv, regions, flags, Room, Data, Ends
  <1> QED
    BY <1>1, <1>3 DEF IInv

LEMMA EndStepIInv ==
  ASSUME IInv, NEW e \in Ends,
         (\E n \in Lens : Call(e, n)) \/ CloseMark(e) \/ EndStep(e)
  PROVE  IInv'
  <1>1. /\ UNCHANGED <<regions, flags, lock, ghost>>
        /\ pc[e] # "leave" /\ pc'[e] # "leave"
        /\ pc' = [pc EXCEPT ![e] = pc'[e]]
    <2> /\ UNCHANGED <<regions, flags, lock, ghost>>
        /\ pc[e] # "leave"
        /\ \E l \in {"enter", "blocked", "idle", "wait", "close_read", "close_write",
                     "count", "store", "gone"} : pc' = [pc EXCEPT ![e] = l]
      BY DEF Call, CloseMark, EndStep, Block, Blocked, Wake, CloseRead, CloseWrite,
             CountLoad, CountStore, Goto
    <2> QED
      BY DEF IInv, TypeOK
  <1>2. TypeOK'
    <2>1. /\ pc' \in [Ends -> {"idle", "enter", "blocked", "wait", "leave", "close_read",
                               "close_write", "count", "store", "gone"}]
          /\ len' \in [Ends -> Int]
      <3>1. CASE \E n \in Lens : Call(e, n)
        BY <3>1, BipAssumption DEF IInv, TypeOK, Call, Goto
      <3>2. CASE CloseMark(e) \/ Block(e) \/ Blocked(e) \/ Wake(e) \/ CloseRead(e) \/ CloseWrite(e)
        BY <3>2 DEF IInv, TypeOK, CloseMark, Block, Blocked, Wake, CloseRead, CloseWrite, Goto
      <3>3. CASE CountLoad(e) \/ CountStore(e)
        BY <3>3 DEF IInv, TypeOK, CountLoad, CountStore, Goto
      <3> QED
        BY <3>1, <3>2, <3>3 DEF EndStep
    <2>2. /\ evt_read' \in BOOLEAN /\ evt_write' \in BOOLEAN /\ closed' \in BOOLEAN
      BY DEF IInv, TypeOK, Call, CloseMark, EndStep, Block, Blocked, Wake, CloseRead,
             CloseWrite, CountLoad, CountStore, events
    <2>3. used' \in Int
      BY DEF IInv, TypeOK, Call, CloseMark, EndStep, Block, Blocked, Wake, CloseRead,
             CloseWrite, CountLoad, CountStore, pair
    <2>4. freed' \in BOOLEAN
      BY DEF IInv, TypeOK, Call, CloseMark, EndStep, Block, Blocked, Wake, CloseRead,
             CloseWrite, CountLoad, CountStore, pair
    <2> QED
      BY <1>1, <2>1, <2>2, <2>3, <2>4 DEF IInv, TypeOK, regions, flags, ghost
  <1>3. \A x \in Ends : pc'[x] \in {"enter", "blocked", "wait"} => len'[x] \in Nat \ {0}
    <2> SUFFICES ASSUME NEW x \in Ends, pc'[x] \in {"enter", "blocked", "wait"} PROVE len'[x] \in Nat \ {0}
      OBVIOUS
    <2>1. CASE \E n \in Lens : Call(e, n)
      BY <2>1, BipAssumption DEF IInv, TypeOK, Call, Goto
    <2>2. CASE CloseMark(e)
      BY <2>2 DEF IInv, TypeOK, CloseMark, Goto
    <2>3. CASE EndStep(e)
      <3>1. CASE Block(e) \/ Blocked(e)
        BY <3>1 DEF IInv, TypeOK, Block, Blocked, Goto
      <3>2. CASE Wake(e)
        \* the length of a call that has waited is still the one asked for
        BY <3>2 DEF IInv, TypeOK, Wake, Goto
      <3>3. CASE CloseRead(e) \/ CloseWrite(e) \/ CountLoad(e) \/ CountStore(e)
        BY <3>3 DEF IInv, TypeOK, CloseRead, CloseWrite, CountLoad, CountStore, Goto
      <3> QED
        BY <2>3, <3>1, <3>2, <3>3 DEF EndStep
    <2> QED
      BY <2>1, <2>2, <2>3
  <1> QED
    BY <1>1, <1>2, <1>3, QuietIInv

-----------------------------------------------------------------------------
(* bip_buffer_write()                                                      *)

\* What a write does to the regions, with na bytes into A and nb into B.
LEMMA WriteShape ==
  ASSUME IInv, Write
  PROVE  \E na \in Nat, nb \in Nat :
           /\ na + nb > 0
           /\ a_end' = a_end + na /\ b_end' = b_end + nb /\ a_start' = a_start
           /\ a_end + na <= BIP_BUFFER_SIZE /\ b_end + nb <= a_start
           /\ nb > 0 => a_end + na = BIP_BUFFER_SIZE
           /\ written' = written + na + nb
           /\ buff' \in [0..(BIP_BUFFER_SIZE - 1) -> Nat]
           /\ \A i \in 0..(BIP_BUFFER_SIZE - 1) :
                buff'[i] = IF i \in b_end..(b_end + nb - 1) THEN written + na + 1 + (i - b_end)
                           ELSE IF i \in a_end..(a_end + na - 1) THEN written + 1 + (i - a_end)
                           ELSE buff[i]
           /\ can_write' <=> (a_end + na < BIP_BUFFER_SIZE \/ b_end + nb < a_start)
  <1> DEFINE n == len["w"]
             na == Least(BIP_BUFFER_SIZE - a_end, n)
             full == a_end < BIP_BUFFER_SIZE /\ a_end + na = BIP_BUFFER_SIZE /\ a_start = 0
             mb == IF full THEN 0 ELSE Least(a_start - b_end, n - na)
             nb == IF n = na THEN 0 ELSE mb
  <1>1. /\ a_start \in Nat /\ a_end \in Nat /\ b_end \in Nat /\ BIP_BUFFER_SIZE \in Nat
        /\ written \in Nat /\ n \in Nat \ {0}
        /\ a_start <= a_end /\ a_end <= BIP_BUFFER_SIZE /\ b_end <= a_start
        /\ b_end > 0 => a_end = BIP_BUFFER_SIZE
        /\ a_end < BIP_BUFFER_SIZE \/ b_end < a_start
    BY BipAssumption DEF IInv, TypeOK, RegionsSound, Write, Ends
  <1>2. na \in Nat /\ na <= n /\ a_end + na <= BIP_BUFFER_SIZE
        /\ (na < n => a_end + na = BIP_BUFFER_SIZE)
    BY <1>1 DEF Least
  <1>3. nb \in Nat /\ mb \in Nat /\ b_end + nb <= a_start /\ na + nb > 0
        /\ (nb > 0 => a_end + na = BIP_BUFFER_SIZE)
    BY <1>1, <1>2 DEF Least
  <1>4. /\ a_end' = a_end + na /\ b_end' = b_end + nb /\ a_start' = a_start
        /\ written' = written + na + nb
    BY <1>1, <1>2, <1>3 DEF Write
  <1>5. can_write' <=> (a_end + na < BIP_BUFFER_SIZE \/ b_end + nb < a_start)
    <2>1. can_write' = ~(full \/ (n # na /\ b_end + mb = a_start))
      BY DEF Write
    <2> HIDE DEF n, na
    <2>2. (full \/ (n # na /\ b_end + mb = a_start))
             <=> ~(a_end + na < BIP_BUFFER_SIZE \/ b_end + nb < a_start)
      BY <1>1, <1>2, <1>3 DEF Least
    <2> QED
      BY <2>1, <2>2
  <1>6. /\ buff' \in [0..(BIP_BUFFER_SIZE - 1) -> Nat]
        /\ \A i \in 0..(BIP_BUFFER_SIZE - 1) :
             buff'[i] = IF i \in b_end..(b_end + nb - 1) THEN written + na + 1 + (i - b_end)
                        ELSE IF i \in a_end..(a_end + na - 1) THEN written + 1 + (i - a_end)
                        ELSE buff[i]
    <2> DEFINE b1 == Put(buff, a_end, na, written + 1)
               b2 == Put(b1, b_end, mb, written + na + 1)
    <2>1. buff' = IF n = na THEN b1 ELSE b2
      BY DEF Write
    <2>2. buff \in [0..(BIP_BUFFER_SIZE - 1) -> Nat]
      BY DEF IInv, TypeOK
    <2>3. /\ b1 \in [0..(BIP_BUFFER_SIZE - 1) -> Nat]
          /\ \A i \in 0..(BIP_BUFFER_SIZE - 1) :
               b1[i] = IF i \in a_end..(a_end + na - 1) THEN written + 1 + (i - a_end) ELSE buff[i]
      <3>1. written + 1 \in Nat
        BY <1>1
      <3> HIDE DEF na
      <3> QED
        BY <2>2, <3>1, <1>1, <1>2 DEF Put
    <2>4. /\ b2 \in [0..(BIP_BUFFER_SIZE - 1) -> Nat]
          /\ \A i \in 0..(BIP_BUFFER_SIZE - 1) :
               b2[i] = IF i \in b_end..(b_end + mb - 1) THEN written + na + 1 + (i - b_end) ELSE b1[i]
      <3>1. written + na + 1 \in Nat
        BY <1>1, <1>2
      <3> HIDE DEF na, mb, b1
      <3> QED
        BY <2>3, <3>1, <1>1, <1>2, <1>3 DEF Put
    <2> HIDE DEF b1, b2, na, mb, n
    <2> QED
      BY <2>1, <2>3, <2>4, <1>1, <1>2, <1>3
  <1> HIDE DEF na, nb, n
  <1> QED
    BY <1>2, <1>3, <1>4, <1>5, <1>6

LEMMA WriteIInv ==
  ASSUME IInv, Write
  PROVE  IInv'
  <1>1. PICK na \in Nat, nb \in Nat :
           /\ na + nb > 0
           /\ a_end' = a_end + na /\ b_end' = b_end + nb /\ a_start' = a_start
           /\ a_end + na <= BIP_BUFFER_SIZE /\ b_end + nb <= a_start
           /\ nb > 0 => a_end + na = BIP_BUFFER_SIZE
           /\ written' = written + na + nb
           /\ buff' \in [0..(BIP_BUFFER_SIZE - 1) -> Nat]
           /\ \A i \in 0..(BIP_BUFFER_SIZE - 1) :
                buff'[i] = IF i \in b_end..(b_end + nb - 1) THEN written + na + 1 + (i - b_end)
                           ELSE IF i \in a_end..(a_end + na - 1) THEN written + 1 + (i - a_end)
                           ELSE buff[i]
           /\ can_write' <=> (a_end + na < BIP_BUFFER_SIZE \/ b_end + nb < a_start)
    BY WriteShape
  <1>2. /\ a_start \in Nat /\ a_end \in Nat /\ b_end \in Nat /\ BIP_BUFFER_SIZE \in Nat
        /\ written \in Nat /\ taken \in Nat /\ written = taken + (a_end - a_start) + b_end
        /\ a_start <= a_end /\ a_end <= BIP_BUFFER_SIZE /\ b_end <= a_start
        /\ b_end > 0 => a_end = BIP_BUFFER_SIZE
        /\ a_start = a_end => a_end = 0
    BY BipAssumption DEF IInv, TypeOK, RegionsSound, ContentInv
  <1>3. /\ UNCHANGED <<can_read, evt_read, evt_write, closed, used, freed, len, taken, inOrder>>
        /\ lock = "free" /\ lock' = "w" /\ pc' = [pc EXCEPT !["w"] = "leave"]
        /\ can_write' \in BOOLEAN
    BY DEF Write, Goto, events, pair
  <1>4. TypeOK'
    <2>1. a_start' \in Nat /\ a_end' \in Nat /\ b_end' \in Nat /\ written' \in Nat
      BY <1>1, <1>2
    <2>2. pc' \in [Ends -> {"idle", "enter", "blocked", "wait", "leave", "close_read",
                           "close_write", "count", "store", "gone"}]
      BY <1>3 DEF IInv, TypeOK
    <2> QED
      BY <1>1, <1>3, <2>1, <2>2 DEF IInv, TypeOK
  <1>5. a_start' < a_end'
    BY <1>1, <1>2
  <1>6. RegionsSound'
    <2>1. /\ (a_start <= a_end)' /\ (a_end <= BIP_BUFFER_SIZE)' /\ (b_end <= a_start)'
          /\ (b_end > 0 => a_end = BIP_BUFFER_SIZE)' /\ ~(a_start = a_end)'
      BY <1>1, <1>2
    <2>2. can_write' => (a_end' < BIP_BUFFER_SIZE \/ b_end' < a_start')
      BY <1>1
    <2> QED
      BY <2>1, <2>2, <1>3, <1>5, Zenon DEF RegionsSound
  <1>7. LockInv'
    <2>1. pc["r"] # "leave" /\ pc["w"] # "leave" /\ pc'["w"] = "leave" /\ pc'["r"] # "leave"
      BY <1>3 DEF IInv, LockInv, TypeOK, Ends
    <2> QED
      BY <2>1, <1>1, <1>3, <1>5 DEF LockInv, Data, Room
  <1>8. ContentInv'
    <2>0. taken' = taken
      BY <1>3
    <2>1. ASSUME NEW i \in a_start..(a_end + na - 1)
          PROVE  buff'[i] = taken + 1 + (i - a_start)
      <3>1. i \in 0..(BIP_BUFFER_SIZE - 1) /\ i \notin b_end..(b_end + nb - 1)
        BY <1>1, <1>2
      <3>2. CASE i \in a_end..(a_end + na - 1)
        <4>1. a_end < BIP_BUFFER_SIZE /\ b_end = 0
          BY <3>2, <1>1, <1>2
        <4> QED
          BY <3>1, <3>2, <4>1, <1>1, <1>2
      <3>3. CASE i \notin a_end..(a_end + na - 1)
        <4>1. i \in a_start..(a_end - 1)
          BY <3>3, <1>1, <1>2
        <4>2. buff[i] = taken + 1 + (i - a_start)
          BY <4>1 DEF IInv, ContentInv
        <4> QED
          BY <3>1, <3>3, <4>2, <1>1
      <3> QED
        BY <3>2, <3>3
    <2>2. ASSUME NEW i \in 0..(b_end + nb - 1)
          PROVE  buff'[i] = taken + 1 + (a_end + na - a_start) + i
      <3>1. i \in 0..(BIP_BUFFER_SIZE - 1) /\ i \notin a_end..(a_end + na - 1)
        BY <1>1, <1>2
      <3>2. CASE i \in b_end..(b_end + nb - 1)
        BY <3>1, <3>2, <1>1, <1>2
      <3>3. CASE i \notin b_end..(b_end + nb - 1)
        <4>1. i \in 0..(b_end - 1) /\ na = 0
          BY <3>3, <1>1, <1>2
        <4>2. buff[i] = taken + 1 + (a_end - a_start) + i
          BY <4>1 DEF IInv, ContentInv
        <4> QED
          BY <3>1, <3>3, <4>1, <4>2, <1>1, <1>2
      <3> QED
        BY <3>2, <3>3
    <2>3. written' = taken + (a_end + na - a_start) + (b_end + nb)
      BY <1>1, <1>2
    <2>4. \A i \in a_start'..(a_end' - 1) : buff'[i] = taken' + 1 + (i - a_start')
      BY <2>0, <2>1, <1>1, <1>2
    <2>5. \A i \in 0..(b_end' - 1) : buff'[i] = taken' + 1 + (a_end' - a_start') + i
      BY <2>0, <2>2, <1>1, <1>2
    <2>6. written' = taken' + (a_end' - a_start') + b_end'
      BY <2>0, <2>3, <1>1, <1>2
    <2> QED
      BY <2>4, <2>5, <2>6 DEF ContentInv
  <1>9. inOrder' /\ \A e \in Ends : pc'[e] \in {"enter", "blocked", "wait"} => len'[e] \in Nat \ {0}
    BY <1>3 DEF IInv, TypeOK
  <1> QED
    BY <1>4, <1>6, <1>7, <1>8, <1>9 DEF IInv

\* The events and the flags after a write.
LEMMA WriteLeaveIInv ==
  ASSUME IInv, WriteLeave
  PROVE  IInv'
  <1>1. /\ UNCHANGED <<a_start, a_end, b_end, buff, can_write, closed, used, freed, len,
                       written, taken, inOrder>>
        /\ can_read' = TRUE /\ lock' = "free" /\ pc' = [pc EXCEPT !["w"] = "idle"]
        /\ pc["w"] = "leave" /\ evt_read' \in BOOLEAN /\ evt_write' \in BOOLEAN
    BY DEF WriteLeave, Goto, regions, pair, ghost
  <1>2. TypeOK'
    <2>1. pc' \in [Ends -> {"idle", "enter", "blocked", "wait", "leave", "close_read",
                           "close_write", "count", "store", "gone"}]
      BY <1>1 DEF IInv, TypeOK
    <2> QED
      BY <1>1, <2>1 DEF IInv, TypeOK
  <1>3. lock = "w" /\ Data /\ (can_write <=> Room) /\ pc["r"] # "leave"
    BY <1>1 DEF IInv, LockInv
  <1>4. RegionsSound'
    BY <1>1, <1>3 DEF IInv, RegionsSound, Data, Room
  <1>5. LockInv'
    BY <1>1, <1>3 DEF LockInv, IInv, TypeOK, Ends
  <1>6. ContentInv'
    BY <1>1 DEF IInv, ContentInv
  <1>7. inOrder' /\ \A e \in Ends : pc'[e] \in {"enter", "blocked", "wait"} => len'[e] \in Nat \ {0}
    BY <1>1 DEF IInv, TypeOK
  <1> QED
    BY <1>2, <1>4, <1>5, <1>6, <1>7 DEF IInv

-----------------------------------------------------------------------------
(* bip_buffer_read()                                                       *)

\* What a read does to the regions, with na bytes from A and nb from what was B.
LEMMA ReadShape ==
  ASSUME IInv, Read
  PROVE  \E na \in Nat, nb \in Nat :
           /\ na > 0 /\ a_start + na <= a_end /\ nb <= b_end
           /\ taken' = taken + na + nb
           /\ \/ /\ a_start + na < a_end /\ nb = 0
                 /\ a_start' = a_start + na /\ a_end' = a_end /\ b_end' = b_end
              \/ /\ a_start + na = a_end /\ nb < b_end
                 /\ a_start' = nb /\ a_end' = b_end /\ b_end' = 0
              \/ /\ a_start + na = a_end /\ nb = b_end
                 /\ a_start' = 0 /\ a_end' = 0 /\ b_end' = 0
           /\ can_read' <=> a_start' < a_end'
           /\ inOrder'
  <1> DEFINE n == len["r"]
             na == Least(a_end - a_start, n)
             swap == a_start + na = a_end
             nb == IF swap THEN Least(b_end, n - na) ELSE 0
             empty == swap /\ nb = b_end
  <1>1. /\ a_start \in Nat /\ a_end \in Nat /\ b_end \in Nat /\ BIP_BUFFER_SIZE \in Nat
        /\ taken \in Nat /\ n \in Nat \ {0}
        /\ a_start < a_end /\ a_end <= BIP_BUFFER_SIZE /\ b_end <= a_start
    BY BipAssumption DEF IInv, TypeOK, RegionsSound, Read, Ends
  <1>2. na \in Nat /\ na > 0 /\ na <= n /\ a_start + na <= a_end
    BY <1>1 DEF Least
  <1>3. nb \in Nat /\ nb <= b_end /\ (~swap => nb = 0)
    BY <1>1, <1>2 DEF Least
  <1>4. /\ a_start' = IF empty THEN 0 ELSE IF swap THEN nb ELSE a_start + na
        /\ a_end' = IF empty THEN 0 ELSE IF swap THEN b_end ELSE a_end
        /\ b_end' = IF swap THEN 0 ELSE b_end
        /\ taken' = taken + na + nb
        /\ can_read' = ~empty
        /\ inOrder' = (/\ inOrder
                       /\ \A i \in 0..(na - 1) : buff[a_start + i] = taken + 1 + i
                       /\ \A i \in 0..(nb - 1) : buff[i] = taken + na + 1 + i)
    BY DEF Read
  <1>5. inOrder'
    <2>1. ASSUME NEW i \in 0..(na - 1) PROVE buff[a_start + i] = taken + 1 + i
      <3>1. a_start + i \in a_start..(a_end - 1)
        BY <1>1, <1>2
      <3>2. buff[a_start + i] = taken + 1 + ((a_start + i) - a_start)
        BY <3>1 DEF IInv, ContentInv
      <3> QED
        BY <3>2, <1>1, <1>2
    <2>2. ASSUME NEW i \in 0..(nb - 1) PROVE buff[i] = taken + na + 1 + i
      <3>1. i \in 0..(b_end - 1) /\ na = a_end - a_start
        BY <1>1, <1>2, <1>3
      <3>2. buff[i] = taken + 1 + (a_end - a_start) + i
        BY <3>1 DEF IInv, ContentInv
      <3> QED
        BY <3>1, <3>2, <1>1
    <2>3. inOrder
      BY DEF IInv
    <2> HIDE DEF na, nb
    <2> QED
      BY <1>4, <2>1, <2>2, <2>3, Zenon
  <1> HIDE DEF n, na, nb
  <1>6. \/ /\ a_start + na < a_end /\ nb = 0
           /\ a_start' = a_start + na /\ a_end' = a_end /\ b_end' = b_end
        \/ /\ a_start + na = a_end /\ nb < b_end
           /\ a_start' = nb /\ a_end' = b_end /\ b_end' = 0
        \/ /\ a_start + na = a_end /\ nb = b_end
           /\ a_start' = 0 /\ a_end' = 0 /\ b_end' = 0
    BY <1>1, <1>2, <1>3, <1>4
  <1>7. can_read' <=> a_start' < a_end'
    <2>1. ~empty <=> a_start' < a_end'
      BY <1>1, <1>2, <1>3, <1>4, <1>6
    <2> QED
      BY <2>1, <1>4
  <1> QED
    BY <1>2, <1>3, <1>4, <1>5, <1>6, <1>7

LEMMA ReadIInv ==
  ASSUME IInv, Read
  PROVE  IInv'
  <1>1. PICK na \in Nat, nb \in Nat :
           /\ na > 0 /\ a_start + na <= a_end /\ nb <= b_end
           /\ taken' = taken + na + nb
           /\ \/ /\ a_start + na < a_end /\ nb = 0
                 /\ a_start' = a_start + na /\ a_end' = a_end /\ b_end' = b_end
              \/ /\ a_start + na = a_end /\ nb < b_end
                 /\ a_start' = nb /\ a_end' = b_end /\ b_end' = 0
              \/ /\ a_start + na = a_end /\ nb = b_end
                 /\ a_start' = 0 /\ a_end' = 0 /\ b_end' = 0
           /\ can_read' <=> a_start' < a_end'
           /\ inOrder'
    BY ReadShape
  <1>2. /\ a_start \in Nat /\ a_end \in Nat /\ b_end \in Nat /\ BIP_BUFFER_SIZE \in Nat \ {0}
        /\ written \in Nat /\ taken \in Nat /\ written = taken + (a_end - a_start) + b_end
        /\ a_start <= a_end /\ a_end <= BIP_BUFFER_SIZE /\ b_end <= a_start
        /\ b_end > 0 => a_end = BIP_BUFFER_SIZE
    BY BipAssumption DEF IInv, TypeOK, RegionsSound, ContentInv
  <1>3. /\ UNCHANGED <<buff, can_write, evt_read, evt_write, closed, used, freed, len>>
        /\ written' = written
        /\ lock = "free" /\ lock' = "r" /\ pc' = [pc EXCEPT !["r"] = "leave"]
        /\ can_read' \in BOOLEAN /\ inOrder' \in BOOLEAN
    BY DEF Read, Goto, events, pair
  <1>4. /\ a_start' \in Nat /\ a_end' \in Nat /\ b_end' \in Nat /\ taken' \in Nat
        /\ a_start' <= a_end' /\ a_end' <= BIP_BUFFER_SIZE /\ b_end' <= a_start'
        /\ b_end' > 0 => a_end' = BIP_BUFFER_SIZE
        /\ a_start' = a_end' => a_end' = 0
        /\ a_end' < BIP_BUFFER_SIZE \/ b_end' < a_start'
    BY <1>1, <1>2
  <1>5. TypeOK'
    <2>1. pc' \in [Ends -> {"idle", "enter", "blocked", "wait", "leave", "close_read",
                           "close_write", "count", "store", "gone"}]
      BY <1>3 DEF IInv, TypeOK
    <2> QED
      BY <1>3, <1>4, <2>1 DEF IInv, TypeOK
  <1>6. RegionsSound'
    BY <1>1, <1>3, <1>4, Zenon DEF RegionsSound
  <1>7. LockInv'
    <2>1. pc["w"] # "leave" /\ pc'["r"] = "leave" /\ pc'["w"] # "leave"
      BY <1>3 DEF IInv, LockInv, TypeOK, Ends
    <2> QED
      BY <2>1, <1>1, <1>3, <1>4 DEF LockInv, Data, Room
  <1>8. ContentInv'
    <2>0. buff' = buff /\ written' = written
      BY <1>3
    <2>1. ASSUME NEW i \in a_start'..(a_end' - 1)
          PROVE  buff[i] = taken' + 1 + (i - a_start')
      <3>1. CASE a_start' = a_start + na /\ a_end' = a_end /\ nb = 0
        <4>1. i \in a_start..(a_end - 1)
          BY <3>1, <1>2, <1>4
        <4>2. buff[i] = taken + 1 + (i - a_start)
          BY <4>1 DEF IInv, ContentInv
        <4> QED
          BY <4>1, <4>2, <3>1, <1>1, <1>2
      <3>2. CASE a_start' = nb /\ a_end' = b_end /\ a_start + na = a_end
        <4>1. i \in 0..(b_end - 1)
          BY <3>2, <1>2, <1>4
        <4>2. buff[i] = taken + 1 + (a_end - a_start) + i
          BY <4>1 DEF IInv, ContentInv
        <4> QED
          BY <4>1, <4>2, <3>2, <1>1, <1>2
      <3>3. CASE a_start' = 0 /\ a_end' = 0
        BY <3>3
      <3> QED
        BY <3>1, <3>2, <3>3, <1>1
    <2>2. ASSUME NEW i \in 0..(b_end' - 1)
          PROVE  buff[i] = taken' + 1 + (a_end' - a_start') + i
      <3>1. a_start' = a_start + na /\ a_end' = a_end /\ b_end' = b_end /\ nb = 0
        BY <1>1
      <3>2. buff[i] = taken + 1 + (a_end - a_start) + i
        BY <3>1 DEF IInv, ContentInv
      <3> QED
        BY <3>1, <3>2, <1>1, <1>2
    <2>3. written' = taken' + (a_end' - a_start') + b_end'
      BY <2>0, <1>1, <1>2
    <2> QED
      BY <2>0, <2>1, <2>2, <2>3 DEF ContentInv
  <1>9. inOrder' /\ \A e \in Ends : pc'[e] \in {"enter", "blocked", "wait"} => len'[e] \in Nat \ {0}
    BY <1>1, <1>3 DEF IInv, TypeOK
  <1> QED
    BY <1>5, <1>6, <1>7, <1>8, <1>9 DEF IInv

\* The events and the flags after a read.
LEMMA ReadLeaveIInv ==
  ASSUME IInv, ReadLeave
  PROVE  IInv'
  <1>1. /\ UNCHANGED <<a_start, a_end, b_end, buff, can_read, closed, used, freed, len,
                       written, taken, inOrder>>
        /\ can_write' = TRUE /\ lock' = "free" /\ pc' = [pc EXCEPT !["r"] = "idle"]
        /\ pc["r"] = "leave" /\ evt_read' \in BOOLEAN /\ evt_write' \in BOOLEAN
    BY DEF ReadLeave, Goto, regions, pair, ghost
  <1>2. TypeOK'
    <2>1. pc' \in [Ends -> {"idle", "enter", "blocked", "wait", "leave", "close_read",
                           "close_write", "count", "store", "gone"}]
      BY <1>1 DEF IInv, TypeOK
    <2> QED
      BY <1>1, <2>1 DEF IInv, TypeOK
  <1>3. lock = "r" /\ Room /\ (can_read <=> Data) /\ pc["w"] # "leave"
    BY <1>1 DEF IInv, LockInv
  <1>4. RegionsSound'
    BY <1>1, <1>3 DEF IInv, RegionsSound, Data, Room
  <1>5. LockInv'
    BY <1>1, <1>3 DEF LockInv, IInv, TypeOK, Ends
  <1>6. ContentInv'
    BY <1>1 DEF IInv, ContentInv
  <1>7. inOrder' /\ \A e \in Ends : pc'[e] \in {"enter", "blocked", "wait"} => len'[e] \in Nat \ {0}
    BY <1>1 DEF IInv, TypeOK
  <1> QED
    BY <1>2, <1>4, <1>5, <1>6, <1>7 DEF IInv

-----------------------------------------------------------------------------

LEMMA NextIInv == IInv /\ [Next]_vars => IInv'
  <1> SUFFICES ASSUME IInv, [Next]_vars PROVE IInv'
    OBVIOUS
  <1>1. CASE UNCHANGED vars
    BY <1>1 DEF IInv, TypeOK, RegionsSound, LockInv, ContentInv, Room, Data, vars,
                regions, flags, events, pair, ghost
  <1>2. CASE \E e \in Ends : (\E n \in Lens : Call(e, n)) \/ CloseMark(e) \/ EndStep(e)
    BY <1>2, EndStepIInv
  <1>3. CASE Write
    BY <1>3, WriteIInv
  <1>4. CASE WriteLeave
    BY <1>4, WriteLeaveIInv
  <1>5. CASE Read
    BY <1>5, ReadIInv
  <1>6. CASE ReadLeave
    BY <1>6, ReadLeaveIInv
  <1> QED
    BY <1>1, <1>2, <1>3, <1>4, <1>5, <1>6 DEF Next

\* The strengthened invariant holds in every state.
THEOREM Inductive == Spec => []IInv
  BY InitIInv, NextIInv, PTL DEF Spec

\* For every size of the buffer, the two regions are as the comment on the emulated
\* socket pairs describes them, and can_read and can_write tell the truth outside
\* the lock: the assertions "avail > 0" of bip_buffer_read() and bip_buffer_write()
\* never fail.
THEOREM RegionsAreSound == Spec => []RegionsSound
  <1>1. IInv => RegionsSound
    BY DEF IInv
  <1> QED
    BY <1>1, Inductive, PTL

\* For every size of the buffer and all lengths, bip_buffer_read() delivers each byte
\* once and in the order of bip_buffer_write().
THEOREM InOrder == Spec => []DeliversInOrder
  <1>1. IInv => DeliversInOrder
    BY DEF IInv, DeliversInOrder
  <1> QED
    BY <1>1, Inductive, PTL

-----------------------------------------------------------------------------
(* The refinement                                                          *)

LEMMA StepSimulation == IInv /\ IInv' /\ [Next]_vars => [Queue!Next]_<<written, taken, inOrder>>
  <1> SUFFICES ASSUME IInv, IInv', [Next]_vars PROVE [Queue!Next]_<<written, taken, inOrder>>
    OBVIOUS
  <1>a. inOrder' = inOrder
    <2>1. inOrder \in BOOLEAN /\ inOrder' \in BOOLEAN /\ inOrder /\ inOrder'
      BY Zenon DEF IInv, TypeOK
    <2> QED
      BY <2>1, Zenon
  <1>0. /\ a_start \in Nat /\ a_end \in Nat /\ b_end \in Nat /\ BIP_BUFFER_SIZE \in Nat \ {0}
        /\ written \in Nat /\ taken \in Nat /\ written = taken + (a_end - a_start) + b_end
    BY BipAssumption DEF IInv, TypeOK, ContentInv
  <1>1. CASE UNCHANGED vars
    BY <1>1 DEF vars, ghost
  <1>2. CASE \E e \in Ends : (\E n \in Lens : Call(e, n)) \/ CloseMark(e) \/ EndStep(e)
    BY <1>2 DEF Call, CloseMark, EndStep, Block, Blocked, Wake, CloseRead, CloseWrite,
                CountLoad, CountStore, ghost
  <1>3. CASE Write
    <2>1. PICK na \in Nat, nb \in Nat :
             /\ na + nb > 0
             /\ a_end + na <= BIP_BUFFER_SIZE /\ b_end + nb <= a_start
             /\ written' = written + na + nb
      BY <1>3, WriteShape
    <2>2. na + nb \in 1..(BIP_BUFFER_SIZE - (written - taken))
      BY <2>1, <1>0
    <2>3. taken' = taken /\ written' = written + (na + nb)
      BY <1>3, <2>1, <1>0 DEF Write
    <2> QED
      BY <2>2, <2>3, <1>a DEF Queue!Next, Queue!Write
  <1>4. CASE Read
    <2>1. PICK na \in Nat, nb \in Nat :
             /\ na > 0 /\ a_start + na <= a_end /\ nb <= b_end
             /\ taken' = taken + na + nb
      BY <1>4, ReadShape
    <2>2. na + nb \in 1..(written - taken)
      BY <2>1, <1>0
    <2>3. written' = written /\ taken' = taken + (na + nb)
      BY <1>4, <2>1, <1>0 DEF Read
    <2> QED
      BY <2>2, <2>3, <1>a DEF Queue!Next, Queue!Read
  <1>5. CASE WriteLeave \/ ReadLeave
    BY <1>5 DEF WriteLeave, ReadLeave, ghost
  <1> QED
    BY <1>1, <1>2, <1>3, <1>4, <1>5 DEF Next

\* For every size of the buffer, one direction of an adb_socketpair() implements a
\* bounded queue of bytes, whatever the two threads and the closing of the pair do.
THEOREM QueueRefinement == Spec => ImplementsQueue
  <1>1. Init => Queue!Init
    BY DEF Init, Queue!Init
  <1> QED
    BY <1>1, Inductive, StepSimulation, PTL DEF Spec, ImplementsQueue, Queue!Spec
=============================================================================

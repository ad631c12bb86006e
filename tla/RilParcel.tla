----------------------------- MODULE RilParcel ------------------------------
(***************************************************************************)
(* libril/ril.cpp: what the dispatch functions read from the parcel of a   *)
(* request and what the response functions write into the parcel of an     *)
(* answer.                                                                 *)
(*                                                                         *)
(* A parcel is a sequence of cells of a kind (int "i", string "s", byte    *)
(* "b", block of bytes "d") and a value; a string is NULL, empty or one    *)
(* with text.  Eight requests have the layout of an answer: the response   *)
(* function writes the parcel which the dispatch function then reads.  The *)
(* other requests are written by the client.  The dispatch function gets   *)
(* the whole request, or only the first fields of it.                      *)
(***************************************************************************)
EXTENDS Integers, Sequences, FiniteSets, SequencesExt

CONSTANTS
  MaxRecords,                    \* bound: records in a list
  ADDRESS_MAX, SUBADDRESS_MAX,   \* RIL_CDMA_SMS_ADDRESS_MAX, ..._SUBADDRESS_MAX
  BEARER_DATA_MAX,               \* RIL_CDMA_SMS_BEARER_DATA_MAX
  MAX_INFO_RECS                  \* RIL_CDMA_MAX_NUMBER_OF_INFO_RECS

VARIABLES
  htc, version,  \* NEW_LIBRIL_HTC is defined; s_callbacks.version
  fn, msg,       \* the function, and what it is given
  phase,
  ret, parcel,   \* what the response function returned and wrote
  whole,         \* nothing is cut off
  result         \* of the dispatch function

vars == <<htc, version, fn, msg, phase, ret, parcel, whole, result>>

NULL == 0
EMPTY == 1
STALE == -9      \* an integer that could not be read: what was in memory before
Least(x, y) == IF x < y THEN x ELSE y

-----------------------------------------------------------------------------
(* Layouts of the records                                                  *)

Call == <<"i", "i", "i", "i", "i", "i", "i", "i", "s", "i", "s", "i">>
DataCall == <<"i", "i", "s", "s", "s">>
CallForward == <<"i", "i", "i", "i", "s", "i">>
NeighboringCell == <<"i", "s">>
GsmBroadcast == <<"i", "i", "i", "i", "i">>
CdmaBroadcast == <<"i", "i", "i">>
Application == <<"i", "i", "i", "s", "s", "i", "i", "i">>
SMS_Response == <<"i", "s", "i">>
SIM_IO_Response == <<"i", "i", "s">>
SuppSvcNotification == <<"i", "i", "i", "i", "s">>
SignalInfoRecord == <<"i", "i", "i", "i">>
CallWaiting == <<"s", "i", "s">> \o SignalInfoRecord
CdmaSmsHead == <<"i", "b", "i", "i", "i", "i", "i">>

\* RIL_CDMA_InformationRecord by name; "release" and others are refused.
InfoRecord ==
  [display |-> <<"s">>, number |-> <<"s", "i", "i", "i", "i">>,
   signal |-> SignalInfoRecord, redir |-> <<"s", "i", "i", "i", "i", "i">>,
   line |-> <<"i", "i", "i", "i">>, clir |-> <<"i">>, audio |-> <<"i", "i">>]
InfoNames == <<"display", "number", "signal", "redir", "line", "clir", "audio", "release">>

-----------------------------------------------------------------------------
(* Writing                                                                 *)

Cells(layout, values) == [j \in DOMAIN layout |-> [k |-> layout[j], v |-> values[j]]]
Int32(n) == <<[k |-> "i", v |-> n]>>
writeStringToParcel(s) == <<[k |-> "s", v |-> s]>>
Bytes(n) == [j \in 1..n |-> [k |-> "b", v |-> j]]
Data(n) == IF n = 0 THEN << >> ELSE <<[k |-> "d", v |-> n]>>
All(layout, recs) ==
  LET n == Len(layout)
  IN [j \in 1..(Len(recs) * n) |->
        [k |-> layout[((j - 1) % n) + 1], v |-> recs[((j - 1) \div n) + 1][((j - 1) % n) + 1]]]

Written(cells) == [ret |-> 0, cells |-> cells]
Invalid(cells) == [ret |-> -1, cells |-> cells]

\* A response is a pointer, which may be NULL, to records, and a length, which may
\* not be that of whole records.
Refused(m) == m.odd \/ (m.null /\ m.recs # << >>)
List(m, layout) ==
  IF Refused(m) THEN Invalid(<< >>) ELSE Written(Int32(Len(m.recs)) \o All(layout, m.recs))
One(m, layout) ==
  IF m.null \/ m.odd \/ m.recs = << >> THEN Invalid(<< >>)
  ELSE Written(Cells(layout, m.recs[1]))

responseVoid(m) == Written(<< >>)
responseString(m) == Written(writeStringToParcel(IF m.null THEN NULL ELSE m.recs[1][1]))
responseInts(m) == List(m, <<"i">>)
responseSMS(m) == One(m, SMS_Response)
responseDataCallList(m) == List(m, DataCall)
responseSIM_IO(m) == One(m, SIM_IO_Response)
responseCallForwards(m) == List(m, CallForward)
responseSsn(m) == One(m, SuppSvcNotification)
responseCellList(m) == List(m, NeighboringCell)
responseCdmaCallWaiting(m) == One(m, CallWaiting)
responseCdmaSignalInfoRecord(m) == One(m, SignalInfoRecord)
responseCallRing(m) ==
  IF m.null \/ m.recs = << >> THEN responseVoid(m) ELSE responseCdmaSignalInfoRecord(m)

\* The broadcast configurations are written without any check.
responseGsmBrSmsCnf(m) == Written(Int32(Len(m.recs)) \o All(GsmBroadcast, m.recs))
responseCdmaBrSmsCnf(m) == Written(Int32(Len(m.recs)) \o All(CdmaBroadcast, m.recs))

\* A mutant: the count of responseStrings() includes the strings it skips.
responseStringsCountsAll(m, network_search) ==
  LET kept == IF htc /\ network_search
              THEN {i \in DOMAIN m.recs : i % 5 # 0} ELSE DOMAIN m.recs
  IN IF Refused(m) THEN Invalid(<< >>)
     ELSE Written(Int32(Len(m.recs)) \o
            FlattenSeq([i \in DOMAIN m.recs |->
                          IF i \in kept THEN writeStringToParcel(m.recs[i][1]) ELSE << >>]))

\* Of each network the modem returns five strings and the client wants four.
responseStrings(m, network_search) ==
  LET kept == IF htc /\ network_search
              THEN {i \in DOMAIN m.recs : i % 5 # 0} ELSE DOMAIN m.recs
      n == Len(m.recs)
  IN IF Refused(m) THEN Invalid(<< >>)
     ELSE Written(Int32(IF htc /\ network_search THEN n - n \div 5 ELSE n) \o
            FlattenSeq([i \in DOMAIN m.recs |->
                          IF i \in kept THEN writeStringToParcel(m.recs[i][1]) ELSE << >>]))

\* The user-to-user information of a call is its last field, 0 if there is none.
responseCallList(m) ==
  LET Uus(n) == IF version < 3 \/ n = 0 THEN Int32(0)
                ELSE Int32(1) \o Int32(1) \o Int32(1) \o Int32(n) \o Data(n)
  IN IF Refused(m) THEN Invalid(<< >>)
     ELSE Written(Int32(Len(m.recs)) \o
            FlattenSeq([i \in DOMAIN m.recs |->
                          Cells(Call, m.recs[i]) \o Uus(m.recs[i][Len(Call) + 1])]))

\* -1 for NULL.
responseRaw(m) ==
  IF m.null /\ m.recs # << >> THEN Invalid(<< >>)
  ELSE Written(IF m.null THEN Int32(-1) ELSE Int32(m.recs[1][1]) \o Data(m.recs[1][1]))

\* Seven integers of a new RIL, or those of an old one and zeros.
responseRilSignalStrength(m) ==
  IF Refused(m) THEN Invalid(<< >>)
  ELSE Written(All(<<"i">>, m.recs) \o
               FlattenSeq([i \in 1..(7 - Len(m.recs)) |-> Int32(0)]))

\* The five fields of the card and its applications.
responseSimStatus(m) ==
  IF Refused(m) THEN Invalid(<< >>)
  ELSE Written(Int32(1) \o Int32(2) \o Int32(3) \o Int32(4) \o Int32(Len(m.recs)) \o All(Application, m.recs))

\* The records are written one by one until one is refused.
responseCdmaInformationRecords(m) ==
  LET num == Least(Len(m.recs), MAX_INFO_RECS)
      Name(i) == InfoNames[m.recs[i][1]]
      bad == {i \in 1..num : Name(i) = "release" \/ m.recs[i][2] # 0}
      last == IF bad = {} THEN num ELSE CHOOSE i \in bad : \A j \in bad : i <= j
      Rec(i) == Int32(m.recs[i][1]) \o
                (IF i \in bad THEN << >>
                 ELSE Cells(InfoRecord[Name(i)], [j \in DOMAIN InfoRecord[Name(i)] |-> 2]))
      cells == Int32(num) \o FlattenSeq([i \in 1..last |-> Rec(i)])
  IN IF m.null \/ m.odd THEN Invalid(<< >>)
     ELSE IF bad = {} THEN Written(cells) ELSE Invalid(cells)

\* A short message: number_of_digits of both addresses and uBearerDataLen.
CdmaSms(m, digits, sub, data) ==
  Cells(CdmaSmsHead, [j \in DOMAIN CdmaSmsHead |-> j]) \o
  <<[k |-> "b", v |-> m[1]]>> \o Bytes(digits) \o
  Int32(8) \o <<[k |-> "b", v |-> 9], [k |-> "b", v |-> m[2]]>> \o Bytes(sub) \o
  Int32(m[3]) \o Bytes(data)

responseCdmaSms(m) ==
  LET s == m.recs[1]
  IN IF m.odd \/ m.null THEN Invalid(<< >>)
     ELSE Written(CdmaSms(s, Least(s[1], ADDRESS_MAX), Least(s[2], SUBADDRESS_MAX),
                          Least(s[3], BEARER_DATA_MAX)))

-----------------------------------------------------------------------------
(* Reading                                                                 *)

\* Where reading has come to, the status of the last integer or byte, what has been
\* read, and which of it are strings on the heap.
Start(p) == [p |-> p, at |-> 0, ok |-> TRUE, out |-> << >>, heap |-> {}]
Latest(r) == r.out[Len(r.out)]

\* A string that is not there is NULL, and changes no status.
strdupReadString(there, value) == IF there THEN value ELSE NULL
readInt32(there, value) == IF there THEN value ELSE STALE

Read(r, layout) ==
  LET n == Len(layout)
      There(j) == r.at + j <= Len(r.p) /\ r.p[r.at + j].k = layout[j]
      value == [j \in 1..n |-> IF There(j) THEN r.p[r.at + j].v ELSE NULL]
      new == [j \in 1..n |-> IF layout[j] = "s" THEN strdupReadString(There(j), value[j])
                             ELSE readInt32(There(j), value[j])]
      numbers == {j \in 1..n : layout[j] # "s"}
  IN [r EXCEPT !.at = @ + n, !.out = @ \o new,
               !.ok = IF numbers = {} THEN @ ELSE There(Max(numbers)),
               !.heap = @ \cup {Len(r.out) + j : j \in {i \in 1..n : layout[i] = "s" /\ new[i] # NULL}}]

\* A pointer into the parcel, NULL if len bytes are not there.
readInplace(r, len) ==
  IF len = 0 THEN [r EXCEPT !.out = Append(@, EMPTY)]
  ELSE IF r.at < Len(r.p) THEN [r EXCEPT !.at = @ + 1, !.out = Append(@, r.p[r.at + 1].v)]
  ELSE [r EXCEPT !.out = Append(@, NULL)]
Times(n, layout) == [j \in 1..(n * Len(layout)) |-> layout[((j - 1) % Len(layout)) + 1]]

\* onRequest() is called, and some strings are freed; or invalidCommandBlock().
Vendor(r, freed) == [called |-> TRUE, given |-> r.out, heap |-> r.heap \ freed]
Freed(r) == Vendor(r, r.heap)
invalidCommandBlock(r) == [called |-> FALSE, given |-> << >>, heap |-> r.heap]

Checked(r) == IF r.ok THEN Freed(r) ELSE invalidCommandBlock(r)

dispatchVoid(p) == Freed(Start(p))
dispatchString(p) == Freed(Read(Start(p), <<"s">>))

dispatchStrings(p) ==
  LET r == Read(Start(p), <<"i">>)
  IN IF ~r.ok THEN invalidCommandBlock(r) ELSE Freed(Read(r, Times(Latest(r), <<"s">>)))

\* Every integer is checked, and an empty list is not taken.
dispatchInts(p) ==
  LET r == Read(Start(p), <<"i">>)
  IN IF ~r.ok \/ Latest(r) = 0 THEN invalidCommandBlock(r)
     ELSE Checked(Read(r, Times(Latest(r), <<"i">>)))

\* The address of the service centre is not freed.
dispatchSmsWrite(p) ==
  LET r == Read(Start(p), <<"i", "s">>)
  IN IF ~r.ok \/ Latest(r) = NULL THEN invalidCommandBlock(r) ELSE Vendor(Read(r, <<"s">>), {2})

dispatchDial(p) ==
  LET r == Read(Start(p), <<"s", "i">>)
      u == Read(r, <<"i">>)
      w == Read(u, <<"i", "i", "i">>)
  IN IF ~r.ok \/ r.out[1] = NULL THEN invalidCommandBlock(r)
     ELSE IF version < 3 THEN Freed(r)
     ELSE IF ~u.ok THEN invalidCommandBlock(u)
     ELSE IF Latest(u) = 0 THEN Freed(u)
     ELSE IF ~w.ok THEN invalidCommandBlock(w)
     ELSE IF Latest(w) = -1 THEN Freed([w EXCEPT !.out = Append([@ EXCEPT ![6] = 0], NULL)])
     ELSE Freed(readInplace(w, Latest(w)))

\* "note we only check status at the end": that of the last integer.
dispatchSIM_IO(p) == Checked(Read(Start(p), <<"i", "i", "s", "i", "i", "i", "s", "s">>))

\* An empty number becomes NULL and is not freed.
dispatchCallForward(p) ==
  LET r == Read(Start(p), CallForward)
  IN IF ~r.ok THEN invalidCommandBlock(r)
     ELSE IF r.out[5] = EMPTY THEN Vendor([r EXCEPT !.out[5] = NULL], {}) ELSE Freed(r)

\* -1 stands for no data, yet the pointer is never NULL for it.
dispatchRaw(p) ==
  LET r == Read(Start(p), <<"i">>)
  IN IF ~r.ok THEN invalidCommandBlock(r)
     ELSE Freed(IF Latest(r) = -1 THEN readInplace([r EXCEPT !.out = <<0>>], 0)
                ELSE readInplace(r, Latest(r)))

\* Digits, as many as were announced and there is room for.
Digits(r, max) == Read(r, Times(Least(Latest(r), max), <<"b">>))
dispatchCdmaSms(p) ==
  LET a == Digits(Read(Start(p), CdmaSmsHead \o <<"b">>), ADDRESS_MAX)
      s == Digits(Read(a, <<"i", "b", "b">>), SUBADDRESS_MAX)
  IN Checked(Digits(Read(s, <<"i">>), BEARER_DATA_MAX))

dispatchCdmaSmsAck(p) == Checked(Read(Start(p), <<"i", "i">>))

\* The whole arrays are read, whatever was announced.
dispatchRilCdmaSmsWriteArgs(p) ==
  Checked(Read(Start(p),
    <<"i">> \o CdmaSmsHead \o <<"b">> \o Times(ADDRESS_MAX, <<"b">>) \o <<"i", "b", "b">> \o
    Times(SUBADDRESS_MAX, <<"b">>) \o <<"i">> \o Times(BEARER_DATA_MAX, <<"b">>)))

dispatchGsmBrSmsCnf(p) ==
  LET r == Read(Start(p), <<"i">>)
  IN IF ~r.ok THEN invalidCommandBlock(r)
     ELSE Checked(Read(r, Times(Latest(r), <<"i", "i", "i", "i", "i">>)))

dispatchCdmaBrSmsCnf(p) ==
  LET r == Read(Start(p), <<"i">>)
  IN IF ~r.ok THEN invalidCommandBlock(r)
     ELSE Checked(Read(r, Times(Latest(r), <<"i", "i", "i">>)))

-----------------------------------------------------------------------------
(* Messages                                                                *)

Strings == {NULL, EMPTY, 2}
Record(layout, s) == [j \in DOMAIN layout |-> IF layout[j] = "s" THEN s ELSE 10 + j]
Lists(layout) ==
  {[i \in 1..n |-> Record(layout, s)] : n \in 0..MaxRecords, s \in Strings}
Single(layout) == {<< >>} \cup {<<Record(layout, s)>> : s \in Strings}

\* What a vendor library answers, and a client sets in the same layout.
Records ==
  [Void |-> {<< >>}, String |-> {<<<<s>>>> : s \in Strings},
   Strings |-> UNION {[1..n -> {<<s>> : s \in Strings}] : n \in 0..MaxRecords},
   Ints |-> Lists(<<"i">>), Raw |-> {<<<<n>>>> : n \in {0, 2}},
   GsmBrSmsCnf |-> Lists(GsmBroadcast), CdmaBrSmsCnf |-> Lists(CdmaBroadcast),
   CdmaSms |-> {<<<<d, s, b>>>> : d \in 0..(ADDRESS_MAX + 1),
                                s \in 0..(SUBADDRESS_MAX + 1), b \in 0..(BEARER_DATA_MAX + 1)},
   Networks |-> {[i \in 1..n |-> <<2>>] : n \in {0, 4, 5, 10}},
   CallList |-> {[i \in 1..n |-> Record(Call, 2) \o <<u>>] : n \in 0..MaxRecords, u \in {0, 2}},
   SMS |-> Single(SMS_Response), SIM_IO_Response |-> Single(SIM_IO_Response),
   DataCallList |-> Lists(DataCall), CallForwards |-> Lists(CallForward),
   Ssn |-> Single(SuppSvcNotification), CellList |-> Lists(NeighboringCell),
   CallRing |-> Single(SignalInfoRecord), CdmaCallWaiting |-> Single(CallWaiting),
   RilSignalStrength |-> {[i \in 1..n |-> <<10 + i>>] : n \in {0, 1, 2, 7}},
   SimStatus |-> Lists(Application),
   CdmaInformationRecords |->
     UNION {[1..n -> {<<r, 0>> : r \in 1..8} \cup {<<r, 1>> : r \in {1, 2, 4}}] :
              n \in 0..(MAX_INFO_RECS + 1)}]

\* What a client requests: the layout is that of the comments "Payload is".
Layouts ==
  [SmsWrite |-> <<"i", "s", "s">>, SIM_IO |-> <<"i", "i", "s", "i", "i", "i", "s", "s">>,
   CallForward |-> CallForward, CdmaSmsAck |-> <<"i", "i">>,
   RilCdmaSmsWriteArgs |->
     <<"i">> \o CdmaSmsHead \o <<"b">> \o Times(ADDRESS_MAX, <<"b">>) \o <<"i", "b", "b">> \o
     Times(SUBADDRESS_MAX, <<"b">>) \o <<"i">> \o Times(BEARER_DATA_MAX, <<"b">>)]
Fields(layout) ==
  LET S == {j \in DOMAIN layout : layout[j] = "s"}
  IN {<<[j \in DOMAIN layout |-> IF j \in S THEN f[j] ELSE 10 + j]>> : f \in [S -> Strings]}
Dial(s, u) ==
  writeStringToParcel(s) \o Int32(12) \o
  (IF u = 0 THEN Int32(0)
   ELSE Int32(1) \o Int32(14) \o Int32(15) \o Int32(u) \o Data(IF u = -1 THEN 0 ELSE u))

RequestKinds == DOMAIN Layouts \cup {"Dial"}
Echoes == {"Void", "String", "Strings", "Ints", "Raw", "GsmBrSmsCnf", "CdmaBrSmsCnf", "CdmaSms"}
\* Answers of requests only, for which RIL_onRequestComplete() has checked the pointer.
NeverNull == {"Networks", "CallList", "SMS", "SIM_IO_Response", "CallForwards", "CellList",
              "SimStatus", "GsmBrSmsCnf", "CdmaBrSmsCnf", "Void"}

Messages(f) ==
  [null : IF f \in NeverNull \cup RequestKinds THEN {FALSE} ELSE BOOLEAN,
   odd : IF f \in RequestKinds \cup {"Void", "String", "Raw"} THEN {FALSE} ELSE BOOLEAN,
   recs : IF f = "Dial" THEN {<<<<s, u>>>> : s \in Strings, u \in {-1, 0, 2}}
          ELSE IF f \in RequestKinds THEN Fields(Layouts[f]) ELSE Records[f]]

responseFunction(m) ==
  CASE fn = "Void" -> responseVoid(m) [] fn = "String" -> responseString(m)
    [] fn = "Strings" -> responseStrings(m, FALSE) [] fn = "Networks" -> responseStrings(m, TRUE)
    [] fn = "Ints" -> responseInts(m) [] fn = "Raw" -> responseRaw(m)
    [] fn = "GsmBrSmsCnf" -> responseGsmBrSmsCnf(m)
    [] fn = "CdmaBrSmsCnf" -> responseCdmaBrSmsCnf(m) [] fn = "CdmaSms" -> responseCdmaSms(m)
    [] fn = "CallList" -> responseCallList(m) [] fn = "SMS" -> responseSMS(m)
    [] fn = "SIM_IO_Response" -> responseSIM_IO(m) [] fn = "DataCallList" -> responseDataCallList(m)
    [] fn = "CallForwards" -> responseCallForwards(m) [] fn = "Ssn" -> responseSsn(m)
    [] fn = "CellList" -> responseCellList(m) [] fn = "CallRing" -> responseCallRing(m)
    [] fn = "CdmaCallWaiting" -> responseCdmaCallWaiting(m)
    [] fn = "RilSignalStrength" -> responseRilSignalStrength(m)
    [] fn = "SimStatus" -> responseSimStatus(m)
    [] fn = "CdmaInformationRecords" -> responseCdmaInformationRecords(m)
    [] fn = "Dial" -> Written(Dial(m.recs[1][1], m.recs[1][2]))
    [] OTHER -> Written(Cells(Layouts[fn], m.recs[1]))

dispatchFunction(p) ==
  CASE fn = "Void" -> dispatchVoid(p) [] fn = "String" -> dispatchString(p)
    [] fn = "Strings" -> dispatchStrings(p) [] fn = "Ints" -> dispatchInts(p)
    [] fn = "Raw" -> dispatchRaw(p) [] fn = "GsmBrSmsCnf" -> dispatchGsmBrSmsCnf(p)
    [] fn = "CdmaBrSmsCnf" -> dispatchCdmaBrSmsCnf(p) [] fn = "CdmaSms" -> dispatchCdmaSms(p)
    [] fn = "SmsWrite" -> dispatchSmsWrite(p) [] fn = "Dial" -> dispatchDial(p)
    [] fn = "SIM_IO" -> dispatchSIM_IO(p) [] fn = "CallForward" -> dispatchCallForward(p)
    [] fn = "CdmaSmsAck" -> dispatchCdmaSmsAck(p)
    [] fn = "RilCdmaSmsWriteArgs" -> dispatchRilCdmaSmsWriteArgs(p)

Nothing == [called |-> FALSE, given |-> << >>, heap |-> {}]

Init ==
  /\ htc \in BOOLEAN /\ version \in {2, 3}
  /\ fn \in DOMAIN Records \cup RequestKinds
  /\ msg \in Messages(fn)
  /\ phase = "write" /\ ret = 0 /\ parcel = << >> /\ whole = TRUE /\ result = Nothing

Write ==
  /\ phase = "write"
  /\ LET w == responseFunction(msg)
     IN ret' = w.ret /\ parcel' = w.cells
  /\ phase' = "written"
  /\ UNCHANGED <<htc, version, fn, msg, whole, result>>

\* processCommandBuffer() calls the dispatch function of the request.
Dispatch ==
  /\ phase = "written" /\ ret = 0 /\ fn \in Echoes \cup RequestKinds
  /\ \E n \in 0..Len(parcel) :
       /\ whole' = (n = Len(parcel))
       /\ result' = dispatchFunction(SubSeq(parcel, 1, n))
  /\ phase' = "dispatched"
  /\ UNCHANGED <<htc, version, fn, msg, ret, parcel>>

Next == Write \/ Dispatch

Spec == Init /\ [][Next]_vars

-----------------------------------------------------------------------------

\* How a client reads the answers that are not in Echoes.
Understood ==
  LET n == parcel[1].v
      Many(layout) == Read(Start(parcel), <<"i">> \o Times(n, layout))
      OneCall(r, i) == LET q == Read(r, Call \o <<"i">>)
                           w == Read(q, <<"i", "i", "i">>)
                       IN IF Latest(q) = 0 THEN q ELSE readInplace(w, Latest(w))
      OneInfo(r, i) == LET q == Read(r, <<"i">>) IN Read(q, InfoRecord[InfoNames[Latest(q)]])
      Indices == [i \in 1..n |-> i]
  IN CASE fn = "Networks" -> Many(<<"s">>)
       [] fn = "DataCallList" -> Many(DataCall)
       [] fn = "CallForwards" -> Many(CallForward)
       [] fn = "CellList" -> Many(NeighboringCell)
       [] fn = "CallList" -> FoldLeft(OneCall, Read(Start(parcel), <<"i">>), Indices)
       [] fn = "CdmaInformationRecords" ->
            FoldLeft(OneInfo, Read(Start(parcel), <<"i">>), Indices)
       [] fn = "SimStatus" -> Read(Start(parcel), Times(5, <<"i">>) \o Times(parcel[5].v, Application))
       [] fn = "RilSignalStrength" -> Read(Start(parcel), Times(7, <<"i">>))
       [] fn = "SMS" -> Read(Start(parcel), SMS_Response)
       [] fn = "SIM_IO_Response" -> Read(Start(parcel), SIM_IO_Response)
       [] fn = "Ssn" -> Read(Start(parcel), SuppSvcNotification)
       [] fn = "CallRing" -> Read(Start(parcel), IF parcel = << >> THEN << >> ELSE SignalInfoRecord)
       [] fn = "CdmaCallWaiting" -> Read(Start(parcel), CallWaiting)

\* An answer that is not refused can be read to its end, and nothing of it is
\* missing: the counts are those of the records that follow, four strings of each
\* network where the fifth is left out, the strength of a signal is seven integers
\* whatever the RIL returns, and a call says whether user-to-user information
\* follows.
AnswersDecodable ==
  phase = "written" /\ ret = 0 /\ fn \notin Echoes \cup RequestKinds =>
    Understood.at = Len(parcel) /\ STALE \notin Range(Understood.out)

\* A whole request reaches the vendor library with all that the parcel holds, in
\* its order (-1 becomes an empty block, an empty number to forward to NULL); only
\* an empty list of integers and a missing PDU or address are refused.
Handed ==
  LET values == [j \in DOMAIN parcel |->
                   IF fn = "CallForward" /\ j = 5 /\ parcel[j].v = EMPTY THEN NULL
                   ELSE parcel[j].v]
  IN CASE fn = "Raw" /\ values[1] <= 0 -> <<0, EMPTY>>
       [] fn = "Dial" /\ version < 3 -> SubSeq(values, 1, 2)
       [] fn = "Dial" /\ values[3] = 1 /\ values[6] = -1 -> SubSeq(values, 1, 5) \o <<0, NULL>>
       [] OTHER -> values

Acceptable ==
  /\ fn = "Ints" => parcel[1].v # 0
  /\ fn = "SmsWrite" => parcel[2].v # NULL
  /\ fn = "Dial" => parcel[1].v # NULL

\* A whole request is handed over exactly.  Of a request that ends early the vendor
\* library gets no integer that was never read: the status of the last one tells.
RequestsExact ==
  phase = "dispatched" =>
    /\ whole => /\ result.called <=> Acceptable
                /\ result.called => result.given = Handed
    /\ result.called => STALE \notin Range(result.given)
=============================================================================

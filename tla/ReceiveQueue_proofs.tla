-------------------------- MODULE ReceiveQueue_proofs --------------------------
(***************************************************************************)
(* Theorems about ReceiveQueue, for every set of clients and threads and    *)
(* every size of the rings and the packets.                                 *)
(***************************************************************************)
EXTENDS ReceiveQueue, FiniteSetTheorems, TLAPS

P == INSTANCE CircularBuffer_proofs

-----------------------------------------------------------------------------
(* What is proved of one ring, said of the rings of this module.            *)

WellFormed(r) == r \in CB!Ring /\ r.writePos = P!Ahead(r.readPos, r.currentSize)

LEMMA SameWellFormed == \A r : WellFormed(r) <=> P!WellFormed(r)
  BY DEF WellFormed, P!WellFormed, CB!Ring, P!Ring, CB!Index, P!Index

LEMMA SameWritten == \A r, data : CB!Written(r, data) = P!Written(r, data)
  BY Zenon DEF CB!Written, P!Written, CB!Fits, P!Fits, CB!Index, P!Index

LEMMA SameTaken == \A r, size : CB!Taken(r, size) = P!Taken(r, size)
  BY Zenon DEF CB!Taken, P!Taken

LEMMA SameRead == \A r, size : CB!ReadBytes(r, size) = P!ReadBytes(r, size)
  BY Zenon DEF CB!ReadBytes, P!ReadBytes, CB!Fits, P!Fits

LEMMA SameContent == \A r : CB!Content(r) = P!Content(r)
  BY Zenon DEF CB!Content, P!Content

LEMMA RingContent ==
  ASSUME NEW r, WellFormed(r)
  PROVE  CB!Content(r) \in Seq(Byte) /\ Len(CB!Content(r)) = r.currentSize
         /\ r.currentSize \in Nat /\ r.currentSize <= bufferSize
<1>1. bufferSize \in Nat \ {0} /\ P!WellFormed(r)
  BY SizesAssumption, SameWellFormed
<1>2. P!Content(r) \in Seq(Byte) /\ Len(P!Content(r)) = r.currentSize
  BY <1>1, P!ContentIs
<1>3. r.currentSize \in Nat /\ r.currentSize <= bufferSize
  BY <1>1, P!Fields
<1> QED BY <1>2, <1>3, SameContent

LEMMA RingWritten ==
  ASSUME NEW r, WellFormed(r), NEW data \in Seq(Byte), CB!HasRoom(r, Len(data))
  PROVE  /\ WellFormed(CB!Written(r, data))
         /\ CB!Content(CB!Written(r, data)) = CB!Content(r) \o data
         /\ CB!Written(r, data).currentSize = r.currentSize + Len(data)
<1>1. bufferSize \in Nat \ {0} /\ P!WellFormed(r) /\ P!HasRoom(r, Len(data))
  BY SizesAssumption, SameWellFormed DEF CB!HasRoom, P!HasRoom
<1>2. /\ P!WellFormed(P!Written(r, data))
      /\ P!Written(r, data).currentSize = r.currentSize + Len(data)
  BY <1>1, P!WrittenKeeps
<1>3. P!Content(P!Written(r, data)) = P!Content(r) \o data
  BY <1>1, P!WrittenAppends
<1> QED BY <1>2, <1>3, SameWellFormed, SameWritten, SameContent, Zenon

LEMMA RingTaken ==
  ASSUME NEW r, WellFormed(r), NEW size \in Nat, CB!HasData(r, size)
  PROVE  /\ WellFormed(CB!Taken(r, size))
         /\ CB!Content(CB!Taken(r, size))
              = SubSeq(CB!Content(r), size + 1, Len(CB!Content(r)))
         /\ CB!Taken(r, size).currentSize = r.currentSize - size
         /\ CB!ReadBytes(r, size) = [k \in 1..size |-> CB!Content(r)[k]]
         /\ CB!ReadBytes(r, size) \in [1..size -> Byte]
<1>1. bufferSize \in Nat \ {0} /\ P!WellFormed(r) /\ P!HasData(r, size)
  BY SizesAssumption, SameWellFormed DEF CB!HasData, P!HasData
<1>2. /\ P!WellFormed(P!Taken(r, size))
      /\ P!Taken(r, size).currentSize = r.currentSize - size
  BY <1>1, P!TakenKeeps
<1>3. P!Content(P!Taken(r, size)) = SubSeq(P!Content(r), size + 1, Len(P!Content(r)))
  BY <1>1, P!TakenRemoves
<1>4. /\ P!ReadBytes(r, size) = [k \in 1..size |-> P!Content(r)[k]]
      /\ P!ReadBytes(r, size) \in [1..size -> Byte]
  BY <1>1, P!ReadIsPrefix
<1> QED BY <1>2, <1>3, <1>4, SameWellFormed, SameTaken, SameContent, SameRead, Zenon

-----------------------------------------------------------------------------
(* The inductive invariant: types, and what each step of a thread relies on. *)

Received == [client : Clients, data : {d \in Seq(Byte) : Len(d) = packetSize}]

WorkerHolds == \A w \in Workers : /\ pc[w] \in {"idle", "WriteRecvData", "push"}
                                  /\ pc[w] # "idle" => recv[w] \in Received

RedisHolds ==
  \A t \in RedisThreads :
    /\ pc[t] \in Place \ {"WriteRecvData", "push"}
    /\ pc[t] \in {"zero", "Read", "copy"} => tempD[t] \in Clients
    /\ pc[t] \in {"zero", "copy"} => copied[t] < packetSize
    /\ pc[t] \in {"dispatch", "LoginCheck", "SetUserToken", "PushSendMsg"} =>
         terminated \/ packetInfo[t] \in Clients

RingsWellFormed == \A c \in Clients : WellFormed(circularBuffer[c])

\* A thread copies alone, and finds the bytes to the end.
Copying ==
  \A t \in RedisThreads : pc[t] = "copy" =>
    /\ CB!HasData(circularBuffer[tempD[t]], packetSize)
    /\ \A u \in RedisThreads : pc[u] = "copy" /\ tempD[u] = tempD[t] => u = t

IInv == TypeOK /\ WorkerHolds /\ RedisHolds /\ RingsWellFormed /\ Copying

Req == (1..MaxPackets) \X BOOLEAN

LEMMA RequestsAre ==
  ASSUME NEW c
  PROVE  Requests(c) \subseteq Req /\ \A p \in Requests(c) : ~p[2] => c \in Strangers
  BY DEF Requests, Req

LEMMA Packets ==
  ASSUME NEW k \in Req
  PROVE  Packet(k) \in Seq(Byte) /\ Len(Packet(k)) = packetSize
<1>1. packetSize \in Nat
  BY SizesAssumption
<1>2. \A i \in 1..packetSize : <<k, i>> \in Byte
  BY DEF Byte, Req
<1>3. Packet(k) \in [1..packetSize -> Byte]
  BY <1>2 DEF Packet
<1> QED BY <1>1, <1>3

LEMMA InitIInv == Init => IInv
<1> SUFFICES ASSUME Init PROVE IInv
  OBVIOUS
<1> USE SizesAssumption
<1>1. Zero \in Byte /\ ZeroData \in [1..packetSize -> Byte]
  BY DEF Byte, ZeroData
<1> DEFINE empty == [buffer |-> [i \in CB!Index |-> Zero], writePos |-> 0, readPos |-> 0,
                     currentSize |-> 0]
<1>2. 0 \in CB!Index /\ 0 \in 0..bufferSize
  BY DEF CB!Index
<1>3. empty \in CB!Ring
  BY <1>1, <1>2 DEF CB!Ring
<1>4. P!Ahead(0, 0) = 0
  <2>1. 0 \in P!Index /\ 0 \in Nat /\ 0 <= bufferSize
    BY DEF P!Index
  <2>2. P!Ahead(0, 0) = IF 0 + 0 < bufferSize THEN 0 + 0 ELSE 0 + 0 - bufferSize
    BY <2>1, P!Position
  <2> QED BY <2>2
<1>5. WellFormed(empty)
  BY <1>3, <1>4 DEF WellFormed
<1>6. circularBuffer = [c \in Clients |-> empty]
  BY DEF Init
<1> HIDE DEF empty
<1>7. circularBuffer \in [Clients -> CB!Ring] /\ RingsWellFormed
  <2>1. \A c \in Clients : circularBuffer[c] = empty
    BY <1>6
  <2>2. RingsWellFormed
    BY <1>5, <2>1, Zenon DEF RingsWellFormed
  <2> QED BY <1>3, <1>6, <2>2
<1>8. TypeOK
  <2>1. /\ readData \in [Clients -> [1..packetSize -> Byte]]
        /\ procSktQueue \in Seq(Clients)
        /\ sent \in [Clients -> 0..MaxPackets]
        /\ answered \in [Clients -> Nat]
    BY <1>1 DEF Init
  <2>2. /\ pc \in [Workers \cup RedisThreads -> Place]
        /\ recv \in [Workers -> {NoRecv} \cup [client : Clients, data : Seq(Byte)]]
        /\ tempD \in [RedisThreads -> Clients \cup {NoClient}]
        /\ packetInfo \in [RedisThreads -> Clients \cup {NoClient}]
    BY DEF Init, Place
  <2>3. copied \in [RedisThreads -> 0..packetSize]
    BY DEF Init
  <2>4. user \in [RedisThreads -> Byte]
    BY <1>1 DEF Init
  <2>5. mixed \subseteq Clients /\ refused \in BOOLEAN /\ terminated \in BOOLEAN
    BY DEF Init
  <2> QED BY <1>7, <2>1, <2>2, <2>3, <2>4, <2>5 DEF TypeOK
<1>9. WorkerHolds /\ RedisHolds /\ Copying
  BY DEF WorkerHolds, RedisHolds, Copying, Init, Place
<1> QED BY <1>7, <1>8, <1>9 DEF IInv

\* Nobody else touches the ring a thread copies from.
LEMMA RingStays ==
  ASSUME IInv, Next, NEW u \in RedisThreads, pc[u] = "copy", ~CopyByte(u)
  PROVE  circularBuffer'[tempD[u]] = circularBuffer[tempD[u]] /\ pc'[u] = "copy"
         /\ UNCHANGED <<tempD[u], copied[u]>>
<1> USE ThreadsAssumption DEF IInv
<1>1. tempD[u] \in Clients
  BY DEF RedisHolds
<1>2. ASSUME NEW w \in Workers, WriteRecvData(w)
      PROVE  circularBuffer'[tempD[u]] = circularBuffer[tempD[u]] /\ pc'[u] = pc[u]
             /\ tempD' = tempD /\ copied' = copied
  <2>1. recv[w].client # tempD[u]
    BY <1>2 DEF WriteRecvData, Locked
  <2>2. pc'[u] = pc[u] /\ tempD' = tempD /\ copied' = copied
    BY <1>2 DEF WriteRecvData, Goto, TypeOK
  <2>3. circularBuffer' = circularBuffer
        \/ \E x : circularBuffer' = [circularBuffer EXCEPT ![recv[w].client] = x]
    BY <1>2 DEF WriteRecvData
  <2> QED BY <1>1, <2>1, <2>2, <2>3 DEF TypeOK
<1>3. ASSUME NEW w \in Workers, PushDataPacket(w) \/ \E c \in Clients : Receive(w, c)
      PROVE  /\ circularBuffer' = circularBuffer /\ pc'[u] = pc[u]
             /\ tempD' = tempD /\ copied' = copied
  BY <1>3 DEF PushDataPacket, Receive, Goto, TypeOK
<1>4. ASSUME NEW t \in RedisThreads, t # u, CopyByte(t)
      PROVE  circularBuffer'[tempD[u]] = circularBuffer[tempD[u]] /\ pc'[u] = pc[u]
             /\ UNCHANGED <<tempD[u], copied[u]>>
  <2>1. tempD[t] # tempD[u]
    BY <1>4 DEF CopyByte, Copying
  <2>2. \/ UNCHANGED <<circularBuffer, pc, tempD>>
        \/ /\ \E x : circularBuffer' = [circularBuffer EXCEPT ![tempD[t]] = x]
           /\ pc' = [pc EXCEPT ![t] = "dispatch"] /\ tempD' = [tempD EXCEPT ![t] = NoClient]
    BY <1>4 DEF CopyByte, EndRead, Goto
  <2>3. copied' = [copied EXCEPT ![t] = copied[t] + 1]
    BY <1>4 DEF CopyByte
  <2> QED BY <1>1, <1>4, <2>1, <2>2, <2>3 DEF TypeOK
<1>5. ASSUME NEW t \in RedisThreads,
             \/ PopDataPacket(t) \/ ZeroReadData(t) \/ BeginRead(t) \/ Dispatch(t)
             \/ LoginCheck(t) \/ SetUserToken(t) \/ PushSendMsg(t)
      PROVE  /\ circularBuffer' = circularBuffer /\ pc'[u] = pc[u]
             /\ UNCHANGED <<tempD[u], copied[u]>>
  <2>1. t # u
    BY <1>5 DEF PopDataPacket, ZeroReadData, BeginRead, Dispatch, LoginCheck, SetUserToken,
                PushSendMsg
  <2>2. pc' = pc \/ \E l : pc' = [pc EXCEPT ![t] = l]
    BY <1>5 DEF PopDataPacket, ZeroReadData, BeginRead, Dispatch, LoginCheck, SetUserToken,
                PushSendMsg, Goto
  <2>3. /\ circularBuffer' = circularBuffer
        /\ tempD' = tempD \/ \E x : tempD' = [tempD EXCEPT ![t] = x]
        /\ copied' = copied \/ \E x : copied' = [copied EXCEPT ![t] = x]
    BY <1>5 DEF PopDataPacket, ZeroReadData, BeginRead, Dispatch, LoginCheck, SetUserToken,
                PushSendMsg
  <2> QED BY <2>1, <2>2, <2>3 DEF TypeOK
<1> QED BY <1>2, <1>3, <1>4, <1>5 DEF Next, WorkerStep, RedisStep

LEMMA CopyBegins ==
  ASSUME TypeOK, Next, NEW u \in RedisThreads, pc'[u] = "copy", pc[u] # "copy"
  PROVE  BeginRead(u)
<1> USE ThreadsAssumption
<1>1. ASSUME NEW w \in Workers, WorkerStep(w) \/ \E c \in Clients : Receive(w, c)
      PROVE  FALSE
  <2>1. \E l : pc' = [pc EXCEPT ![w] = l]
    BY <1>1 DEF WorkerStep, Receive, WriteRecvData, PushDataPacket, Goto
  <2> QED BY <2>1 DEF TypeOK
<1>2. ASSUME NEW v \in RedisThreads, RedisStep(v) PROVE BeginRead(u)
  <2>1. pc' = pc \/ \E l : pc' = [pc EXCEPT ![v] = l]
    BY <1>2 DEF RedisStep, PopDataPacket, ZeroReadData, BeginRead, CopyByte, EndRead, Dispatch,
                LoginCheck, SetUserToken, PushSendMsg, Goto
  <2>2. v = u
    BY <2>1 DEF TypeOK
  <2>3. ~CopyByte(u)
    BY DEF CopyByte
  <2>4. CASE \/ PopDataPacket(u) \/ ZeroReadData(u) \/ Dispatch(u) \/ LoginCheck(u)
             \/ SetUserToken(u) \/ PushSendMsg(u)
    BY <2>4 DEF PopDataPacket, ZeroReadData, Dispatch, LoginCheck, SetUserToken, PushSendMsg,
                Goto, TypeOK
  <2> QED BY <1>2, <2>2, <2>3, <2>4 DEF RedisStep
<1> QED BY <1>1, <1>2 DEF Next

LEMMA StepCopying == IInv /\ Next => Copying'
<1> SUFFICES ASSUME IInv, Next, NEW t \in RedisThreads, pc'[t] = "copy"
             PROVE  /\ CB!HasData(circularBuffer'[tempD'[t]], packetSize)
                    /\ \A u \in RedisThreads : pc'[u] = "copy" /\ tempD'[u] = tempD'[t] => u = t
  BY DEF Copying
<1> USE ThreadsAssumption DEF IInv
\* A thread in Read goes on there, or begins and finds the ring unlocked.
<1>1. ASSUME NEW u \in RedisThreads, pc'[u] = "copy"
      PROVE  \/ /\ pc[u] = "copy" /\ tempD'[u] = tempD[u]
                /\ circularBuffer'[tempD[u]] = circularBuffer[tempD[u]]
             \/ BeginRead(u) /\ CB!HasData(circularBuffer[tempD[u]], packetSize)
  <2>1. CASE pc[u] = "copy" /\ ~CopyByte(u)
    BY <2>1, RingStays
  <2>2. CASE CopyByte(u)
    <3>1. UNCHANGED <<circularBuffer, packetInfo, tempD, pc>>
      BY <1>1, <2>2 DEF CopyByte, EndRead, Goto, TypeOK
    <3> QED BY <2>2, <3>1 DEF CopyByte
  <2>3. CASE pc[u] # "copy"
    <3>1. BeginRead(u)
      BY <1>1, <2>3, CopyBegins
    <3>2. CB!HasData(circularBuffer[tempD[u]], packetSize)
      BY <1>1, <3>1 DEF BeginRead, Goto, TypeOK
    <3> QED BY <3>1, <3>2
  <2> QED BY <2>1, <2>2, <2>3
<1>2. ASSUME NEW u \in RedisThreads, BeginRead(u), pc'[u] = "copy"
      PROVE  /\ circularBuffer' = circularBuffer /\ tempD' = tempD /\ ~Locked(tempD[u])
             /\ \A v \in RedisThreads : v # u => pc'[v] = pc[v]
  BY <1>2 DEF BeginRead, Goto, TypeOK
<1>3. CB!HasData(circularBuffer'[tempD'[t]], packetSize)
  BY <1>1, <1>2 DEF Copying
<1>4. ASSUME NEW u \in RedisThreads, pc'[u] = "copy", tempD'[u] = tempD'[t]
      PROVE  u = t
  <2>1. CASE BeginRead(u) /\ u # t
    <3>1. pc[t] = "copy" /\ tempD[t] = tempD[u]
      BY <1>2, <1>4, <2>1
    <3> QED BY <1>2, <1>4, <2>1, <3>1 DEF Locked
  <2>2. CASE BeginRead(t) /\ u # t
    <3>1. pc[u] = "copy" /\ tempD[t] = tempD[u]
      BY <1>2, <1>4, <2>2
    <3> QED BY <1>2, <1>4, <2>2, <3>1 DEF Locked
  <2>3. CASE ~BeginRead(u) /\ ~BeginRead(t)
    BY <1>1, <1>4, <2>3 DEF Copying
  <2> QED BY <2>1, <2>2, <2>3
<1> QED BY <1>3, <1>4

Kept == TypeOK /\ WorkerHolds /\ RedisHolds /\ RingsWellFormed

LEMMA StepKept == IInv /\ [Next]_vars => Kept'
<1> SUFFICES ASSUME IInv, [Next]_vars PROVE Kept'
  OBVIOUS
<1> USE SizesAssumption, ThreadsAssumption DEF IInv, Kept
<1>1. ASSUME NEW w \in Workers, NEW c \in Clients, Receive(w, c)
      PROVE  Kept'
  <2>1. sent[c] + 1 \in 1..MaxPackets
    BY <1>1 DEF Receive, TypeOK
  <2>2. PICK q \in Received : recv' = [recv EXCEPT ![w] = q]
    <3>1. PICK p \in Requests(c) : recv' = [recv EXCEPT ![w] = [client |-> c, data |-> Packet(p)]]
      BY <1>1 DEF Receive
    <3>2. [client |-> c, data |-> Packet(p)] \in Received
      BY RequestsAre, Packets DEF Received
    <3> QED BY <3>1, <3>2
  <2>3. Received \subseteq [client : Clients, data : Seq(Byte)]
    BY DEF Received
  <2>4. TypeOK'
    <3>1. recv' \in [Workers -> {NoRecv} \cup [client : Clients, data : Seq(Byte)]]
      BY <2>2, <2>3 DEF TypeOK
    <3>2. /\ sent' \in [Clients -> 0..MaxPackets]
          /\ pc' \in [Workers \cup RedisThreads -> Place]
      BY <1>1, <2>1 DEF Receive, Goto, TypeOK, Place
    <3> QED BY <1>1, <3>1, <3>2 DEF Receive, TypeOK
  <2>5. WorkerHolds'
    BY <1>1, <2>2 DEF Receive, Goto, TypeOK, WorkerHolds
  <2>6. RedisHolds'
    BY <1>1 DEF Receive, Goto, TypeOK, RedisHolds
  <2>7. RingsWellFormed'
    BY <1>1 DEF Receive, RingsWellFormed
  <2> QED BY <2>4, <2>5, <2>6, <2>7
<1>2. ASSUME NEW w \in Workers, WriteRecvData(w)
      PROVE  Kept'
  <2> DEFINE c == recv[w].client
  <2>1. c \in Clients /\ recv[w].data \in Seq(Byte) /\ Len(recv[w].data) = packetSize
    BY <1>2 DEF WriteRecvData, WorkerHolds, Received
  <2>2. circularBuffer' \in [Clients -> CB!Ring] /\ RingsWellFormed'
    <3>1. CASE CB!HasRoom(circularBuffer[c], packetSize)
      <4>1. circularBuffer' = [circularBuffer EXCEPT
                                 ![c] = CB!Written(circularBuffer[c], recv[w].data)]
        BY <1>2, <3>1 DEF WriteRecvData
      <4>2. WellFormed(CB!Written(circularBuffer[c], recv[w].data))
        BY <2>1, <3>1, RingWritten DEF RingsWellFormed
      <4> QED BY <2>1, <4>1, <4>2 DEF TypeOK, RingsWellFormed, WellFormed
    <3>2. CASE ~CB!HasRoom(circularBuffer[c], packetSize)
      BY <1>2, <3>2 DEF WriteRecvData, TypeOK, RingsWellFormed
    <3> QED BY <3>1, <3>2
  <2>3. refused' \in BOOLEAN
    BY <1>2 DEF WriteRecvData, TypeOK
  <2>4. TypeOK'
    BY <1>2, <2>2, <2>3 DEF WriteRecvData, Goto, TypeOK, Place
  <2>5. WorkerHolds'
    BY <1>2 DEF WriteRecvData, Goto, TypeOK, WorkerHolds
  <2>6. RedisHolds'
    BY <1>2 DEF WriteRecvData, Goto, TypeOK, RedisHolds
  <2> QED BY <2>2, <2>4, <2>5, <2>6
<1>3. ASSUME NEW w \in Workers, PushDataPacket(w)
      PROVE  Kept'
  <2>1. recv[w].client \in Clients
    BY <1>3 DEF PushDataPacket, WorkerHolds, Received
  <2>2. TypeOK'
    BY <1>3, <2>1 DEF PushDataPacket, Goto, TypeOK, Place
  <2>3. WorkerHolds'
    BY <1>3 DEF PushDataPacket, Goto, TypeOK, WorkerHolds
  <2>4. RedisHolds'
    BY <1>3 DEF PushDataPacket, Goto, TypeOK, RedisHolds
  <2>5. RingsWellFormed'
    BY <1>3 DEF PushDataPacket, RingsWellFormed
  <2> QED BY <2>2, <2>3, <2>4, <2>5
<1>4. ASSUME NEW t \in RedisThreads, PopDataPacket(t)
      PROVE  Kept'
  <2>1. Head(procSktQueue) \in Clients /\ Tail(procSktQueue) \in Seq(Clients)
    BY <1>4 DEF PopDataPacket, TypeOK
  <2>2. TypeOK'
    BY <1>4, <2>1 DEF PopDataPacket, Goto, TypeOK, Place
  <2>3. WorkerHolds'
    BY <1>4 DEF PopDataPacket, Goto, TypeOK, WorkerHolds
  <2>4. RedisHolds'
    BY <1>4, <2>1 DEF PopDataPacket, Goto, TypeOK, RedisHolds, Place
  <2>5. RingsWellFormed'
    BY <1>4 DEF PopDataPacket, RingsWellFormed
  <2> QED BY <2>2, <2>3, <2>4, <2>5
<1>5. ASSUME NEW t \in RedisThreads, ZeroReadData(t)
      PROVE  Kept'
  <2>1. tempD[t] \in Clients /\ copied[t] + 1 \in 1..packetSize /\ Zero \in Byte
    BY <1>5 DEF ZeroReadData, RedisHolds, TypeOK, Byte
  <2>2. readData' \in [Clients -> [1..packetSize -> Byte]]
    BY <1>5, <2>1 DEF ZeroReadData, TypeOK
  <2>3. copied' \in [RedisThreads -> 0..packetSize]
    BY <1>5, <2>1 DEF ZeroReadData, TypeOK
  <2>4. pc' = [pc EXCEPT ![t] = "Read"] \/ pc' = pc
    BY <1>5 DEF ZeroReadData, Goto
  <2>5. TypeOK'
    BY <1>5, <2>2, <2>3, <2>4 DEF ZeroReadData, TypeOK, Place
  <2>6. WorkerHolds'
    BY <1>5, <2>4 DEF ZeroReadData, TypeOK, WorkerHolds
  <2>7. RedisHolds'
    <3>1. copied[t] + 1 = packetSize => pc' = [pc EXCEPT ![t] = "Read"]
      BY <1>5 DEF ZeroReadData, Goto
    <3> QED BY <1>5, <2>1, <2>4, <3>1 DEF ZeroReadData, TypeOK, RedisHolds, Place
  <2>8. RingsWellFormed'
    BY <1>5 DEF ZeroReadData, RingsWellFormed
  <2> QED BY <2>5, <2>6, <2>7, <2>8
<1>6. ASSUME NEW t \in RedisThreads, ~terminated, BeginRead(t)
      PROVE  Kept'
  <2> DEFINE r == circularBuffer[tempD[t]]
  <2>1. tempD[t] \in Clients
    BY <1>6 DEF BeginRead, RedisHolds
  <2>2. \/ /\ pc' = [pc EXCEPT ![t] = "copy"] /\ tempD' = tempD /\ terminated' = terminated
        \/ /\ pc' = [pc EXCEPT ![t] = "LoginCheck"] /\ tempD' = [tempD EXCEPT ![t] = NoClient]
           /\ terminated' = (packetInfo[t] = NoClient)
    BY <1>6 DEF BeginRead, Goto
  <2>3. /\ copied' = [copied EXCEPT ![t] = 0] /\ pc[t] = "Read"
        /\ UNCHANGED <<circularBuffer, readData, procSktQueue, sent, answered, recv, packetInfo,
                       user, mixed, refused>>
    BY <1>6 DEF BeginRead
  <2>4. TypeOK'
    <3>1. /\ pc' \in [Workers \cup RedisThreads -> Place]
          /\ tempD' \in [RedisThreads -> Clients \cup {NoClient}]
          /\ terminated' \in BOOLEAN
      BY <2>2 DEF TypeOK, Place
    <3>2. copied' \in [RedisThreads -> 0..packetSize]
      BY <2>3 DEF TypeOK
    <3> QED BY <2>3, <3>1, <3>2 DEF TypeOK
  <2>5. WorkerHolds'
    BY <2>2, <2>3 DEF TypeOK, WorkerHolds
  <2>6. RedisHolds'
    <3>1. \A u \in RedisThreads : u # t => /\ tempD'[u] = tempD[u] /\ pc'[u] = pc[u]
                                          /\ copied'[u] = copied[u]
      BY <2>2, <2>3 DEF TypeOK
    <3>2. copied'[t] = 0 /\ 0 < packetSize
      BY <2>3 DEF TypeOK
    <3>3. CASE pc' = [pc EXCEPT ![t] = "copy"] /\ tempD' = tempD /\ terminated' = terminated
      <4>1. pc'[t] = "copy" /\ tempD'[t] \in Clients
        BY <2>1, <3>3 DEF TypeOK
      <4> QED BY <2>3, <3>1, <3>2, <3>3, <4>1 DEF RedisHolds, Place
    <3>4. CASE /\ pc' = [pc EXCEPT ![t] = "LoginCheck"]
               /\ terminated' = (packetInfo[t] = NoClient)
      <4>1. pc'[t] = "LoginCheck" /\ (terminated' \/ packetInfo[t] \in Clients)
        BY <3>4 DEF TypeOK
      <4> QED BY <1>6, <2>3, <3>1, <4>1 DEF RedisHolds, Place
    <3> QED BY <2>2, <3>3, <3>4
  <2>7. RingsWellFormed'
    BY <2>3 DEF RingsWellFormed
  <2> QED BY <2>4, <2>5, <2>6, <2>7
<1>12. ASSUME NEW t \in RedisThreads, ~terminated, CopyByte(t)
       PROVE  Kept'
  <2> DEFINE c == tempD[t]
             r == circularBuffer[c]
             k == copied[t] + 1
  <2>1. /\ c \in Clients /\ WellFormed(r) /\ k \in 1..packetSize /\ pc[t] = "copy"
        /\ CB!HasData(r, packetSize)
    BY <1>12 DEF CopyByte, RedisHolds, RingsWellFormed, Copying, TypeOK
  <2>2. /\ WellFormed(CB!Taken(r, packetSize))
        /\ CB!ReadBytes(r, packetSize) \in [1..packetSize -> Byte]
    BY <2>1, RingTaken
  <2>3. /\ readData' = [readData EXCEPT ![c][k] = CB!ReadBytes(r, packetSize)[k]]
        /\ copied' = [copied EXCEPT ![t] = k]
        /\ UNCHANGED <<procSktQueue, sent, answered, recv, user, mixed, refused, terminated>>
    BY <1>12 DEF CopyByte
  <2>4. readData' \in [Clients -> [1..packetSize -> Byte]]
    <3>1. CB!ReadBytes(r, packetSize)[k] \in Byte
      BY <2>1, <2>2
    <3> QED BY <2>1, <2>3, <3>1 DEF TypeOK
  <2>5. CASE k = packetSize
    <3>1. /\ circularBuffer' = [circularBuffer EXCEPT ![c] = CB!Taken(r, packetSize)]
          /\ packetInfo' = [packetInfo EXCEPT ![t] = c]
          /\ tempD' = [tempD EXCEPT ![t] = NoClient]
          /\ pc' = [pc EXCEPT ![t] = "dispatch"]
      BY <1>12, <2>5 DEF CopyByte, EndRead, Goto
    <3>2. circularBuffer' \in [Clients -> CB!Ring] /\ RingsWellFormed'
      BY <2>1, <2>2, <3>1 DEF TypeOK, RingsWellFormed, WellFormed
    <3>3. TypeOK'
      BY <2>1, <2>3, <2>4, <3>1, <3>2 DEF TypeOK, Place
    <3>4. WorkerHolds'
      BY <2>3, <3>1 DEF TypeOK, WorkerHolds
    <3>5. RedisHolds'
      BY <2>1, <2>3, <3>1 DEF TypeOK, RedisHolds, Place
    <3> QED BY <3>2, <3>3, <3>4, <3>5
  <2>6. CASE k # packetSize
    <3>1. UNCHANGED <<circularBuffer, packetInfo, tempD, pc>>
      BY <1>12, <2>6 DEF CopyByte
    <3>2. TypeOK'
      BY <2>1, <2>3, <2>4, <3>1 DEF TypeOK
    <3>3. WorkerHolds' /\ RingsWellFormed'
      BY <2>3, <3>1 DEF WorkerHolds, RingsWellFormed
    <3>4. RedisHolds'
      BY <2>1, <2>3, <2>6, <3>1 DEF TypeOK, RedisHolds
    <3> QED BY <3>2, <3>3, <3>4
  <2> QED BY <2>5, <2>6
<1>7. ASSUME NEW t \in RedisThreads, ~terminated, Dispatch(t)
      PROVE  Kept'
  <2>1. \/ pc' = [pc EXCEPT ![t] = "LoginCheck"] /\ terminated' = terminated
        \/ pc' = pc /\ terminated' = TRUE
    BY <1>7 DEF Dispatch, Goto
  <2>2. TypeOK'
    BY <1>7, <2>1 DEF Dispatch, TypeOK, Place
  <2>3. WorkerHolds'
    BY <1>7, <2>1 DEF Dispatch, TypeOK, WorkerHolds
  <2>4. RedisHolds'
    BY <1>7, <2>1 DEF Dispatch, TypeOK, RedisHolds, Place
  <2>5. RingsWellFormed'
    BY <1>7 DEF Dispatch, RingsWellFormed
  <2> QED BY <2>2, <2>3, <2>4, <2>5
<1>8. ASSUME NEW t \in RedisThreads, ~terminated, LoginCheck(t)
      PROVE  Kept'
  <2>1. readData[packetInfo[t]][packetSize] \in Byte
    BY <1>8 DEF LoginCheck, RedisHolds, TypeOK
  <2>2. /\ user' \in [RedisThreads -> Byte]
        /\ pc' = [pc EXCEPT ![t] = "SetUserToken"] \/ pc' = [pc EXCEPT ![t] = "PushSendMsg"]
    BY <1>8, <2>1 DEF LoginCheck, Goto, TypeOK
  <2>3. TypeOK'
    BY <1>8, <2>2 DEF LoginCheck, TypeOK, Place
  <2>4. WorkerHolds'
    BY <1>8, <2>2 DEF LoginCheck, TypeOK, WorkerHolds
  <2>5. RedisHolds'
    BY <1>8, <2>2 DEF LoginCheck, TypeOK, RedisHolds, Place
  <2>6. RingsWellFormed'
    BY <1>8 DEF LoginCheck, RingsWellFormed
  <2> QED BY <2>3, <2>4, <2>5, <2>6
<1>9. ASSUME NEW t \in RedisThreads, ~terminated, SetUserToken(t)
      PROVE  Kept'
  <2>1. packetInfo[t] \in Clients /\ Zero \in Byte
    BY <1>9 DEF SetUserToken, RedisHolds, Byte
  <2>2. TypeOK'
    BY <1>9, <2>1 DEF SetUserToken, Goto, TypeOK, Place
  <2>3. WorkerHolds'
    BY <1>9 DEF SetUserToken, Goto, TypeOK, WorkerHolds
  <2>4. RedisHolds'
    BY <1>9 DEF SetUserToken, Goto, TypeOK, RedisHolds, Place
  <2>5. RingsWellFormed'
    BY <1>9 DEF SetUserToken, RingsWellFormed
  <2> QED BY <2>2, <2>3, <2>4, <2>5
<1>10. ASSUME NEW t \in RedisThreads, ~terminated, PushSendMsg(t)
       PROVE  Kept'
  <2>1. packetInfo[t] \in Clients
    BY <1>10 DEF PushSendMsg, RedisHolds
  <2>2. TypeOK'
    BY <1>10, <2>1 DEF PushSendMsg, Goto, TypeOK, Place
  <2>3. WorkerHolds'
    BY <1>10 DEF PushSendMsg, Goto, TypeOK, WorkerHolds
  <2>4. RedisHolds'
    BY <1>10 DEF PushSendMsg, Goto, TypeOK, RedisHolds, Place
  <2>5. RingsWellFormed'
    BY <1>10 DEF PushSendMsg, RingsWellFormed
  <2> QED BY <2>2, <2>3, <2>4, <2>5
<1>11. CASE UNCHANGED vars
  BY <1>11 DEF vars, TypeOK, WorkerHolds, RedisHolds, RingsWellFormed
<1> QED
  BY <1>1, <1>2, <1>3, <1>4, <1>5, <1>6, <1>7, <1>8, <1>9, <1>10, <1>11, <1>12
     DEF Next, WorkerStep, RedisStep

LEMMA StepIInv == IInv /\ [Next]_vars => IInv'
<1> SUFFICES ASSUME IInv, [Next]_vars PROVE Copying'
  BY StepKept DEF IInv, Kept
<1>1. CASE UNCHANGED vars
  <2>1. UNCHANGED <<circularBuffer, pc, tempD>>
    BY <1>1 DEF vars
  <2> QED BY <2>1 DEF IInv, Copying, CB!HasData
<1> QED BY <1>1, StepCopying

LEMMA Invariance == Spec => []IInv
  BY InitIInv, StepIInv, PTL DEF Spec

(* Types: no position leaves its array, no thread dereferences a PacketInfo   *)
(* it was never given.                                                      *)
THEOREM TypeCorrect == Spec => []TypeOK
<1>1. IInv => TypeOK
  BY DEF IInv
<1> QED BY <1>1, Invariance, PTL

-----------------------------------------------------------------------------
(* The rings implement ByteQueue.                                           *)

bytes == [c \in Clients |-> CB!Content(circularBuffer[c])]

LEMMA Prefix ==
  ASSUME NEW S, NEW s \in Seq(S), NEW u \in Seq(S)
  PROVE  IsPrefix(s, s \o u)
<1>1. Len(s) <= Len(s \o u) /\ SubSeq(s, 1, Len(s)) = SubSeq(s \o u, 1, Len(s))
  OBVIOUS
<1> QED BY <1>1 DEF IsPrefix

LEMMA InitMapped == Init => Queues!Init
<1> SUFFICES ASSUME Init PROVE Queues!Init
  OBVIOUS
<1>1. IInv
  BY InitIInv
<1>2. ASSUME NEW c \in Clients PROVE bytes[c] = <<>>
  <2>1. WellFormed(circularBuffer[c]) /\ circularBuffer[c].currentSize = 0
    BY <1>1 DEF IInv, RingsWellFormed, Init
  <2>2. CB!Content(circularBuffer[c]) \in Seq(Byte) /\ Len(CB!Content(circularBuffer[c])) = 0
    BY <2>1, RingContent
  <2> QED BY <2>2 DEF bytes
<1>3. bytes = [c \in Clients |-> <<>>]
  BY <1>2 DEF bytes
<1> QED BY <1>3, Zenon DEF Queues!Init, bytes

LEMMA WriteMapped ==
  ASSUME IInv, NEW w \in Workers, WriteRecvData(w)
  PROVE  bytes' = bytes \/ Queues!Write(recv[w].client)
<1> DEFINE c == recv[w].client
           r == circularBuffer[c]
           data == recv[w].data
<1>1. c \in Clients /\ data \in Seq(Byte) /\ Len(data) = packetSize /\ WellFormed(r)
  BY DEF IInv, WriteRecvData, WorkerHolds, Received, RingsWellFormed
<1>2. CASE CB!HasRoom(r, packetSize)
  <2>1. circularBuffer' = [circularBuffer EXCEPT ![c] = CB!Written(r, data)]
    BY <1>2 DEF WriteRecvData
  <2>2. /\ WellFormed(CB!Written(r, data))
        /\ CB!Content(CB!Written(r, data)) = CB!Content(r) \o data
    BY <1>1, <1>2, RingWritten
  <2>3. /\ CB!Content(r) \in Seq(Byte)
        /\ CB!Content(CB!Written(r, data)) \in Seq(Byte)
        /\ Len(CB!Content(CB!Written(r, data))) <= bufferSize
    <3>1. CB!Content(r) \in Seq(Byte)
      BY <1>1, RingContent
    <3>2. /\ CB!Content(CB!Written(r, data)) \in Seq(Byte)
          /\ Len(CB!Content(CB!Written(r, data))) <= bufferSize
      <4>1. PICK q : q = CB!Written(r, data)
        OBVIOUS
      <4>2. CB!Content(q) \in Seq(Byte) /\ Len(CB!Content(q)) <= bufferSize
        BY <2>2, <4>1, RingContent
      <4> QED BY <4>1, <4>2
    <3> QED BY <3>1, <3>2
  <2>4. bytes' = [bytes EXCEPT ![c] = CB!Content(CB!Written(r, data))]
    <3> HIDE DEF c, r, data
    <3>1. \A d \in Clients : circularBuffer'[d] = IF d = c THEN CB!Written(r, data)
                                                  ELSE circularBuffer[d]
      BY <1>1, <2>1 DEF IInv, TypeOK
    <3> QED BY <3>1 DEF bytes
  <2>5. bytes'[c] = CB!Content(CB!Written(r, data)) /\ bytes[c] = CB!Content(r)
    BY <1>1, <2>4 DEF bytes
  <2>6. IsPrefix(bytes[c], bytes'[c])
    BY <1>1, <2>2, <2>3, <2>5, Prefix
  <2> HIDE DEF c, r, data
  <2>7. \E q \in {bytes'[c]} : /\ q \in Seq(Byte) /\ Len(q) <= bufferSize
                               /\ IsPrefix(bytes[c], q)
                               /\ bytes' = [bytes EXCEPT ![c] = q]
    BY <2>3, <2>4, <2>5, <2>6
  <2>8. Queues!Write(c)
    BY <2>7, Zenon DEF Queues!Write, Queues!IsPrefix, IsPrefix, bytes
  <2> QED BY <2>8 DEF c
<1>3. CASE ~CB!HasRoom(r, packetSize)
  BY <1>3 DEF WriteRecvData, bytes
<1> QED BY <1>2, <1>3

LEMMA ReadMapped ==
  ASSUME IInv, NEW t \in RedisThreads, CopyByte(t)
  PROVE  bytes' = bytes \/ Queues!Read(tempD[t])
<1> DEFINE c == tempD[t]
           r == circularBuffer[c]
<1>1. c \in Clients /\ WellFormed(r) /\ packetSize \in Nat /\ CB!HasData(r, packetSize)
  BY SizesAssumption DEF IInv, CopyByte, RedisHolds, RingsWellFormed, Copying
<1>2. CASE copied[t] + 1 = packetSize
  <2>1. circularBuffer' = [circularBuffer EXCEPT ![c] = CB!Taken(r, packetSize)]
    BY <1>2 DEF CopyByte, EndRead
  <2>2. CB!Content(CB!Taken(r, packetSize))
          = SubSeq(CB!Content(r), packetSize + 1, Len(CB!Content(r)))
    BY <1>1, RingTaken
  <2>3. packetSize \in 0..Len(CB!Content(r))
    BY <1>1, RingContent DEF CB!HasData
  <2> HIDE DEF c, r
  <2>4. \A d \in Clients : circularBuffer'[d] = IF d = c THEN CB!Taken(r, packetSize)
                                                ELSE circularBuffer[d]
    BY <1>1, <2>1 DEF IInv, TypeOK
  <2>5. bytes[c] = CB!Content(r)
    BY <1>1 DEF bytes, r
  <2>6. bytes' = [bytes EXCEPT ![c] = SubSeq(bytes[c], packetSize + 1, Len(bytes[c]))]
    BY <2>2, <2>4, <2>5 DEF bytes
  <2>7. \E n \in 0..Len(bytes[c]) :
          bytes' = [bytes EXCEPT ![c] = SubSeq(bytes[c], n + 1, Len(bytes[c]))]
    BY <2>3, <2>5, <2>6
  <2>8. Queues!Read(c)
    BY <2>7, Zenon DEF Queues!Read, bytes
  <2> QED BY <2>8 DEF c
<1>3. CASE copied[t] + 1 # packetSize
  BY <1>3 DEF CopyByte, bytes
<1> QED BY <1>2, <1>3

LEMMA StepMapped == IInv /\ [Next]_vars => [Queues!Next]_bytes
<1> SUFFICES ASSUME IInv, [Next]_vars PROVE Queues!Next \/ bytes' = bytes
  OBVIOUS
<1>1. ASSUME NEW w \in Workers, WriteRecvData(w)
      PROVE  Queues!Next \/ bytes' = bytes
  <2>1. recv[w].client \in Clients
    BY <1>1 DEF IInv, WriteRecvData, WorkerHolds, Received
  <2> QED BY <1>1, <2>1, WriteMapped DEF Queues!Next
<1>2. ASSUME NEW t \in RedisThreads, CopyByte(t)
      PROVE  Queues!Next \/ bytes' = bytes
  <2>1. tempD[t] \in Clients
    BY <1>2 DEF IInv, CopyByte, RedisHolds
  <2> QED BY <1>2, <2>1, ReadMapped DEF Queues!Next
<1>3. CASE circularBuffer' = circularBuffer
  BY <1>3 DEF bytes
<1>4. CASE \E w \in Workers : \/ PushDataPacket(w)
                              \/ \E c \in Clients : Receive(w, c)
  BY <1>3, <1>4 DEF PushDataPacket, Receive
<1>5. CASE \E t \in RedisThreads : \/ PopDataPacket(t) \/ ZeroReadData(t) \/ BeginRead(t)
                                   \/ Dispatch(t) \/ LoginCheck(t) \/ SetUserToken(t)
                                   \/ PushSendMsg(t)
  BY <1>3, <1>5 DEF PopDataPacket, ZeroReadData, BeginRead, Dispatch, LoginCheck, SetUserToken,
                    PushSendMsg
<1>6. CASE UNCHANGED vars
  BY <1>3, <1>6 DEF vars
<1> QED BY <1>1, <1>2, <1>4, <1>5, <1>6 DEF Next, WorkerStep, RedisStep

(* The clients' CircularBuffers implement ByteQueue: bounded FIFO queues of   *)
(* bytes that do not touch each other, whatever the sizes of ring and packet.  *)
THEOREM RingsRefine == Spec => RingIsQueue
<1>1. IInv /\ [Next]_vars => [Queues!Next]_bytes
  BY StepMapped
<1> QED BY <1>1, InitMapped, Invariance, PTL DEF Spec, RingIsQueue, Queues!Spec, bytes

-----------------------------------------------------------------------------
(* Counting: the requests of a client, by where they are.                   *)

Queued(c) == {i \in DOMAIN procSktQueue : procSktQueue[i] = c}
Pushing(c) == {w \in Workers : pc[w] = "push" /\ recv[w].client = c}
Holding(c) == {t \in RedisThreads : tempD[t] = c}
Writing(c) == {w \in Workers : pc[w] = "WriteRecvData" /\ recv[w].client = c}
Serving(c) == {t \in RedisThreads : /\ pc[t] \in {"dispatch", "LoginCheck", "SetUserToken",
                                                "PushSendMsg"}
                                    /\ packetInfo[t] = c}

LEMMA OwedIs ==
  ASSUME NEW c
  PROVE  /\ Owed(c) = Cardinality(Queued(c)) + Cardinality(Pushing(c))
                        + Cardinality(Holding(c))
         /\ Pending(c) = Owed(c) + Cardinality(Writing(c)) + Cardinality(Serving(c))
  BY DEF Owed, Pending, Queued, Pushing, Holding, Writing, Serving

LEMMA OwedIsNext ==
  ASSUME NEW c
  PROVE  /\ Owed(c)' = Cardinality(Queued(c)') + Cardinality(Pushing(c)')
                         + Cardinality(Holding(c)')
         /\ Pending(c)' = Owed(c)' + Cardinality(Writing(c)') + Cardinality(Serving(c)')
  BY DEF Owed, Pending, Queued, Pushing, Holding, Writing, Serving

LEMMA AllFinite ==
  ASSUME TypeOK, NEW c
  PROVE  /\ IsFiniteSet(Queued(c)) /\ IsFiniteSet(Pushing(c)) /\ IsFiniteSet(Holding(c))
         /\ IsFiniteSet(Writing(c)) /\ IsFiniteSet(Serving(c))
         /\ Cardinality(Queued(c)) \in Nat /\ Cardinality(Pushing(c)) \in Nat
         /\ Cardinality(Holding(c)) \in Nat /\ Cardinality(Writing(c)) \in Nat
         /\ Cardinality(Serving(c)) \in Nat
<1>1. IsFiniteSet(1..Len(procSktQueue)) /\ Queued(c) \in SUBSET (1..Len(procSktQueue))
  <2>1. Len(procSktQueue) \in Nat /\ DOMAIN procSktQueue = 1..Len(procSktQueue)
    BY DEF TypeOK
  <2> QED BY <2>1, FS_Interval DEF Queued
<1>2. IsFiniteSet(Queued(c))
  BY <1>1, FS_Subset
<1>3. /\ Pushing(c) \in SUBSET Workers /\ Writing(c) \in SUBSET Workers
      /\ Holding(c) \in SUBSET RedisThreads /\ Serving(c) \in SUBSET RedisThreads
  BY DEF Pushing, Writing, Holding, Serving
<1>4. /\ IsFiniteSet(Pushing(c)) /\ IsFiniteSet(Holding(c))
      /\ IsFiniteSet(Writing(c)) /\ IsFiniteSet(Serving(c))
  BY <1>3, ThreadsAssumption, FS_Subset
<1> QED BY <1>2, <1>4, FS_CardinalityType

LEMMA Joins ==
  ASSUME NEW A, NEW B, NEW x, IsFiniteSet(A), x \notin A, B = A \cup {x}
  PROVE  Cardinality(B) = Cardinality(A) + 1
  BY FS_AddElement

LEMMA Leaves ==
  ASSUME NEW A, NEW B, NEW x, IsFiniteSet(A), x \in A, B = A \ {x}
  PROVE  Cardinality(B) = Cardinality(A) - 1
  BY FS_RemoveElement

\* The entries of a client when one more is queued, and when the first is taken.
Entries(q, c) == {i \in DOMAIN q : q[i] = c}

LEMMA EntriesFinite ==
  ASSUME NEW S, NEW q \in Seq(S), NEW c
  PROVE  IsFiniteSet(Entries(q, c)) /\ Cardinality(Entries(q, c)) \in Nat
<1>1. Entries(q, c) \in SUBSET (1..Len(q)) /\ Len(q) \in Nat
  BY DEF Entries
<1>2. IsFiniteSet(1..Len(q))
  BY <1>1, FS_Interval
<1> QED BY <1>1, <1>2, FS_Subset, FS_CardinalityType

LEMMA EntriesAppend ==
  ASSUME NEW S, NEW q \in Seq(S), NEW d \in S, NEW c
  PROVE  Cardinality(Entries(Append(q, d), c))
           = IF c = d THEN Cardinality(Entries(q, c)) + 1 ELSE Cardinality(Entries(q, c))
<1> DEFINE n == Len(q)
<1>1. n \in Nat /\ DOMAIN q = 1..n
  OBVIOUS
<1>2. /\ DOMAIN Append(q, d) = 1..(n + 1) /\ Append(q, d)[n + 1] = d
      /\ \A i \in 1..n : Append(q, d)[i] = q[i]
  OBVIOUS
<1>3. IsFiniteSet(Entries(q, c)) /\ n + 1 \notin Entries(q, c)
  <2>1. Entries(q, c) \in SUBSET (1..n) /\ IsFiniteSet(1..n)
    BY <1>1, FS_Interval DEF Entries
  <2>2. IsFiniteSet(Entries(q, c))
    BY <2>1, FS_Subset
  <2> QED BY <1>1, <2>1, <2>2
<1> HIDE DEF n
<1>4. CASE c = d
  <2>1. Entries(Append(q, d), c) = Entries(q, c) \cup {n + 1}
    BY <1>1, <1>2, <1>4 DEF Entries
  <2> QED BY <1>3, <1>4, <2>1, Joins
<1>5. CASE c # d
  <2>1. Entries(Append(q, d), c) = Entries(q, c)
    BY <1>1, <1>2, <1>5 DEF Entries
  <2> QED BY <1>5, <2>1
<1> QED BY <1>4, <1>5

LEMMA EntriesTail ==
  ASSUME NEW S, NEW q \in Seq(S), q # <<>>, NEW c
  PROVE  Cardinality(Entries(q, c))
           = IF c = Head(q) THEN Cardinality(Entries(Tail(q), c)) + 1
             ELSE Cardinality(Entries(Tail(q), c))
<1> DEFINE n == Len(q)
           A == Entries(Tail(q), c)
           B == Entries(q, c) \ {1}
<1>1. n \in Nat \ {0} /\ DOMAIN q = 1..n /\ Head(q) = q[1]
  OBVIOUS
<1>2. DOMAIN Tail(q) = 1..(n - 1) /\ \A i \in 1..(n - 1) : Tail(q)[i] = q[i + 1]
  OBVIOUS
<1>3. IsFiniteSet(A) /\ IsFiniteSet(Entries(q, c)) /\ IsFiniteSet(B)
  <2>1. /\ A \in SUBSET (1..(n - 1)) /\ IsFiniteSet(1..(n - 1))
        /\ Entries(q, c) \in SUBSET (1..n) /\ IsFiniteSet(1..n)
    BY <1>1, <1>2, FS_Interval DEF Entries
  <2>2. IsFiniteSet(A) /\ IsFiniteSet(Entries(q, c))
    BY <2>1, FS_Subset
  <2> QED BY <2>2, FS_RemoveElement
<1> HIDE DEF n
<1>4. Cardinality(B) = Cardinality(A)
  <2>1. \A i : i \in A <=> i \in 1..(n - 1) /\ q[i + 1] = c
    BY <1>2 DEF Entries
  <2>2. \A i : i \in B <=> i \in 2..n /\ q[i] = c
    BY <1>1 DEF Entries
  <2> DEFINE f == [i \in A |-> i + 1]
  <2> HIDE DEF A, B
  <2>3. f \in Injection(A, B)
    <3>1. f \in [A -> B]
      BY <1>1, <2>1, <2>2
    <3>2. \A i, j \in A : f[i] = f[j] => i = j
      BY <1>1, <2>1
    <3> QED BY <3>1, <3>2, Zenon DEF Injection, IsInjective
  <2>4. f \in Surjection(A, B)
    <3>1. f \in [A -> B]
      BY <1>1, <2>1, <2>2
    <3>2. ASSUME NEW j \in B PROVE \E i \in A : f[i] = j
      <4>1. j - 1 \in A /\ (j - 1) + 1 = j
        BY <1>1, <2>1, <2>2
      <4> QED BY <4>1
    <3> QED BY <3>1, <3>2, Zenon DEF Surjection
  <2>5. ExistsBijection(A, B)
    BY <2>3, <2>4 DEF ExistsBijection, Bijection
  <2> QED BY <1>3, <2>5, FS_Bijection
<1>5. CASE c = Head(q)
  <2>1. 1 \in Entries(q, c)
    BY <1>1, <1>5 DEF Entries
  <2>2. Cardinality(B) = Cardinality(Entries(q, c)) - 1
    BY <1>3, <2>1, Leaves
  <2>3. Cardinality(Entries(q, c)) \in Nat
    BY <1>3, FS_CardinalityType
  <2> QED BY <1>4, <1>5, <2>2, <2>3
<1>6. CASE c # Head(q)
  <2>1. B = Entries(q, c)
    BY <1>1, <1>6 DEF Entries
  <2> QED BY <1>4, <1>6, <2>1
<1> QED BY <1>5, <1>6

-----------------------------------------------------------------------------
(* What each step does to the number of requests owed and pending.          *)

\* A thread that took an entry holds its client until it has read the bytes.
HoldsToRead == \A t \in RedisThreads : tempD[t] # NoClient => pc[t] \in {"zero", "Read", "copy"}

One(c, d) == IF c = d THEN 1 ELSE 0

LEMMA ReceiveCounts ==
  ASSUME IInv, NEW w \in Workers, NEW d \in Clients, Receive(w, d), NEW c
  PROVE  Owed(c)' = Owed(c) /\ Pending(c)' = Pending(c) + One(c, d)
<1>1. /\ pc' = [pc EXCEPT ![w] = "WriteRecvData"] /\ w \notin RedisThreads
      /\ \E p : recv' = [recv EXCEPT ![w] = [client |-> d, data |-> Packet(p)]]
  BY ThreadsAssumption DEF Receive, Goto
<1>2. pc[w] = "idle" /\ UNCHANGED <<procSktQueue, tempD, packetInfo>>
  BY DEF Receive
<1>3. /\ \A v \in Workers : v # w => pc'[v] = pc[v] /\ recv'[v] = recv[v]
      /\ pc'[w] = "WriteRecvData" /\ recv'[w].client = d
      /\ \A t \in RedisThreads : pc'[t] = pc[t]
  BY <1>1 DEF IInv, TypeOK
<1>4. Queued(c)' = Queued(c) /\ Holding(c)' = Holding(c) /\ Serving(c)' = Serving(c)
  BY <1>2, <1>3 DEF Queued, Holding, Serving
<1>5. Pushing(c)' = Pushing(c)
  BY <1>2, <1>3 DEF Pushing
<1>6. Cardinality(Writing(c)') = Cardinality(Writing(c)) + One(c, d)
  <2>1. CASE c = d
    <3>1. w \notin Writing(c) /\ Writing(c)' = Writing(c) \cup {w}
      BY <1>2, <1>3, <2>1 DEF Writing
    <3>2. IsFiniteSet(Writing(c))
      BY AllFinite DEF IInv
    <3> QED BY <2>1, <3>1, <3>2, Joins DEF One
  <2>2. CASE c # d
    <3>1. Writing(c)' = Writing(c)
      BY <1>2, <1>3, <2>2 DEF Writing
    <3> QED BY <2>2, <3>1, AllFinite DEF One, IInv
  <2> QED BY <2>1, <2>2
<1>7. One(c, d) \in Nat
  BY DEF One
<1> QED BY <1>4, <1>5, <1>6, <1>7, OwedIs, OwedIsNext, AllFinite DEF IInv

LEMMA WriteCounts ==
  ASSUME IInv, NEW w \in Workers, WriteRecvData(w), NEW c
  PROVE  Owed(c)' = Owed(c) + One(c, recv[w].client) /\ Pending(c)' = Pending(c)
<1> DEFINE d == recv[w].client
<1>1. /\ pc' = [pc EXCEPT ![w] = "push"] /\ w \notin RedisThreads /\ pc[w] = "WriteRecvData"
      /\ UNCHANGED <<procSktQueue, tempD, packetInfo, recv>>
  BY ThreadsAssumption DEF WriteRecvData, Goto
<1>2. /\ \A v \in Workers : v # w => pc'[v] = pc[v]
      /\ pc'[w] = "push" /\ \A t \in RedisThreads : pc'[t] = pc[t]
  BY <1>1 DEF IInv, TypeOK
<1>3. Queued(c)' = Queued(c) /\ Holding(c)' = Holding(c) /\ Serving(c)' = Serving(c)
  BY <1>1, <1>2 DEF Queued, Holding, Serving
<1>4. /\ Cardinality(Writing(c)') = Cardinality(Writing(c)) - One(c, d)
      /\ Cardinality(Pushing(c)') = Cardinality(Pushing(c)) + One(c, d)
  <2>1. CASE c = d
    <3>1. /\ w \in Writing(c) /\ Writing(c)' = Writing(c) \ {w}
          /\ w \notin Pushing(c) /\ Pushing(c)' = Pushing(c) \cup {w}
      BY <1>1, <1>2, <2>1 DEF Writing, Pushing
    <3>2. IsFiniteSet(Writing(c)) /\ IsFiniteSet(Pushing(c))
      BY AllFinite DEF IInv
    <3> QED BY <2>1, <3>1, <3>2, Joins, Leaves DEF One
  <2>2. CASE c # d
    <3>1. Writing(c)' = Writing(c) /\ Pushing(c)' = Pushing(c)
      BY <1>1, <1>2, <2>2 DEF Writing, Pushing
    <3> QED BY <2>2, <3>1, AllFinite DEF One, IInv
  <2> QED BY <2>1, <2>2
<1>5. One(c, d) \in Nat
  BY DEF One
<1> QED BY <1>3, <1>4, <1>5, OwedIs, OwedIsNext, AllFinite DEF IInv

LEMMA PushCounts ==
  ASSUME IInv, NEW w \in Workers, PushDataPacket(w), NEW c
  PROVE  Owed(c)' = Owed(c) /\ Pending(c)' = Pending(c)
<1> DEFINE d == recv[w].client
<1>1. /\ pc' = [pc EXCEPT ![w] = "idle"] /\ w \notin RedisThreads /\ pc[w] = "push"
      /\ recv' = [recv EXCEPT ![w] = NoRecv]
      /\ procSktQueue' = Append(procSktQueue, d)
      /\ UNCHANGED <<tempD, packetInfo>>
  BY ThreadsAssumption DEF PushDataPacket, Goto
<1>2. /\ \A v \in Workers : v # w => pc'[v] = pc[v] /\ recv'[v] = recv[v]
      /\ pc'[w] = "idle" /\ \A t \in RedisThreads : pc'[t] = pc[t]
  BY <1>1 DEF IInv, TypeOK
<1>3. Holding(c)' = Holding(c) /\ Serving(c)' = Serving(c) /\ Writing(c)' = Writing(c)
  BY <1>1, <1>2 DEF Holding, Serving, Writing
<1>4. Cardinality(Pushing(c)') = Cardinality(Pushing(c)) - One(c, d)
  <2>1. CASE c = d
    <3>1. w \in Pushing(c) /\ Pushing(c)' = Pushing(c) \ {w}
      BY <1>1, <1>2, <2>1 DEF Pushing
    <3> QED BY <2>1, <3>1, Leaves, AllFinite DEF One, IInv
  <2>2. CASE c # d
    <3>1. Pushing(c)' = Pushing(c)
      BY <1>1, <1>2, <2>2 DEF Pushing
    <3> QED BY <2>2, <3>1, AllFinite DEF One, IInv
  <2> QED BY <2>1, <2>2
<1>5. Cardinality(Queued(c)') = Cardinality(Queued(c)) + One(c, d)
  <2>1. procSktQueue \in Seq(Clients) /\ d \in Clients
    BY DEF IInv, TypeOK, PushDataPacket, WorkerHolds, Received
  <2>2. Queued(c) = Entries(procSktQueue, c) /\ Queued(c)' = Entries(procSktQueue', c)
    BY DEF Queued, Entries
  <2>3. Cardinality(Queued(c)) \in Nat
    BY AllFinite DEF IInv
  <2> HIDE DEF d
  <2> QED BY <1>1, <2>1, <2>2, <2>3, EntriesAppend DEF One
<1>6. One(c, d) \in Nat
  BY DEF One
<1> QED BY <1>3, <1>4, <1>5, <1>6, OwedIs, OwedIsNext, AllFinite DEF IInv

LEMMA PopCounts ==
  ASSUME IInv, HoldsToRead, NEW t \in RedisThreads, PopDataPacket(t), NEW c \in Clients
  PROVE  Owed(c)' = Owed(c) /\ Pending(c)' = Pending(c)
<1> DEFINE d == Head(procSktQueue)
<1>1. /\ pc' = [pc EXCEPT ![t] = "zero"] /\ t \notin Workers /\ pc[t] = "idle"
      /\ tempD' = [tempD EXCEPT ![t] = d] /\ procSktQueue # <<>>
      /\ procSktQueue' = Tail(procSktQueue)
      /\ UNCHANGED <<recv, packetInfo>>
  BY ThreadsAssumption DEF PopDataPacket, Goto
<1>2. /\ \A u \in RedisThreads : u # t => pc'[u] = pc[u] /\ tempD'[u] = tempD[u]
      /\ pc'[t] = "zero" /\ tempD'[t] = d /\ \A w \in Workers : pc'[w] = pc[w]
  BY <1>1 DEF IInv, TypeOK
<1>3. Pushing(c)' = Pushing(c) /\ Writing(c)' = Writing(c)
  BY <1>1, <1>2 DEF Pushing, Writing
<1>4. Serving(c)' = Serving(c)
  BY <1>1, <1>2 DEF Serving
<1>5. Cardinality(Holding(c)') = Cardinality(Holding(c)) + One(c, d)
  <2>1. tempD[t] # c
    BY <1>1, ClientsAssumption DEF HoldsToRead
  <2>2. CASE c = d
    <3>1. t \notin Holding(c) /\ Holding(c)' = Holding(c) \cup {t}
      BY <1>2, <2>1, <2>2 DEF Holding
    <3> QED BY <2>2, <3>1, Joins, AllFinite DEF One, IInv
  <2>3. CASE c # d
    <3>1. Holding(c)' = Holding(c)
      BY <1>2, <2>1, <2>3 DEF Holding
    <3> QED BY <2>3, <3>1, AllFinite DEF One, IInv
  <2> QED BY <2>2, <2>3
<1>6. Cardinality(Queued(c)) = Cardinality(Queued(c)') + One(c, d)
      /\ Cardinality(Queued(c)') \in Nat
  <2>1. procSktQueue \in Seq(Clients)
    BY DEF IInv, TypeOK
  <2>2. Queued(c) = Entries(procSktQueue, c) /\ Queued(c)' = Entries(procSktQueue', c)
    BY DEF Queued, Entries
  <2>3. Cardinality(Entries(procSktQueue', c)) \in Nat
    <3>1. procSktQueue' \in Seq(Clients)
      BY <1>1, <2>1
    <3> QED BY <3>1, EntriesFinite
  <2> QED BY <1>1, <2>1, <2>2, <2>3, EntriesTail DEF One
<1>7. One(c, d) \in Nat
  BY DEF One
<1> HIDE DEF d
<1> QED BY <1>3, <1>4, <1>5, <1>6, <1>7, OwedIs, OwedIsNext, AllFinite DEF IInv

\* Thread t is done with its entry: it has the bytes, or there were none.
Released(t) ==
  /\ pc[t] \in {"Read", "copy"} /\ tempD' = [tempD EXCEPT ![t] = NoClient]
  /\ \/ pc' = [pc EXCEPT ![t] = "dispatch"]
     \/ pc' = [pc EXCEPT ![t] = "LoginCheck"]
  /\ packetInfo' = packetInfo \/ packetInfo' = [packetInfo EXCEPT ![t] = tempD[t]]
  /\ UNCHANGED <<recv, procSktQueue>>

LEMMA ReadCounts ==
  ASSUME IInv, NEW t \in RedisThreads, Released(t), NEW c \in Clients
  PROVE  /\ Owed(c)' = Owed(c) - One(c, tempD[t])
         /\ packetInfo'[t] = tempD[t] /\ pc'[t] = "dispatch" => Pending(c)' = Pending(c)
         /\ Owed(c)' \in Nat
<1> DEFINE d == tempD[t]
<1>1. /\ t \notin Workers /\ pc[t] \in {"Read", "copy"}
      /\ tempD' = [tempD EXCEPT ![t] = NoClient]
      /\ UNCHANGED <<recv, procSktQueue>>
  BY ThreadsAssumption DEF Released
<1>2. /\ \/ pc' = [pc EXCEPT ![t] = "dispatch"]
         \/ pc' = [pc EXCEPT ![t] = "LoginCheck"]
      /\ \/ packetInfo' = packetInfo
         \/ packetInfo' = [packetInfo EXCEPT ![t] = d]
  BY DEF Released
<1>3. /\ \A u \in RedisThreads : u # t => /\ pc'[u] = pc[u] /\ tempD'[u] = tempD[u]
                                          /\ packetInfo'[u] = packetInfo[u]
      /\ tempD'[t] = NoClient /\ \A w \in Workers : pc'[w] = pc[w]
  BY <1>1, <1>2 DEF IInv, TypeOK
<1>4. Queued(c)' = Queued(c) /\ Pushing(c)' = Pushing(c) /\ Writing(c)' = Writing(c)
  BY <1>1, <1>3 DEF Queued, Pushing, Writing
<1>5. /\ Cardinality(Holding(c)') = Cardinality(Holding(c)) - One(c, d)
      /\ Cardinality(Holding(c)') \in Nat
  <2>1. CASE c = d
    <3>1. t \in Holding(c) /\ Holding(c)' = Holding(c) \ {t}
      BY <1>3, <2>1, ClientsAssumption DEF Holding
    <3>2. Cardinality(Holding(c)') = Cardinality(Holding(c)) - 1
      BY <3>1, Leaves, AllFinite DEF IInv
    <3>3. Cardinality(Holding(c)') \in Nat
      BY <3>1, AllFinite, FS_RemoveElement, FS_CardinalityType DEF IInv
    <3> QED BY <2>1, <3>2, <3>3 DEF One
  <2>2. CASE c # d
    <3>1. Holding(c)' = Holding(c)
      BY <1>3, <2>2, ClientsAssumption DEF Holding
    <3> QED BY <2>2, <3>1, AllFinite DEF One, IInv
  <2> QED BY <2>1, <2>2
<1>6. ASSUME packetInfo'[t] = d, pc'[t] = "dispatch"
      PROVE  Cardinality(Serving(c)') = Cardinality(Serving(c)) + One(c, d)
  <2>1. CASE c = d
    <3>1. t \notin Serving(c) /\ Serving(c)' = Serving(c) \cup {t}
      BY <1>1, <1>3, <1>6, <2>1 DEF Serving
    <3> QED BY <2>1, <3>1, Joins, AllFinite DEF One, IInv
  <2>2. CASE c # d
    <3>1. Serving(c)' = Serving(c)
      BY <1>1, <1>3, <1>6, <2>2 DEF Serving
    <3> QED BY <2>2, <3>1, AllFinite DEF One, IInv
  <2> QED BY <2>1, <2>2
<1>7. One(c, d) \in Nat
  BY DEF One
<1> HIDE DEF d
<1>8. Owed(c)' = Owed(c) - One(c, d) /\ Owed(c)' \in Nat
  BY <1>4, <1>5, <1>7, OwedIs, OwedIsNext, AllFinite DEF IInv
<1>9. packetInfo'[t] = d /\ pc'[t] = "dispatch" => Pending(c)' = Pending(c)
  BY <1>4, <1>5, <1>6, <1>7, OwedIs, OwedIsNext, AllFinite DEF IInv
<1> QED BY <1>8, <1>9 DEF d

LEMMA AnswerCounts ==
  ASSUME IInv, NEW t \in RedisThreads, PushSendMsg(t), NEW c
  PROVE  Owed(c)' = Owed(c) /\ Pending(c)' = Pending(c) - One(c, packetInfo[t])
<1> DEFINE d == packetInfo[t]
<1>1. /\ pc' = [pc EXCEPT ![t] = "idle"] /\ t \notin Workers /\ pc[t] = "PushSendMsg"
      /\ UNCHANGED <<recv, procSktQueue, tempD, packetInfo>>
  BY ThreadsAssumption DEF PushSendMsg, Goto
<1>2. /\ \A u \in RedisThreads : u # t => pc'[u] = pc[u]
      /\ pc'[t] = "idle" /\ \A w \in Workers : pc'[w] = pc[w]
  BY <1>1 DEF IInv, TypeOK
<1>3. /\ Queued(c)' = Queued(c) /\ Pushing(c)' = Pushing(c) /\ Writing(c)' = Writing(c)
      /\ Holding(c)' = Holding(c)
  BY <1>1, <1>2 DEF Queued, Pushing, Writing, Holding
<1>4. Cardinality(Serving(c)') = Cardinality(Serving(c)) - One(c, d)
  <2>1. CASE c = d
    <3>1. t \in Serving(c) /\ Serving(c)' = Serving(c) \ {t}
      BY <1>1, <1>2, <2>1 DEF Serving
    <3> QED BY <2>1, <3>1, Leaves, AllFinite DEF One, IInv
  <2>2. CASE c # d
    <3>1. Serving(c)' = Serving(c)
      BY <1>1, <1>2, <2>2 DEF Serving
    <3> QED BY <2>2, <3>1, AllFinite DEF One, IInv
  <2> QED BY <2>1, <2>2
<1>5. One(c, d) \in Nat
  BY DEF One
<1> HIDE DEF d
<1>6. Owed(c)' = Owed(c) /\ Pending(c)' = Pending(c) - One(c, d)
  BY <1>3, <1>4, <1>5, OwedIs, OwedIsNext, AllFinite DEF IInv
<1> QED BY <1>6 DEF d

\* The steps that read from a ring: what BeginRead finds, and the last byte.
Begins(t) == BeginRead(t) /\ CB!HasData(circularBuffer[tempD[t]], packetSize)
Fails(t) == BeginRead(t) /\ ~CB!HasData(circularBuffer[tempD[t]], packetSize)
Copies(t) == CopyByte(t) /\ copied[t] + 1 # packetSize
Ends(t) == CopyByte(t) /\ copied[t] + 1 = packetSize

LEMMA ReadSteps ==
  ASSUME NEW t
  PROVE  /\ BeginRead(t) => Begins(t) \/ Fails(t)
         /\ CopyByte(t) => Copies(t) \/ Ends(t)
         /\ Fails(t) \/ Ends(t) => Released(t)
         /\ Begins(t) => /\ pc' = [pc EXCEPT ![t] = "copy"]
                         /\ UNCHANGED <<circularBuffer, readData, tempD, packetInfo, terminated>>
         /\ Copies(t) => UNCHANGED <<circularBuffer, packetInfo, tempD, pc, terminated>>
         /\ Ends(t) => /\ EndRead(t) /\ pc' = [pc EXCEPT ![t] = "dispatch"]
                       /\ packetInfo' = [packetInfo EXCEPT ![t] = tempD[t]]
                       /\ terminated' = terminated
         /\ Fails(t) => UNCHANGED <<circularBuffer, readData, packetInfo>>
<1>1. BeginRead(t) => Begins(t) \/ Fails(t)
  BY DEF BeginRead, Begins, Fails, Goto
<1>2. CopyByte(t) => Copies(t) \/ Ends(t)
  BY DEF Copies, Ends
<1>3. Fails(t) => Released(t) /\ UNCHANGED <<circularBuffer, readData, packetInfo>>
  BY DEF Fails, BeginRead, Released, Goto
<1>4. Ends(t) => /\ Released(t) /\ EndRead(t) /\ pc' = [pc EXCEPT ![t] = "dispatch"]
                 /\ packetInfo' = [packetInfo EXCEPT ![t] = tempD[t]]
                 /\ terminated' = terminated
  BY DEF Ends, CopyByte, EndRead, Released, Goto
<1>5. Begins(t) => /\ pc' = [pc EXCEPT ![t] = "copy"]
                   /\ UNCHANGED <<circularBuffer, readData, tempD, packetInfo, terminated>>
  BY DEF Begins, BeginRead, Goto
<1>6. Copies(t) => UNCHANGED <<circularBuffer, packetInfo, tempD, pc, terminated>>
  BY DEF Copies, CopyByte
<1> QED BY <1>1, <1>2, <1>3, <1>4, <1>5, <1>6

\* The steps that move no request.
LEMMA OtherCounts ==
  ASSUME IInv, NEW t \in RedisThreads, NEW c,
         \/ ZeroReadData(t) \/ Begins(t) \/ Copies(t) \/ Dispatch(t) \/ LoginCheck(t)
         \/ SetUserToken(t)
  PROVE  Owed(c)' = Owed(c) /\ Pending(c)' = Pending(c)
<1> DEFINE serving == {"dispatch", "LoginCheck", "SetUserToken", "PushSendMsg"}
<1>1. t \notin Workers /\ UNCHANGED <<recv, procSktQueue, tempD, packetInfo>>
  BY ThreadsAssumption, ReadSteps
     DEF ZeroReadData, Begins, BeginRead, Copies, CopyByte, Dispatch, LoginCheck, SetUserToken
<1>2. \/ pc' = pc
      \/ pc[t] = "zero" /\ pc' = [pc EXCEPT ![t] = "Read"]
      \/ pc[t] = "Read" /\ pc' = [pc EXCEPT ![t] = "copy"]
      \/ pc[t] \in serving /\ pc' = [pc EXCEPT ![t] = "LoginCheck"]
      \/ pc[t] \in serving /\ pc' = [pc EXCEPT ![t] = "SetUserToken"]
      \/ pc[t] \in serving /\ pc' = [pc EXCEPT ![t] = "PushSendMsg"]
  BY ReadSteps
     DEF ZeroReadData, Begins, BeginRead, Dispatch, LoginCheck, SetUserToken, Goto
<1>3. /\ \A w \in Workers : pc'[w] = pc[w]
      /\ \A u \in RedisThreads : pc'[u] \in serving <=> pc[u] \in serving
  BY <1>1, <1>2 DEF IInv, TypeOK
<1>4. /\ Queued(c)' = Queued(c) /\ Pushing(c)' = Pushing(c) /\ Writing(c)' = Writing(c)
      /\ Holding(c)' = Holding(c) /\ Serving(c)' = Serving(c)
  BY <1>1, <1>3 DEF Queued, Pushing, Writing, Holding, Serving
<1> QED BY <1>4, OwedIs, OwedIsNext, AllFinite DEF IInv

-----------------------------------------------------------------------------
(* What a ring holds: whole packets, one after the other.                   *)

Whole(s, ks) ==
  /\ Len(s) = packetSize * Len(ks)
  /\ \A i \in 1..Len(ks), b \in 1..packetSize : s[packetSize * (i - 1) + b] = <<ks[i], b>>

LEMMA Times ==
  ASSUME NEW p \in Nat
  PROVE  /\ \A n \in Nat : p * n \in Nat /\ p * (n + 1) = p * n + p
         /\ \A m, n \in Nat : m <= n => p * m <= p * n
<1>1. \A n \in Nat : p * n \in Nat /\ p * (n + 1) = p * n + p
  OBVIOUS
<1>2. ASSUME NEW m \in Nat, NEW n \in Nat, m <= n
      PROVE  p * m <= p * n
  <2>1. PICK d \in Nat : n = m + d
    <3>1. n - m \in Nat /\ n = m + (n - m)
      BY <1>2
    <3> QED BY <3>1
  <2>2. p * n = p * m + p * d /\ p * d \in Nat /\ p * m \in Nat
    BY <2>1
  <2> QED BY <2>2
<1> QED BY <1>1, <1>2

LEMMA WholeAppend ==
  ASSUME NEW S \in SUBSET Req, NEW s \in Seq(Byte), NEW ks \in Seq(S), Whole(s, ks),
         NEW k \in S
  PROVE  Whole(s \o Packet(k), Append(ks, k))
<1> DEFINE n == Len(ks)
           p == packetSize
           u == s \o Packet(k)
           js == Append(ks, k)
<1>1. n \in Nat /\ p \in Nat /\ p > 0
  BY SizesAssumption
<1>2. /\ js \in Seq(S) /\ Len(js) = n + 1 /\ js[n + 1] = k
      /\ \A i \in 1..n : js[i] = ks[i]
  OBVIOUS
<1>3. Packet(k) \in Seq(Byte) /\ Len(Packet(k)) = p
  BY Packets
<1>4. Len(s) = p * n
  BY DEF Whole
<1>5. p * n \in Nat /\ p * (n + 1) = p * n + p
  BY <1>1, Times
<1>6. /\ Len(u) = p * (n + 1)
      /\ \A j \in 1..(p * n) : u[j] = s[j]
      /\ \A b \in 1..p : u[p * n + b] = Packet(k)[b]
  <2>1. PICK pk \in Seq(Byte) : pk = Packet(k)
    BY <1>3
  <2>2. Len(s \o pk) = Len(s) + Len(pk)
    OBVIOUS
  <2>3. \A j \in 1..Len(s) : (s \o pk)[j] = s[j]
    OBVIOUS
  <2>4. \A b \in 1..Len(pk) : (s \o pk)[Len(s) + b] = pk[b]
    OBVIOUS
  <2> QED BY <1>3, <1>4, <1>5, <2>1, <2>2, <2>3, <2>4
<1>7. ASSUME NEW i \in 1..(n + 1), NEW b \in 1..p
      PROVE  u[p * (i - 1) + b] = <<js[i], b>>
  <2>1. CASE i = n + 1
    <3>1. p * (i - 1) = p * n
      BY <1>1, <2>1
    <3>2. Packet(k)[b] = <<k, b>>
      BY DEF Packet
    <3> HIDE DEF u, js, p, n
    <3> QED BY <1>2, <1>6, <2>1, <3>1, <3>2
  <2>2. CASE i \in 1..n
    <3>1. s[p * (i - 1) + b] = <<ks[i], b>>
      BY <2>2 DEF Whole
    <3>2. i - 1 \in Nat /\ p * ((i - 1) + 1) = p * (i - 1) + p /\ p * (i - 1) \in Nat
      BY <1>1, <2>2, Times
    <3>3. (i - 1) + 1 = i /\ p * i <= p * n
      BY <1>1, <2>2, Times
    <3> HIDE DEF u, js, n
    <3>4. p * (i - 1) + b \in 1..(p * n)
      <4>1. PICK x \in Nat : x = p * (i - 1)
        BY <3>2
      <4>2. PICK y \in Nat : y = p * n
        BY <1>5
      <4> HIDE DEF p
      <4>3. x + p <= y
        BY <3>2, <3>3, <4>1, <4>2
      <4>4. b \in Nat /\ 1 <= b /\ b <= p
        BY <1>1
      <4>5. x + b \in 1..y
        BY <1>1, <4>1, <4>2, <4>3, <4>4
      <4> QED BY <4>1, <4>2, <4>5
    <3> HIDE DEF p
    <3> QED BY <1>2, <1>6, <2>2, <3>1, <3>4
  <2>3. i = n + 1 \/ i \in 1..n
    BY <1>1
  <2> QED BY <2>1, <2>2, <2>3
<1> HIDE DEF u, js
<1>8. Whole(u, js)
  BY <1>2, <1>6, <1>7 DEF Whole
<1> QED BY <1>8 DEF u, js

LEMMA WholeTail ==
  ASSUME NEW S, NEW s \in Seq(Byte), NEW ks \in Seq(S), Whole(s, ks), Len(ks) >= 1
  PROVE  /\ Whole(SubSeq(s, packetSize + 1, Len(s)), Tail(ks))
         /\ [j \in 1..packetSize |-> s[j]] = Packet(ks[1])
<1> DEFINE p == packetSize
           n == Len(ks) - 1
           u == SubSeq(s, p + 1, Len(s))
           js == Tail(ks)
<1>1. n \in Nat /\ p \in Nat /\ p > 0 /\ Len(ks) = n + 1
  BY SizesAssumption
<1>2. Len(js) = n /\ \A i \in 1..n : js[i] = ks[i + 1]
  OBVIOUS
<1>3. Len(s) = p * n + p /\ p * n \in Nat
  <2>1. Len(s) = p * (n + 1)
    BY <1>1 DEF Whole
  <2> QED BY <1>1, <2>1, Times
<1>4. Len(u) = p * n /\ \A j \in 1..(p * n) : u[j] = s[p + j]
  <2>1. PICK y \in Nat : y = p * n
    BY <1>3
  <2>2. Len(u) = y /\ \A j \in 1..y : u[j] = s[p + j]
    BY <1>1, <1>3, <2>1
  <2> QED BY <2>1, <2>2
<1>5. ASSUME NEW i \in 1..n, NEW b \in 1..p
      PROVE  u[p * (i - 1) + b] = <<js[i], b>>
  <2>1. i + 1 \in 1..Len(ks)
    BY <1>1
  <2>2. s[p * ((i + 1) - 1) + b] = <<ks[i + 1], b>>
    BY <2>1 DEF Whole
  <2>3. /\ i - 1 \in Nat /\ p * ((i - 1) + 1) = p * (i - 1) + p /\ p * (i - 1) \in Nat
        /\ (i - 1) + 1 = i /\ (i + 1) - 1 = i /\ p * i <= p * n
    BY <1>1, Times
  <2>4. PICK x \in Nat : x = p * (i - 1)
    BY <2>3
  <2>5. PICK y \in Nat : y = p * n
    BY <1>3
  <2>6. p * i = x + p /\ x + p <= y /\ x + b \in 1..y /\ p + (x + b) = (x + p) + b
    <3>1. p * i = x + p
      BY <2>3, <2>4
    <3>2. x + p <= y
      BY <2>3, <2>5, <3>1
    <3> HIDE DEF p
    <3> QED BY <1>1, <3>1, <3>2
  <2>7. u[x + b] = s[p + (x + b)]
    BY <1>4, <2>5, <2>6
  <2>8. s[(x + p) + b] = <<ks[i + 1], b>>
    BY <2>2, <2>3, <2>6
  <2> HIDE DEF u, js, p, n
  <2> QED BY <1>2, <2>4, <2>6, <2>7, <2>8
<1>6. [j \in 1..p |-> s[j]] = Packet(ks[1])
  <2>1. \A b \in 1..p : s[p * (1 - 1) + b] = <<ks[1], b>>
    BY <1>1 DEF Whole
  <2>2. \A b \in 1..p : p * (1 - 1) + b = b
    BY <1>1
  <2> QED BY <2>1, <2>2 DEF Packet
<1> HIDE DEF u, js
<1>7. Whole(u, js)
  BY <1>2, <1>4, <1>5 DEF Whole
<1> QED BY <1>6, <1>7 DEF u, js

-----------------------------------------------------------------------------
(* The invariants of the requests.  They are proved together: what a thread *)
(* reads is a packet because each ring holds the packets that are owed; it   *)
(* stays a packet in readData until the thread is done with it because a    *)
(* client with one request pending has no other thread that could write     *)
(* there, and that is a matter of counting requests and answers.            *)

\* What a worker writes is one packet.
WritesPackets ==
  \A w \in Workers : pc[w] = "WriteRecvData" =>
    \E p \in Requests(recv[w].client) : recv[w].data = Packet(p)

\* Each ring holds whole packets, no more than are owed, and all of them unless
\* a packet was refused.
RingWhole(c) ==
  \E ks \in Seq(Requests(c)) :
    /\ Whole(CB!Content(circularBuffer[c]), ks) /\ Len(ks) <= Owed(c)
    /\ ~refused => Len(ks) = Owed(c)

RingsWhole == \A c \in Clients : RingWhole(c)

Awaits == \A c \in Patient : sent[c] <= answered[c] + 1

\* A client who cannot have two requests pending.
Single(c) == c \in Clients /\ (c \in Patient \/ sent[c] <= 1)

\* The packet of such a client stays as it was read ...
Sound(t) ==
  /\ pc[t] = "dispatch" =>
       \E p \in Requests(packetInfo[t]) : readData[packetInfo[t]] = Packet(p)
  /\ pc[t] = "SetUserToken" => user[t] = readData[packetInfo[t]][packetSize]

\* ... and the bytes a thread has copied so far stay.
SoFar(t) ==
  \A b \in 1..copied[t] :
    readData[tempD[t]][b] = CB!ReadBytes(circularBuffer[tempD[t]], packetSize)[b]

Intact ==
  ~refused => \A t \in RedisThreads : /\ Single(packetInfo[t]) => Sound(t)
                                      /\ pc[t] = "copy" /\ Single(tempD[t]) => SoFar(t)

QInv == /\ IInv /\ HoldsToRead /\ WritesPackets /\ RingsWhole /\ AnsweredOnce /\ Awaits
        /\ Intact /\ TokenOfPatient /\ KnownHandler

LEMMA InitQInv == Init => QInv
<1> SUFFICES ASSUME Init PROVE QInv
  OBVIOUS
<1>1. IInv
  BY InitIInv
<1>2. ASSUME NEW c \in Clients PROVE Owed(c) = 0 /\ Pending(c) = 0
  <2>1. /\ Queued(c) = {} /\ Pushing(c) = {} /\ Holding(c) = {} /\ Writing(c) = {}
        /\ Serving(c) = {}
    BY ClientsAssumption DEF Init, Queued, Pushing, Holding, Writing, Serving
  <2>2. Cardinality({}) = 0
    BY FS_EmptySet
  <2> QED BY <2>1, <2>2, OwedIs
<1>3. RingsWhole
  <2> SUFFICES ASSUME NEW c \in Clients PROVE RingWhole(c)
    BY DEF RingsWhole
  <2>1. WellFormed(circularBuffer[c]) /\ circularBuffer[c].currentSize = 0
    BY <1>1 DEF IInv, RingsWellFormed, Init
  <2>2. Len(CB!Content(circularBuffer[c])) = 0
    BY <2>1, RingContent
  <2>3. PICK ks \in Seq(Requests(c)) : Len(ks) = 0
    <3>1. <<>> \in Seq(Requests(c)) /\ Len(<<>>) = 0
      OBVIOUS
    <3> QED BY <3>1
  <2>4. packetSize * 0 = 0
    BY SizesAssumption
  <2>5. Whole(CB!Content(circularBuffer[c]), ks)
    BY <2>2, <2>3, <2>4 DEF Whole
  <2>6. Len(ks) <= Owed(c) /\ Len(ks) = Owed(c)
    BY <1>2, <2>3
  <2> QED BY <2>5, <2>6 DEF RingWhole
<1>4. HoldsToRead /\ WritesPackets /\ TokenOfPatient /\ KnownHandler
  BY DEF Init, HoldsToRead, WritesPackets, TokenOfPatient, KnownHandler
<1>5. AnsweredOnce /\ Awaits
  BY <1>2, ClientsAssumption DEF Init, AnsweredOnce, Awaits
<1>6. Intact
  BY DEF Init, Intact, Sound
<1> QED BY <1>1, <1>3, <1>4, <1>5, <1>6 DEF QInv

\* The steps, each with the condition that the process still runs.
LEMMA Steps ==
  ASSUME Next
  PROVE  /\ ~terminated
         /\ \/ \E w \in Workers : \/ WriteRecvData(w) \/ PushDataPacket(w)
                                  \/ \E c \in Clients : Receive(w, c)
            \/ \E t \in RedisThreads :
                 \/ PopDataPacket(t) \/ Begins(t) \/ Fails(t) \/ Copies(t) \/ Ends(t)
                 \/ PushSendMsg(t) \/ ZeroReadData(t) \/ Dispatch(t) \/ LoginCheck(t)
                 \/ SetUserToken(t)
  BY ReadSteps DEF Next, WorkerStep, RedisStep

\* What a Redis thread's step may change.
RedisMoves(t) ==
  \/ PopDataPacket(t) \/ Begins(t) \/ Fails(t) \/ Copies(t) \/ Ends(t) \/ PushSendMsg(t)
  \/ ZeroReadData(t) \/ Dispatch(t) \/ LoginCheck(t) \/ SetUserToken(t)

LEMMA OnlyOwn ==
  ASSUME NEW t, RedisMoves(t)
  PROVE  /\ recv' = recv /\ sent' = sent /\ refused' = refused
         /\ \/ pc' = pc \/ \E l \in Place \ {"WriteRecvData"} : pc' = [pc EXCEPT ![t] = l]
         /\ tempD' = tempD \/ \E x : tempD' = [tempD EXCEPT ![t] = x]
         /\ packetInfo' = packetInfo \/ \E x : packetInfo' = [packetInfo EXCEPT ![t] = x]
         /\ user' = user \/ \E x : user' = [user EXCEPT ![t] = x]
         /\ readData' = readData \/ \E b, x : readData' = [readData EXCEPT ![tempD[t]][b] = x]
<1>1. CASE \/ PopDataPacket(t) \/ PushSendMsg(t) \/ ZeroReadData(t) \/ Dispatch(t)
           \/ LoginCheck(t) \/ SetUserToken(t)
  BY <1>1 DEF PopDataPacket, PushSendMsg, ZeroReadData, Dispatch, LoginCheck, SetUserToken, Goto,
              Place
<1>2. CASE Begins(t) \/ Fails(t)
  BY <1>2 DEF Begins, Fails, BeginRead, Goto, Place
<1>3. CASE Copies(t) \/ Ends(t)
  BY <1>3 DEF Copies, Ends, CopyByte, EndRead, Goto, Place
<1> QED BY <1>1, <1>2, <1>3 DEF RedisMoves

LEMMA OnlyForward ==
  ASSUME Next
  PROVE  /\ refused => refused'
         /\ sent' = sent \/ \E d \in Clients : sent' = [sent EXCEPT ![d] = @ + 1]
<1>1. ASSUME NEW w \in Workers, \/ WriteRecvData(w) \/ PushDataPacket(w)
                                \/ \E c \in Clients : Receive(w, c)
      PROVE  /\ refused => refused'
             /\ sent' = sent \/ \E d \in Clients : sent' = [sent EXCEPT ![d] = @ + 1]
  BY <1>1 DEF WriteRecvData, PushDataPacket, Receive
<1>2. ASSUME NEW t \in RedisThreads, RedisMoves(t)
      PROVE  sent' = sent /\ refused' = refused
  BY <1>2, OnlyOwn
<1> QED BY <1>1, <1>2, Steps DEF RedisMoves

LEMMA StepHolds == QInv /\ Next => HoldsToRead' /\ WritesPackets'
<1> SUFFICES ASSUME QInv, Next PROVE HoldsToRead' /\ WritesPackets'
  OBVIOUS
<1> USE ThreadsAssumption DEF QInv, IInv
<1>1. ASSUME NEW w \in Workers, NEW c \in Clients, Receive(w, c)
      PROVE  HoldsToRead' /\ WritesPackets'
  <2>1. HoldsToRead'
    BY <1>1 DEF Receive, Goto, TypeOK, HoldsToRead
  <2>2. /\ \E p \in Requests(c) : recv'[w] = [client |-> c, data |-> Packet(p)]
        /\ \A v \in Workers : v # w => pc'[v] = pc[v] /\ recv'[v] = recv[v]
    BY <1>1 DEF Receive, Goto, TypeOK
  <2>3. WritesPackets'
    BY <2>2 DEF WritesPackets
  <2> QED BY <2>1, <2>3
<1>2. ASSUME NEW w \in Workers, WriteRecvData(w) \/ PushDataPacket(w)
      PROVE  HoldsToRead' /\ WritesPackets'
  <2>1. /\ tempD' = tempD /\ recv' \in {recv, [recv EXCEPT ![w] = NoRecv]}
        /\ pc' \in {[pc EXCEPT ![w] = "push"], [pc EXCEPT ![w] = "idle"]}
    BY <1>2 DEF WriteRecvData, PushDataPacket, Goto
  <2>2. /\ \A v \in Workers : v # w => pc'[v] = pc[v] /\ recv'[v] = recv[v]
        /\ pc'[w] # "WriteRecvData" /\ \A t \in RedisThreads : pc'[t] = pc[t]
    BY <2>1 DEF TypeOK
  <2>3. HoldsToRead'
    BY <2>1, <2>2 DEF HoldsToRead
  <2>4. WritesPackets'
    BY <2>2 DEF WritesPackets
  <2> QED BY <2>3, <2>4
<1>3. ASSUME NEW t \in RedisThreads, RedisMoves(t)
      PROVE  HoldsToRead' /\ WritesPackets'
  <2>1. /\ recv' = recv
        /\ \/ pc' = pc \/ \E l \in Place \ {"WriteRecvData"} : pc' = [pc EXCEPT ![t] = l]
        /\ tempD' = tempD \/ \E x : tempD' = [tempD EXCEPT ![t] = x]
    BY <1>3, OnlyOwn
  <2>2. \A w \in Workers : pc'[w] = pc[w]
    BY <2>1 DEF TypeOK
  <2>3. WritesPackets'
    BY <2>1, <2>2 DEF WritesPackets
  <2>4. \A u \in RedisThreads : u # t => pc'[u] = pc[u] /\ tempD'[u] = tempD[u]
    BY <2>1 DEF TypeOK
  <2>5. tempD'[t] # NoClient => pc'[t] \in {"zero", "Read", "copy"}
    <3>1. CASE PopDataPacket(t)
      BY <3>1 DEF PopDataPacket, Goto, TypeOK
    <3>2. CASE Fails(t) \/ Ends(t)
      BY <3>2, ReadSteps DEF Released, TypeOK
    <3>3. CASE ZeroReadData(t)
      BY <3>3 DEF ZeroReadData, Goto, TypeOK, HoldsToRead
    <3>4. CASE Begins(t) \/ Copies(t)
      BY <3>4, ReadSteps DEF TypeOK, HoldsToRead
    <3>5. CASE PushSendMsg(t) \/ Dispatch(t) \/ LoginCheck(t) \/ SetUserToken(t)
      BY <3>5 DEF PushSendMsg, Dispatch, LoginCheck, SetUserToken, HoldsToRead
    <3> QED BY <1>3, <3>1, <3>2, <3>3, <3>4, <3>5 DEF RedisMoves
  <2>6. HoldsToRead'
    BY <2>4, <2>5 DEF HoldsToRead
  <2> QED BY <2>3, <2>6
<1> QED BY <1>1, <1>2, <1>3, Steps DEF RedisMoves

LEMMA AppendOf ==
  ASSUME NEW S, NEW q \in Seq(S), NEW x \in S
  PROVE  Append(q, x) \in Seq(S) /\ Len(Append(q, x)) = Len(q) + 1
  OBVIOUS

LEMMA TailOf ==
  ASSUME NEW S, NEW q \in Seq(S), Len(q) >= 1
  PROVE  q[1] \in S /\ Tail(q) \in Seq(S) /\ Len(Tail(q)) = Len(q) - 1
  OBVIOUS

LEMMA OwedNat ==
  ASSUME TypeOK, NEW c
  PROVE  Owed(c) \in Nat /\ Pending(c) \in Nat
  BY OwedIs, AllFinite

\* Without its bytes in the ring a request was refused.
LEMMA ReadPacket ==
  ASSUME QInv, NEW t \in RedisThreads, NEW c \in Clients, tempD[t] = c
  PROVE  LET r == circularBuffer[c] IN
         /\ ~CB!HasData(r, packetSize) => refused
         /\ CB!HasData(r, packetSize) =>
              /\ \E p \in Requests(c) : CB!ReadBytes(r, packetSize) = Packet(p)
              /\ \E ks \in Seq(Requests(c)) :
                   /\ Whole(CB!Content(CB!Taken(r, packetSize)), ks)
                   /\ Len(ks) <= Owed(c) - 1
                   /\ ~refused => Len(ks) = Owed(c) - 1
<1> DEFINE r == circularBuffer[c]
           s == CB!Content(r)
<1>1. WellFormed(r)
  BY DEF QInv, IInv, RingsWellFormed
<1>2. PICK ks \in Seq(Requests(c)) : /\ Whole(s, ks) /\ Len(ks) <= Owed(c)
                                     /\ ~refused => Len(ks) = Owed(c)
  BY DEF QInv, RingsWhole, RingWhole
<1>3. s \in Seq(Byte) /\ Len(s) = r.currentSize /\ Len(s) = packetSize * Len(ks)
  BY <1>1, <1>2, RingContent DEF Whole
<1>4. Owed(c) \in Nat /\ Owed(c) >= 1
  <2>1. t \in Holding(c) /\ IsFiniteSet(Holding(c))
    BY AllFinite DEF Holding, QInv, IInv
  <2>2. Cardinality(Holding(c)) # 0
    BY <2>1, FS_EmptySet
  <2> QED BY <2>2, OwedIs, AllFinite DEF QInv, IInv
<1>5. packetSize \in Nat /\ packetSize > 0 /\ Len(ks) \in Nat
  BY SizesAssumption
<1>6. Len(ks) >= 1 <=> CB!HasData(r, packetSize)
  <2>1. CASE Len(ks) >= 1
    <3>1. packetSize * 1 <= packetSize * Len(ks) /\ packetSize * 1 = packetSize
      BY <1>5, <2>1, Times
    <3> HIDE DEF r, s
    <3> QED BY <1>3, <2>1, <3>1 DEF CB!HasData
  <2>2. CASE Len(ks) = 0
    <3>1. packetSize * Len(ks) = 0
      BY <1>5, <2>2
    <3> HIDE DEF r, s
    <3> QED BY <1>3, <1>5, <2>2, <3>1 DEF CB!HasData
  <2> QED BY <1>5, <2>1, <2>2
<1>7. ~CB!HasData(r, packetSize) => refused
  BY <1>2, <1>4, <1>6
<1>8. ASSUME CB!HasData(r, packetSize)
      PROVE  /\ \E p \in Requests(c) : CB!ReadBytes(r, packetSize) = Packet(p)
             /\ \E js \in Seq(Requests(c)) :
                  /\ Whole(CB!Content(CB!Taken(r, packetSize)), js)
                  /\ Len(js) <= Owed(c) - 1
                  /\ ~refused => Len(js) = Owed(c) - 1
  <2>1. /\ Whole(SubSeq(s, packetSize + 1, Len(s)), Tail(ks))
        /\ [j \in 1..packetSize |-> s[j]] = Packet(ks[1])
    BY <1>2, <1>3, <1>6, <1>8, WholeTail
  <2>2. /\ CB!Content(CB!Taken(r, packetSize)) = SubSeq(s, packetSize + 1, Len(s))
        /\ CB!ReadBytes(r, packetSize) = [j \in 1..packetSize |-> s[j]]
    BY <1>1, <1>5, <1>8, RingTaken
  <2>3. /\ ks[1] \in Requests(c) /\ Tail(ks) \in Seq(Requests(c))
        /\ Len(Tail(ks)) = Len(ks) - 1
    <3>1. Len(ks) >= 1
      BY <1>6, <1>8
    <3> QED BY <3>1, TailOf
  <2> HIDE DEF r, s
  <2>4. \E p \in Requests(c) : CB!ReadBytes(r, packetSize) = Packet(p)
    BY <2>1, <2>2, <2>3
  <2>5. Len(Tail(ks)) <= Owed(c) - 1 /\ (~refused => Len(Tail(ks)) = Owed(c) - 1)
    BY <1>2, <1>4, <1>5, <2>3
  <2>6. Whole(CB!Content(CB!Taken(r, packetSize)), Tail(ks))
    BY <2>1, <2>2
  <2> QED BY <2>3, <2>4, <2>5, <2>6
<1> QED BY <1>7, <1>8

\* The steps that leave a ring, and what is owed to it, alone.
LEMMA SameRing ==
  ASSUME NEW c, RingWhole(c), circularBuffer'[c] = circularBuffer[c], refused' = refused,
         Owed(c)' = Owed(c)
  PROVE  RingWhole(c)'
  BY DEF RingWhole

LEMMA SameRings ==
  ASSUME RingsWhole, circularBuffer' = circularBuffer, refused' = refused,
         \A c \in Clients : Owed(c)' = Owed(c)
  PROVE  RingsWhole'
  BY SameRing DEF RingsWhole

LEMMA WriteWhole ==
  ASSUME QInv, NEW w \in Workers, WriteRecvData(w)
  PROVE  RingsWhole'
<1>1. PICK d \in Clients : d = recv[w].client
  BY DEF QInv, IInv, WriteRecvData, WorkerHolds, Received
<1>2. PICK r : r = circularBuffer[d] /\ WellFormed(r)
  BY DEF QInv, IInv, RingsWellFormed
<1>3. PICK k \in Requests(d) : recv[w].data = Packet(k)
  BY <1>1 DEF QInv, WritesPackets, WriteRecvData
<1>4. Packet(k) \in Seq(Byte) /\ Len(Packet(k)) = packetSize /\ Requests(d) \in SUBSET Req
  BY RequestsAre, Packets
<1>5. ASSUME NEW c \in Clients
      PROVE  Owed(c)' = Owed(c) + One(c, d) /\ Owed(c) \in Nat
  BY <1>1, WriteCounts, OwedNat DEF QInv, IInv
<1>6. PICK ks \in Seq(Requests(d)) : /\ Whole(CB!Content(r), ks) /\ Len(ks) <= Owed(d)
                                     /\ ~refused => Len(ks) = Owed(d)
  BY <1>2 DEF QInv, RingsWhole, RingWhole
<1>7. Len(ks) \in Nat
  OBVIOUS
<1>8. CASE CB!HasRoom(r, packetSize)
  <2>1. circularBuffer' = [circularBuffer EXCEPT ![d] = CB!Written(r, Packet(k))]
        /\ refused' = refused
    BY <1>1, <1>2, <1>3, <1>8 DEF WriteRecvData
  <2>2. CB!Content(CB!Written(r, Packet(k))) = CB!Content(r) \o Packet(k)
    BY <1>2, <1>4, <1>8, RingWritten
  <2>3. CB!Content(r) \in Seq(Byte)
    BY <1>2, RingContent
  <2>4. Whole(CB!Content(r) \o Packet(k), Append(ks, k))
    BY <1>4, <1>6, <2>3, WholeAppend
  <2>5. PICK js \in Seq(Requests(d)) : js = Append(ks, k) /\ Len(js) = Len(ks) + 1
    <3>1. Append(ks, k) \in Seq(Requests(d)) /\ Len(Append(ks, k)) = Len(ks) + 1
      BY AppendOf
    <3> QED BY <3>1
  <2>6. /\ circularBuffer'[d] = CB!Written(r, Packet(k))
        /\ \A c \in Clients : c # d => circularBuffer'[c] = circularBuffer[c]
    BY <2>1 DEF QInv, IInv, TypeOK
  <2>7. Whole(CB!Content(circularBuffer'[d]), js)
    BY <2>2, <2>4, <2>5, <2>6
  <2>8. Owed(d)' = Owed(d) + 1 /\ Owed(d) \in Nat
    BY <1>5 DEF One
  <2>9. RingWhole(d)'
    <3>1. Len(js) <= Owed(d)' /\ (~refused => Len(js) = Owed(d)')
      BY <1>6, <1>7, <2>5, <2>8
    <3> QED BY <2>1, <2>7, <3>1 DEF RingWhole
  <2>10. ASSUME NEW c \in Clients, c # d PROVE RingWhole(c)'
    <3>1. Owed(c)' = Owed(c)
      BY <1>5, <2>10 DEF One
    <3> QED BY <2>1, <2>6, <2>10, <3>1, SameRing DEF QInv, RingsWhole
  <2> QED BY <2>9, <2>10 DEF RingsWhole
<1>9. CASE ~CB!HasRoom(r, packetSize)
  <2>1. circularBuffer' = circularBuffer /\ refused'
    BY <1>1, <1>2, <1>9 DEF WriteRecvData
  <2>2. ASSUME NEW c \in Clients PROVE RingWhole(c)'
    <3>1. PICK js \in Seq(Requests(c)) : /\ Whole(CB!Content(circularBuffer[c]), js)
                                         /\ Len(js) <= Owed(c)
      BY DEF QInv, RingsWhole, RingWhole
    <3>2. Len(js) <= Owed(c)'
      <4>1. Len(js) \in Nat
        OBVIOUS
      <4> QED BY <1>5, <3>1, <4>1 DEF One
    <3> QED BY <2>1, <3>1, <3>2 DEF RingWhole
  <2> QED BY <2>2 DEF RingsWhole
<1> QED BY <1>8, <1>9

LEMMA ReadWhole ==
  ASSUME QInv, NEW t \in RedisThreads, Fails(t) \/ Ends(t)
  PROVE  RingsWhole'
<1>1. PICK d \in Clients : d = tempD[t]
  BY DEF QInv, IInv, Fails, BeginRead, Ends, CopyByte, RedisHolds
<1>2. PICK r : r = circularBuffer[d] /\ WellFormed(r)
  BY DEF QInv, IInv, RingsWellFormed
<1>3. ASSUME NEW c \in Clients
      PROVE  Owed(c)' = Owed(c) - One(c, d) /\ Owed(c)' \in Nat /\ Owed(c) \in Nat
  BY <1>1, ReadSteps, ReadCounts, OwedNat DEF QInv, IInv
<1>4. Owed(d)' = Owed(d) - 1
  BY <1>3 DEF One
<1>5. ASSUME NEW c \in Clients, c # d PROVE Owed(c)' = Owed(c)
  BY <1>3, <1>5 DEF One
<1>6. refused' = refused
  BY DEF Fails, BeginRead, Ends, CopyByte
<1>7. CASE Ends(t)
  <2>1. /\ circularBuffer' = [circularBuffer EXCEPT ![d] = CB!Taken(r, packetSize)]
        /\ CB!HasData(r, packetSize)
    BY <1>1, <1>2, <1>7, ReadSteps DEF EndRead, Ends, CopyByte, QInv, IInv, Copying
  <2>2. PICK ks \in Seq(Requests(d)) : /\ Whole(CB!Content(CB!Taken(r, packetSize)), ks)
                                       /\ Len(ks) <= Owed(d) - 1
                                       /\ ~refused => Len(ks) = Owed(d) - 1
    BY <1>1, <1>2, <2>1, ReadPacket
  <2>3. /\ circularBuffer'[d] = CB!Taken(r, packetSize)
        /\ \A c \in Clients : c # d => circularBuffer'[c] = circularBuffer[c]
    BY <2>1 DEF QInv, IInv, TypeOK
  <2>4. RingWhole(d)'
    BY <1>4, <1>6, <2>2, <2>3 DEF RingWhole
  <2>5. ASSUME NEW c \in Clients, c # d PROVE RingWhole(c)'
    BY <1>5, <1>6, <2>3, <2>5, SameRing DEF QInv, RingsWhole
  <2> QED BY <2>4, <2>5 DEF RingsWhole
<1>8. CASE Fails(t)
  <2>1. refused /\ circularBuffer' = circularBuffer /\ ~CB!HasData(r, packetSize)
    BY <1>1, <1>2, <1>8, ReadSteps, ReadPacket DEF Fails
  <2>2. PICK ks \in Seq(Requests(d)) : Whole(CB!Content(r), ks) /\ Len(ks) <= Owed(d)
    BY <1>2 DEF QInv, RingsWhole, RingWhole
  <2>3. Len(ks) = 0
    <3>1. /\ Len(CB!Content(r)) = r.currentSize /\ r.currentSize \in Nat
      BY <1>2, RingContent
    <3>2. packetSize * Len(ks) < packetSize /\ packetSize \in Nat /\ Len(ks) \in Nat
      BY <2>1, <2>2, <3>1, SizesAssumption DEF Whole, CB!HasData
    <3>3. Len(ks) >= 1 => packetSize * 1 <= packetSize * Len(ks) /\ packetSize * 1 = packetSize
      BY <3>2, Times
    <3> QED BY <3>2, <3>3
  <2>4. Len(ks) <= Owed(d)' /\ refused' /\ circularBuffer'[d] = r
    BY <1>2, <1>3, <1>6, <2>1, <2>3
  <2>5. RingWhole(d)'
    BY <2>2, <2>4 DEF RingWhole
  <2>6. ASSUME NEW c \in Clients, c # d PROVE RingWhole(c)'
    BY <1>5, <1>6, <2>1, <2>6, SameRing DEF QInv, RingsWhole
  <2> QED BY <2>5, <2>6 DEF RingsWhole
<1> QED BY <1>7, <1>8

LEMMA StepWhole == QInv /\ Next => RingsWhole'
<1> SUFFICES ASSUME QInv, Next PROVE RingsWhole'
  OBVIOUS
<1> USE DEF QInv
<1>1. ASSUME NEW w \in Workers, \/ PushDataPacket(w)
                                \/ \E c \in Clients : Receive(w, c)
      PROVE  RingsWhole'
  <2>1. circularBuffer' = circularBuffer /\ refused' = refused
    BY <1>1 DEF PushDataPacket, Receive
  <2>2. \A c \in Clients : Owed(c)' = Owed(c)
    BY <1>1, PushCounts, ReceiveCounts
  <2> QED BY <2>1, <2>2, SameRings
<1>2. ASSUME NEW t \in RedisThreads,
             \/ PopDataPacket(t) \/ PushSendMsg(t) \/ ZeroReadData(t) \/ Begins(t) \/ Copies(t)
             \/ Dispatch(t) \/ LoginCheck(t) \/ SetUserToken(t)
      PROVE  RingsWhole'
  <2>1. circularBuffer' = circularBuffer
    BY <1>2, ReadSteps DEF PopDataPacket, PushSendMsg, ZeroReadData, Dispatch, LoginCheck,
                           SetUserToken
  <2>2. refused' = refused
    BY <1>2, OnlyOwn DEF RedisMoves
  <2>3. \A c \in Clients : Owed(c)' = Owed(c)
    BY <1>2, PopCounts, AnswerCounts, OtherCounts
  <2> QED BY <2>1, <2>2, <2>3, SameRings
<1> QED BY <1>1, <1>2, WriteWhole, ReadWhole, Steps

\* Each step moves a request on, and answers it at the end.
LEMMA StepAnswers == QInv /\ Next => AnsweredOnce' /\ Awaits'
<1> SUFFICES ASSUME QInv, Next PROVE AnsweredOnce' /\ Awaits'
  OBVIOUS
<1>1. \A c \in Clients : /\ sent[c] \in Nat /\ answered[c] \in Nat /\ Pending(c) \in Nat
                         /\ ~refused => sent[c] = answered[c] + Pending(c)
                         /\ c \in Patient => sent[c] <= answered[c] + 1
  BY OwedNat DEF QInv, IInv, TypeOK, AnsweredOnce, Awaits
<1>2. ASSUME NEW w \in Workers, NEW d \in Clients, Receive(w, d)
      PROVE  AnsweredOnce' /\ Awaits'
  <2>1. /\ refused' = refused /\ answered' = answered
        /\ sent' = [sent EXCEPT ![d] = @ + 1]
        /\ d \in Patient => answered[d] = sent[d]
    BY <1>2 DEF Receive
  <2>2. sent'[d] = sent[d] + 1 /\ \A c \in Clients : c # d => sent'[c] = sent[c]
    BY <2>1 DEF QInv, IInv, TypeOK
  <2>3. ASSUME NEW c \in Clients, ~refused PROVE sent'[c] = answered'[c] + Pending(c)'
    <3>1. Pending(c)' = Pending(c) + One(c, d)
      BY <1>2, ReceiveCounts DEF QInv
    <3> QED BY <1>1, <2>1, <2>2, <2>3, <3>1 DEF One
  <2>4. AnsweredOnce'
    BY <2>1, <2>3 DEF AnsweredOnce
  <2>5. Awaits'
    BY <1>1, <2>1, <2>2, ClientsAssumption DEF Awaits
  <2> QED BY <2>4, <2>5
<1>3. ASSUME NEW t \in RedisThreads, PushSendMsg(t)
      PROVE  AnsweredOnce' /\ Awaits'
  <2>1. PICK d : d = packetInfo[t]
    OBVIOUS
  <2>2. /\ refused' = refused /\ sent' = sent
        /\ answered' = [answered EXCEPT ![d] = @ + 1]
    BY <1>3, <2>1 DEF PushSendMsg
  <2>3. \A c \in Clients : answered'[c] = IF c = d THEN answered[c] + 1 ELSE answered[c]
    BY <2>2 DEF QInv, IInv, TypeOK
  <2>4. ASSUME NEW c \in Clients, ~refused PROVE sent'[c] = answered'[c] + Pending(c)'
    <3>1. Pending(c)' = Pending(c) - One(c, d)
      BY <1>3, <2>1, AnswerCounts DEF QInv
    <3> QED BY <1>1, <2>2, <2>3, <2>4, <3>1 DEF One
  <2>5. AnsweredOnce'
    BY <2>2, <2>4 DEF AnsweredOnce
  <2>6. Awaits'
    BY <1>1, <2>2, <2>3, ClientsAssumption DEF Awaits
  <2> QED BY <2>5, <2>6
<1>4. ASSUME sent' = sent, answered' = answered, ~refused' => ~refused,
             ~refused => \A c \in Clients : Pending(c)' = Pending(c)
      PROVE  AnsweredOnce' /\ Awaits'
  <2>1. AnsweredOnce'
    BY <1>1, <1>4 DEF AnsweredOnce
  <2>2. Awaits'
    BY <1>1, <1>4, ClientsAssumption DEF Awaits
  <2> QED BY <2>1, <2>2
<1>5. ASSUME NEW w \in Workers, WriteRecvData(w) \/ PushDataPacket(w)
      PROVE  AnsweredOnce' /\ Awaits'
  <2>1. sent' = sent /\ answered' = answered /\ (~refused' => ~refused)
    BY <1>5 DEF WriteRecvData, PushDataPacket
  <2>2. \A c \in Clients : Pending(c)' = Pending(c)
    BY <1>5, WriteCounts, PushCounts DEF QInv
  <2> QED BY <1>4, <2>1, <2>2
<1>6. ASSUME NEW t \in RedisThreads, Fails(t) \/ Ends(t)
      PROVE  AnsweredOnce' /\ Awaits'
  <2>1. sent' = sent /\ answered' = answered /\ refused' = refused
    BY <1>6 DEF Fails, BeginRead, Ends, CopyByte
  <2>2. ASSUME ~refused PROVE packetInfo'[t] = tempD[t] /\ pc'[t] = "dispatch"
    <3>1. Ends(t)
      <4>1. Fails(t) => tempD[t] \in Clients /\ ~CB!HasData(circularBuffer[tempD[t]], packetSize)
        BY DEF QInv, IInv, Fails, BeginRead, RedisHolds
      <4> QED BY <1>6, <2>2, <4>1, ReadPacket
    <3> QED BY <3>1, ReadSteps, ThreadsAssumption DEF QInv, IInv, TypeOK
  <2>3. ~refused => \A c \in Clients : Pending(c)' = Pending(c)
    BY <1>6, <2>2, ReadSteps, ReadCounts DEF QInv
  <2> QED BY <1>4, <2>1, <2>3
<1>7. ASSUME NEW t \in RedisThreads,
             \/ PopDataPacket(t) \/ ZeroReadData(t) \/ Begins(t) \/ Copies(t) \/ Dispatch(t)
             \/ LoginCheck(t) \/ SetUserToken(t)
      PROVE  AnsweredOnce' /\ Awaits'
  <2>1. sent' = sent /\ answered' = answered /\ refused' = refused
    BY <1>7 DEF PopDataPacket, ZeroReadData, Begins, BeginRead, Copies, CopyByte, Dispatch,
                LoginCheck, SetUserToken
  <2>2. \A c \in Clients : Pending(c)' = Pending(c)
    BY <1>7, PopCounts, OtherCounts DEF QInv
  <2> QED BY <1>4, <2>1, <2>2
<1> QED BY <1>2, <1>3, <1>5, <1>6, <1>7, Steps

\* While a thread serves a client with one request pending, or copies its bytes,
\* no other thread is about to write to the client's readData.
LEMMA TwoHere ==
  ASSUME QInv, ~refused, NEW c, Single(c), Pending(c) >= 2
  PROVE  FALSE
<1>1. c \in Clients
  BY DEF Single
<1>2. sent[c] = answered[c] + Pending(c) /\ sent[c] \in Nat /\ answered[c] \in Nat
  BY <1>1 DEF QInv, AnsweredOnce, IInv, TypeOK
<1>3. sent[c] <= 1 \/ sent[c] <= answered[c] + 1
  BY DEF Single, QInv, Awaits
<1> QED BY <1>2, <1>3, OwedNat DEF QInv, IInv

LEMMA Unshared ==
  ASSUME QInv, ~refused, NEW c, Single(c),
         NEW t \in RedisThreads, tempD[t] = c,
         NEW u \in RedisThreads, packetInfo[u] = c,
         pc[u] \in {"dispatch", "LoginCheck", "SetUserToken", "PushSendMsg"}
  PROVE  FALSE
<1>1. t \in Holding(c) /\ u \in Serving(c)
  BY DEF Holding, Serving
<1>2. Cardinality(Holding(c)) >= 1 /\ Cardinality(Serving(c)) >= 1
  <2>1. IsFiniteSet(Holding(c)) /\ IsFiniteSet(Serving(c))
    BY AllFinite DEF QInv, IInv
  <2>2. Cardinality(Holding(c)) # 0 /\ Cardinality(Serving(c)) # 0
    BY <1>1, <2>1, FS_EmptySet
  <2> QED BY <2>2, AllFinite DEF QInv, IInv
<1>3. Pending(c) >= 2
  BY <1>2, OwedIs, AllFinite DEF QInv, IInv
<1> QED BY <1>3, TwoHere

LEMMA UnsharedCopy ==
  ASSUME QInv, ~refused, NEW c, Single(c),
         NEW t \in RedisThreads, NEW u \in RedisThreads, t # u, tempD[t] = c, tempD[u] = c
  PROVE  FALSE
<1>1. t \in Holding(c) /\ u \in Holding(c) \ {t}
  BY DEF Holding
<1>2. IsFiniteSet(Holding(c)) /\ Cardinality(Holding(c)) \in Nat
  BY AllFinite DEF QInv, IInv
<1>3. /\ IsFiniteSet(Holding(c) \ {t})
      /\ Cardinality(Holding(c) \ {t}) = Cardinality(Holding(c)) - 1
  BY <1>1, <1>2, FS_RemoveElement
<1>4. Cardinality(Holding(c) \ {t}) # 0
  BY <1>1, <1>3, FS_EmptySet
<1>5. Cardinality(Holding(c)) >= 2
  <2>1. Cardinality(Holding(c) \ {t}) \in Nat
    BY <1>3, FS_CardinalityType
  <2> QED BY <1>2, <1>3, <1>4, <2>1
<1>6. Pending(c) >= 2
  BY <1>5, OwedIs, AllFinite DEF QInv, IInv
<1> QED BY <1>6, TwoHere

LEMMA SingleBefore ==
  ASSUME QInv, Next, NEW c, Single(c)'
  PROVE  Single(c)
<1>1. c \in Clients /\ (c \in Patient \/ sent'[c] <= 1)
  BY DEF Single
<1>2. sent' = sent \/ \E d \in Clients : sent' = [sent EXCEPT ![d] = @ + 1]
  BY OnlyForward
<1>3. sent[c] \in Nat /\ (sent'[c] = sent[c] \/ sent'[c] = sent[c] + 1)
  <2>1. sent \in [Clients -> 0..MaxPackets]
    BY DEF QInv, IInv, TypeOK
  <2> QED BY <1>1, <1>2, <2>1
<1> QED BY <1>1, <1>3 DEF Single

LEMMA Undisturbed ==
  ASSUME QInv, Next, ~refused, NEW u \in RedisThreads, Single(packetInfo[u]),
         UNCHANGED <<pc[u], packetInfo[u], user[u]>>,
         readData'[packetInfo[u]] = readData[packetInfo[u]]
  PROVE  Sound(u)'
<1>1. Sound(u)
  BY DEF QInv, Intact
<1> QED BY <1>1 DEF Sound

\* The bytes copied so far, and the next one.
LEMMA StepSoFar ==
  ASSUME QInv, Next, ~refused, NEW u \in RedisThreads, pc'[u] = "copy", Single(tempD[u])'
  PROVE  SoFar(u)'
<1> USE DEF QInv
<1>1. Single(tempD'[u])
  <2>1. PICK d : d = tempD'[u]
    OBVIOUS
  <2>2. Single(d)'
    BY <2>1 DEF Single
  <2> QED BY <2>1, <2>2, SingleBefore
<1>2. CASE pc[u] = "copy" /\ ~CopyByte(u)
  <2>1. PICK c \in Clients : c = tempD[u]
    BY <1>2 DEF IInv, RedisHolds
  <2>2. circularBuffer'[c] = circularBuffer[c] /\ tempD'[u] = c /\ copied'[u] = copied[u]
    BY <1>2, <2>1, RingStays DEF IInv
  <2>3. SoFar(u)
    BY <1>1, <1>2, <2>1, <2>2 DEF Intact
  <2>4. readData'[c] = readData[c]
    <3>1. CASE readData' = readData
      BY <3>1
    <3>2. CASE readData' # readData
      <4>1. PICK t \in RedisThreads : RedisMoves(t)
        BY <3>2, Steps DEF RedisMoves, WriteRecvData, PushDataPacket, Receive
      <4>2. \E b, x : readData' = [readData EXCEPT ![tempD[t]][b] = x]
        BY <3>2, <4>1, OnlyOwn
      <4>3. t # u
        <5>1. pc[u] = "copy" /\ ~Copies(u) /\ ~Ends(u)
          BY <1>2 DEF Copies, Ends
        <5>2. ~RedisMoves(u)
          BY <5>1 DEF RedisMoves, PopDataPacket, Begins, Fails, BeginRead, PushSendMsg,
                      ZeroReadData, Dispatch, LoginCheck, SetUserToken
        <5> QED BY <4>1, <5>2
      <4>4. tempD[t] # c
        BY <1>1, <2>1, <2>2, <4>3, UnsharedCopy
      <4> QED BY <4>2, <4>4 DEF IInv, TypeOK
    <3> QED BY <3>1, <3>2
  <2> QED BY <2>1, <2>2, <2>3, <2>4 DEF SoFar
<1>3. CASE CopyByte(u)
  <2>1. Copies(u)
    <3>1. Ends(u) => pc'[u] = "dispatch"
      BY ReadSteps, ThreadsAssumption DEF IInv, TypeOK
    <3> QED BY <1>3, <3>1, ReadSteps
  <2>2. /\ UNCHANGED <<circularBuffer, tempD>>
        /\ pc[u] = "copy" /\ copied' = [copied EXCEPT ![u] = copied[u] + 1]
        /\ readData' = [readData EXCEPT ![tempD[u]][copied[u] + 1] =
                          CB!ReadBytes(circularBuffer[tempD[u]], packetSize)[copied[u] + 1]]
    BY <2>1, ReadSteps DEF Copies, CopyByte
  <2>3. PICK c \in Clients : c = tempD[u]
    BY <2>2 DEF IInv, RedisHolds
  <2>4. PICK k \in 1..packetSize : k = copied[u] + 1 /\ copied[u] \in Nat
    BY <2>2, SizesAssumption DEF IInv, RedisHolds, TypeOK
  <2>5. /\ copied'[u] = k /\ readData'[c][k] = CB!ReadBytes(circularBuffer[c], packetSize)[k]
        /\ \A b \in 1..copied[u] : readData'[c][b] = readData[c][b]
    <3>1. PICK x : x = CB!ReadBytes(circularBuffer[c], packetSize)[k]
      OBVIOUS
    <3>2. readData' = [readData EXCEPT ![c][k] = x] /\ copied' = [copied EXCEPT ![u] = k]
      BY <2>2, <2>3, <2>4, <3>1
    <3>3. readData'[c] = [readData[c] EXCEPT ![k] = x]
      BY <3>2 DEF IInv, TypeOK
    <3>4. readData[c] \in [1..packetSize -> Byte]
      BY DEF IInv, TypeOK
    <3>5. copied'[u] = k
      BY <3>2 DEF IInv, TypeOK
    <3>6. ASSUME NEW b \in 1..copied[u] PROVE readData'[c][b] = readData[c][b]
      BY <2>4, <3>3, <3>4
    <3> QED BY <3>1, <3>3, <3>4, <3>5, <3>6
  <2>6. SoFar(u)
    BY <1>1, <2>2 DEF Intact
  <2>7. ASSUME NEW b \in 1..k
        PROVE  readData'[c][b] = CB!ReadBytes(circularBuffer[c], packetSize)[b]
    <3>1. b = k \/ b \in 1..copied[u]
      BY <2>4
    <3> QED BY <2>3, <2>5, <2>6, <3>1 DEF SoFar
  <2> QED BY <2>2, <2>3, <2>5, <2>7 DEF SoFar
<1>4. CASE pc[u] # "copy"
  <2>1. BeginRead(u)
    BY <1>4, CopyBegins DEF IInv
  <2>2. copied'[u] = 0
    BY <2>1 DEF BeginRead, IInv, TypeOK
  <2> QED BY <2>2 DEF SoFar
<1> QED BY <1>2, <1>3, <1>4

\* When the last byte is out, readData of such a client is the packet.
LEMMA EndsWhole ==
  ASSUME QInv, ~refused, NEW u \in RedisThreads, Ends(u), Single(tempD[u])
  PROVE  /\ readData'[tempD[u]] = CB!ReadBytes(circularBuffer[tempD[u]], packetSize)
         /\ \E p \in Requests(tempD[u]) : readData'[tempD[u]] = Packet(p)
<1> USE DEF QInv
<1>1. PICK c \in Clients : c = tempD[u] /\ pc[u] = "copy" /\ copied[u] + 1 = packetSize
  BY DEF Ends, CopyByte, IInv, RedisHolds
<1> DEFINE q == CB!ReadBytes(circularBuffer[c], packetSize)
<1>2. CB!HasData(circularBuffer[c], packetSize) /\ WellFormed(circularBuffer[c])
  BY <1>1 DEF IInv, Copying, RingsWellFormed
<1>3. PICK p \in Requests(c) : q = Packet(p)
  BY <1>1, <1>2, ReadPacket
<1>4. q \in [1..packetSize -> Byte]
  BY <1>2, RingTaken, SizesAssumption
<1>5. readData' = [readData EXCEPT ![c][packetSize] = q[packetSize]]
  BY <1>1 DEF Ends, CopyByte
<1>6. \A b \in 1..copied[u] : readData[c][b] = q[b]
  BY <1>1 DEF Intact, SoFar
<1> HIDE DEF q
<1>7. readData[c] \in [1..packetSize -> Byte] /\ copied[u] \in Nat
  BY DEF IInv, TypeOK
<1>8. readData'[c] = [readData[c] EXCEPT ![packetSize] = q[packetSize]]
  BY <1>5 DEF IInv, TypeOK
<1>9. readData'[c] = q
  <2>1. \A b \in 1..packetSize : b \in 1..copied[u] \/ b = packetSize
    BY <1>1, <1>7, SizesAssumption
  <2>2. \A b \in 1..packetSize : readData'[c][b] = q[b]
    BY <1>6, <1>7, <1>8, <2>1, SizesAssumption
  <2> QED BY <1>4, <1>7, <1>8, <2>2
<1> QED BY <1>1, <1>3, <1>9 DEF q

LEMMA StepSound ==
  ASSUME QInv, Next, ~refused, NEW u \in RedisThreads, Single(packetInfo[u])'
  PROVE  Sound(u)'
<1>1. ~terminated
  BY Steps
<1>2. PICK c : c = packetInfo'[u] /\ Single(c)
  <2>1. PICK d : d = packetInfo'[u]
    OBVIOUS
  <2>2. Single(d)'
    BY <2>1 DEF Single
  <2> QED BY <2>1, <2>2, SingleBefore
<1>3. c \in Clients
  BY <1>2 DEF Single
<1> USE ThreadsAssumption
<1>4. ASSUME NEW w \in Workers, \/ WriteRecvData(w) \/ PushDataPacket(w)
                                \/ \E d \in Clients : Receive(w, d)
      PROVE  Sound(u)'
  <2>1. /\ packetInfo' = packetInfo /\ user' = user /\ readData' = readData
        /\ \E l \in Place : pc' = [pc EXCEPT ![w] = l]
    BY <1>4 DEF WriteRecvData, PushDataPacket, Receive, Goto, Place
  <2>2. pc'[u] = pc[u]
    BY <2>1 DEF QInv, IInv, TypeOK
  <2> QED BY <1>1, <1>2, <2>1, <2>2, Undisturbed
<1>5. ASSUME NEW t \in RedisThreads, t # u, RedisMoves(t)
      PROVE  Sound(u)'
  <2>1. pc'[u] = pc[u] /\ packetInfo'[u] = packetInfo[u] /\ user'[u] = user[u]
    <3>1. /\ \/ pc' = pc \/ \E l \in Place \ {"WriteRecvData"} : pc' = [pc EXCEPT ![t] = l]
          /\ packetInfo' = packetInfo \/ \E x : packetInfo' = [packetInfo EXCEPT ![t] = x]
          /\ user' = user \/ \E x : user' = [user EXCEPT ![t] = x]
      BY <1>5, OnlyOwn
    <3> QED BY <1>5, <3>1 DEF QInv, IInv, TypeOK
  <2>2. CASE pc[u] \in {"dispatch", "SetUserToken"}
    <3>1. tempD[t] # c
      BY <1>1, <1>2, <2>1, <2>2, Unshared
    <3>2. readData'[c] = readData[c]
      <4>1. readData' = readData \/ \E b, x : readData' = [readData EXCEPT ![tempD[t]][b] = x]
        BY <1>5, OnlyOwn
      <4> QED BY <1>3, <3>1, <4>1 DEF QInv, IInv, TypeOK
    <3> QED BY <1>1, <1>2, <2>1, <3>2, Undisturbed
  <2>3. CASE pc[u] \notin {"dispatch", "SetUserToken"}
    BY <2>1, <2>3 DEF Sound
  <2> QED BY <2>2, <2>3
<1>6. CASE PopDataPacket(u) \/ ZeroReadData(u) \/ PushSendMsg(u) \/ SetUserToken(u)
  <2>1. pc'[u] \in {"zero", "Read", "idle", "PushSendMsg"}
    BY <1>6 DEF PopDataPacket, ZeroReadData, PushSendMsg, SetUserToken, Goto, QInv, IInv, TypeOK
  <2> QED BY <2>1 DEF Sound
<1>7. CASE Ends(u)
  <2>1. pc'[u] = "dispatch" /\ packetInfo'[u] = tempD[u]
    BY <1>7, ReadSteps DEF QInv, IInv, TypeOK
  <2>2. \E p \in Requests(tempD[u]) : readData'[tempD[u]] = Packet(p)
    BY <1>2, <1>7, <2>1, EndsWhole
  <2> QED BY <2>1, <2>2 DEF Sound
<1>8. CASE Begins(u) \/ Copies(u)
  <2>1. pc'[u] = "copy"
    <3>1. Begins(u) => pc' = [pc EXCEPT ![u] = "copy"]
      BY ReadSteps
    <3>2. Copies(u) => pc' = pc /\ pc[u] = "copy"
      BY ReadSteps DEF Copies, CopyByte
    <3> QED BY <1>8, <3>1, <3>2 DEF QInv, IInv, TypeOK
  <2> QED BY <2>1 DEF Sound
<1>9. CASE Fails(u)
  <2>1. tempD[u] \in Clients /\ ~CB!HasData(circularBuffer[tempD[u]], packetSize)
    BY <1>9 DEF QInv, IInv, Fails, BeginRead, RedisHolds
  <2> QED BY <2>1, ReadPacket
<1>10. CASE Dispatch(u)
  <2>1. CASE pc' = pc
    <3>1. UNCHANGED <<packetInfo, user, readData>>
      BY <1>10 DEF Dispatch
    <3> QED BY <1>1, <1>2, <2>1, <3>1, Undisturbed
  <2>2. CASE pc' = [pc EXCEPT ![u] = "LoginCheck"]
    BY <2>2 DEF QInv, IInv, TypeOK, Sound
  <2> QED BY <1>10, <2>1, <2>2 DEF Dispatch, Goto
<1>11. CASE LoginCheck(u)
  <2>1. packetInfo' = packetInfo /\ readData' = readData
    BY <1>11 DEF LoginCheck
  <2>2. \/ pc'[u] = "SetUserToken" /\ user'[u] = readData[packetInfo[u]][packetSize]
        \/ pc'[u] = "PushSendMsg"
    BY <1>11 DEF LoginCheck, Goto, QInv, IInv, TypeOK
  <2> QED BY <2>1, <2>2 DEF Sound
<1> QED
  BY <1>4, <1>5, <1>6, <1>7, <1>8, <1>9, <1>10, <1>11, Steps DEF RedisMoves

LEMMA StepIntact == QInv /\ Next => Intact'
<1> SUFFICES ASSUME QInv, Next, ~refused', NEW u \in RedisThreads
             PROVE  /\ Single(packetInfo[u])' => Sound(u)'
                    /\ pc'[u] = "copy" /\ Single(tempD[u])' => SoFar(u)'
  BY DEF Intact
<1>1. ~refused
  BY OnlyForward
<1> QED BY <1>1, StepSound, StepSoFar

LEMMA StepTokens == QInv /\ Next => TokenOfPatient' /\ KnownHandler'
<1> SUFFICES ASSUME QInv, Next PROVE TokenOfPatient' /\ KnownHandler'
  OBVIOUS
<1>1. ~terminated /\ (refused => refused')
  BY Steps, OnlyForward
<1>2. ASSUME ~refused', mixed' # mixed
      PROVE  mixed' \cap Patient = mixed \cap Patient
  <2>1. PICK t \in RedisThreads : SetUserToken(t)
    BY <1>2, Steps DEF Receive, WriteRecvData, PushDataPacket, PopDataPacket, ZeroReadData,
                       Begins, Fails, BeginRead, Copies, Ends, CopyByte, Dispatch, LoginCheck,
                       PushSendMsg
  <2>2. PICK c \in Clients : c = packetInfo[t]
    BY <1>1, <2>1 DEF QInv, IInv, RedisHolds, SetUserToken
  <2>3. readData[c][packetSize] # user[t] /\ mixed' = mixed \cup {c} /\ pc[t] = "SetUserToken"
    BY <1>2, <2>1, <2>2 DEF SetUserToken
  <2>4. c \notin Patient
    BY <1>1, <1>2, <2>2, <2>3 DEF QInv, Intact, Sound, Single
  <2> QED BY <2>3, <2>4
<1>3. TokenOfPatient'
  BY <1>1, <1>2 DEF QInv, TokenOfPatient
<1>4. ASSUME terminated', ~refused'
      PROVE  \E t \in RedisThreads : Dispatch(t) /\ readData[packetInfo[t]][1] \notin Known
  <2>1. PICK t \in RedisThreads : Fails(t) \/ Dispatch(t)
    BY <1>1, <1>4, Steps, ReadSteps
       DEF Receive, WriteRecvData, PushDataPacket, PopDataPacket, ZeroReadData, LoginCheck,
           SetUserToken, PushSendMsg
  <2>2. ~Fails(t)
    <3>1. Fails(t) => tempD[t] \in Clients /\ ~CB!HasData(circularBuffer[tempD[t]], packetSize)
      BY DEF QInv, IInv, Fails, BeginRead, RedisHolds
    <3> QED BY <1>1, <1>4, <3>1, ReadPacket
  <2>3. Dispatch(t)
    BY <2>1, <2>2
  <2>4. readData[packetInfo[t]][1] \notin Known
    BY <1>1, <1>4, <2>3 DEF Dispatch
  <2> QED BY <2>3, <2>4
<1>5. ASSUME terminated', ~refused' PROVE KnownHandler'
  <2>1. PICK t \in RedisThreads : Dispatch(t) /\ readData[packetInfo[t]][1] \notin Known
    BY <1>4, <1>5
  <2>2. PICK c \in Clients : c = packetInfo[t] /\ pc[t] = "dispatch"
    BY <1>1, <2>1 DEF QInv, IInv, RedisHolds, Dispatch
  <2>3. UNCHANGED <<pc, packetInfo, readData, sent>>
    BY <2>1, <2>2 DEF Dispatch
  <2>4. CASE Single(c)
    <3>1. PICK p \in Requests(c) : readData[c] = Packet(p)
      BY <1>1, <1>5, <2>2, <2>4 DEF QInv, Intact, Sound
    <3>2. Packet(p)[1] = <<p, 1>> /\ p \in Req /\ (~p[2] => c \in Strangers)
      BY SizesAssumption, RequestsAre DEF Packet
    <3>3. ~p[2]
      <4>1. PICK n \in 1..MaxPackets, b \in BOOLEAN : p = <<n, b>>
        BY <3>2 DEF Req
      <4>2. b = TRUE => <<p, 1>> \in Known
        BY <4>1 DEF Known
      <4> QED BY <2>1, <2>2, <3>1, <3>2, <4>1, <4>2
    <3> QED BY <2>2, <2>3, <3>1, <3>2, <3>3 DEF KnownHandler
  <2>5. CASE ~Single(c)
    <3>1. c \notin Patient /\ ~(sent[c] <= 1) /\ sent[c] \in Nat
      BY <2>5 DEF Single, QInv, IInv, TypeOK
    <3> QED BY <2>2, <2>3, <3>1 DEF KnownHandler
  <2> QED BY <2>4, <2>5
<1>6. KnownHandler'
  BY <1>5 DEF KnownHandler
<1> QED BY <1>3, <1>6

LEMMA StepQInv == QInv /\ [Next]_vars => QInv'
<1>1. ASSUME QInv, Next PROVE QInv'
  <2>1. IInv'
    BY <1>1, StepIInv DEF QInv
  <2>2. HoldsToRead' /\ WritesPackets'
    BY <1>1, StepHolds
  <2> QED BY <1>1, <2>1, <2>2, StepWhole, StepAnswers, StepIntact, StepTokens DEF QInv
<1>2. ASSUME QInv, UNCHANGED vars PROVE QInv'
  <2>1. IInv'
    BY <1>2, StepIInv DEF QInv
  <2>2. \A c : Owed(c)' = Owed(c) /\ Pending(c)' = Pending(c)
    BY <1>2 DEF vars, Owed, Pending
  <2>3. RingsWhole'
    BY <1>2, <2>2, SameRings DEF vars, QInv
  <2>4. AnsweredOnce' /\ Awaits'
    BY <1>2, <2>2 DEF vars, QInv, AnsweredOnce, Awaits
  <2>5. HoldsToRead' /\ WritesPackets' /\ TokenOfPatient' /\ KnownHandler'
    BY <1>2 DEF vars, QInv, HoldsToRead, WritesPackets, TokenOfPatient, KnownHandler
  <2>6. Intact'
    BY <1>2 DEF vars, QInv, Intact, Sound, SoFar, Single
  <2> QED BY <2>1, <2>3, <2>4, <2>5, <2>6 DEF QInv
<1> QED BY <1>1, <1>2

LEMMA QInvariance == Spec => []QInv
  BY InitQInv, StepQInv, PTL DEF Spec

LEMMA RingBytes == QInv => BytesOwed
<1> SUFFICES ASSUME QInv, NEW c \in Clients
             PROVE  /\ circularBuffer[c].currentSize <= packetSize * Owed(c)
                    /\ ~refused => circularBuffer[c].currentSize = packetSize * Owed(c)
  BY DEF BytesOwed
<1>1. PICK ks \in Seq(Requests(c)) :
        /\ Whole(CB!Content(circularBuffer[c]), ks) /\ Len(ks) <= Owed(c)
        /\ ~refused => Len(ks) = Owed(c)
  BY DEF QInv, RingsWhole, RingWhole
<1>2. Len(CB!Content(circularBuffer[c])) = circularBuffer[c].currentSize
  BY RingContent DEF QInv, IInv, RingsWellFormed
<1>3. circularBuffer[c].currentSize = packetSize * Len(ks)
  BY <1>1, <1>2 DEF Whole
<1>4. packetSize * Len(ks) <= packetSize * Owed(c)
  <2>1. packetSize \in Nat /\ Len(ks) \in Nat /\ Owed(c) \in Nat
    BY SizesAssumption, OwedNat DEF QInv, IInv
  <2> QED BY <1>1, <2>1, Times
<1>5. ~refused => packetSize * Len(ks) = packetSize * Owed(c)
  BY <1>1
<1> QED BY <1>3, <1>4, <1>5

(* The bytes in a client's ring are those of the requests queued, about to be *)
(* queued, or taken: no thread finds less than a packet unless a full ring    *)
(* refused one.                                                             *)
THEOREM RingsMatchQueue == Spec => []BytesOwed
  BY QInvariance, RingBytes, PTL

(* What a Redis thread takes from a ring is one whole packet, however workers  *)
(* and threads interleave and whatever a full ring refused.  If the client     *)
(* awaits its answers and no ring was full, its readData then is that packet:   *)
(* no other thread's bytes fall among those copied without a lock.            *)
THEOREM ReadsAreFramed == Spec => Framed
<1> DEFINE Reads ==
      \A t \in RedisThreads :
        pc[t] = "copy" /\ pc'[t] = "dispatch" =>
          \E p \in Requests(tempD[t]) :
            /\ CB!ReadBytes(circularBuffer[tempD[t]], packetSize) = Packet(p)
            /\ tempD[t] \in Patient /\ ~refused => readData'[tempD[t]] = Packet(p)
<1>1. ASSUME QInv, Next PROVE Reads
  <2> SUFFICES ASSUME NEW t \in RedisThreads, pc[t] = "copy", pc'[t] = "dispatch"
               PROVE  \E p \in Requests(tempD[t]) :
                        /\ CB!ReadBytes(circularBuffer[tempD[t]], packetSize) = Packet(p)
                        /\ tempD[t] \in Patient /\ ~refused => readData'[tempD[t]] = Packet(p)
    OBVIOUS
  <2>1. CopyByte(t)
    BY <1>1, RingStays DEF QInv
  <2>2. Ends(t)
    <3>1. ~Copies(t)
      BY ReadSteps
    <3> QED BY <2>1, <3>1, ReadSteps
  <2>3. PICK c \in Clients : c = tempD[t] /\ CB!HasData(circularBuffer[c], packetSize)
    BY <1>1 DEF QInv, IInv, RedisHolds, Copying
  <2>4. PICK p \in Requests(c) : CB!ReadBytes(circularBuffer[c], packetSize) = Packet(p)
    BY <1>1, <2>3, ReadPacket
  <2>5. c \in Patient /\ ~refused => readData'[c] = CB!ReadBytes(circularBuffer[c], packetSize)
    BY <1>1, <2>2, <2>3, EndsWhole DEF Single
  <2> QED BY <2>3, <2>4, <2>5
<1>2. QInv /\ [Next]_vars => [Reads]_vars
  BY <1>1
<1> HIDE DEF Reads
<1>3. Spec => [][Reads]_vars
  BY <1>2, QInvariance, PTL DEF Spec
<1> QED BY <1>3 DEF Reads, Framed

(* Each request is answered once, to the client who sent it, unless a full    *)
(* ring refused one.                                                        *)
THEOREM RequestsAnsweredOnce == Spec => []AnsweredOnce
<1>1. QInv => AnsweredOnce
  BY DEF QInv
<1> QED BY <1>1, QInvariance, PTL

(* The token of a client who awaits each answer is stored under the user who  *)
(* was checked, though readData is shared and read without a lock, whatever   *)
(* the other clients do.                                                    *)
THEOREM PatientTokens == Spec => []TokenOfPatient
<1>1. QInv => TokenOfPatient
  BY DEF QInv
<1> QED BY <1>1, QInvariance, PTL

(* No thread calls a null handler, which ends the process, unless a ring was  *)
(* full, a client sent a packet with an unknown PacketId (one is enough), or a *)
(* client sent a request before the answer to its last.                      *)
THEOREM HandlersKnown == Spec => []KnownHandler
<1>1. QInv => KnownHandler
  BY DEF QInv
<1> QED BY <1>1, QInvariance, PTL
=============================================================================

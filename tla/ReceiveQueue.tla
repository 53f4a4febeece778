----------------------------- MODULE ReceiveQueue -----------------------------
(***************************************************************************)
(* The way of a request from a worker to its handler: PushRedisPacket       *)
(* writes the received bytes to the client's CircularBuffer and queues      *)
(* their number; a Redis thread takes the number, reads that many bytes     *)
(* into readData, an array every thread that serves the client shares, and  *)
(* dispatches on the header it finds there.  ProcessLogin is here as far as *)
(* it reads the packet: what else it does is in LoginFlow, how its answer   *)
(* is sent in SendQueue.                                                    *)
(*                                                                          *)
(* No function of the repository calls PushRedisPacket or                   *)
(* RedisManager::Init.  The model takes them as their signatures ask: a     *)
(* worker passes on each packet it receives, Redis threads run.             *)
(***************************************************************************)
EXTENDS Naturals, Sequences, FiniteSets, SequencesExt

CONSTANTS Clients,      \* connObjNum of the clients
          Patient,      \* those who await an answer before they send again
          Strangers,    \* those who may send a PacketId the table does not have
          Workers, RedisThreads,
          bufferSize,   \* MAX_CIRCLE_SIZE, scaled down
          packetSize,   \* sizeof(USER_LOGIN_REQUEST), scaled down
          MaxSent,      \* bound: packets each client sends,
          MaxPackets,   \*   and the greatest of these numbers
          NoClient

ASSUME ClientsAssumption == /\ Patient \subseteq Clients /\ Strangers \subseteq Clients
                            /\ NoClient \notin Clients
ASSUME ThreadsAssumption == /\ Workers \cap RedisThreads = {}
                            /\ IsFiniteSet(Workers) /\ IsFiniteSet(RedisThreads)
ASSUME SizesAssumption == /\ bufferSize \in Nat \ {0} /\ packetSize \in Nat \ {0}
                          /\ MaxPackets \in Nat /\ MaxSent \in [Clients -> 0..MaxPackets]

\* A request: its number among the client's, and if packetIDTable has its id.
Requests(c) == (1..MaxPackets) \X (IF c \in Strangers THEN BOOLEAN ELSE {TRUE})

\* Byte i of the packet of a request: the first is the header, the last names the
\* user.  readData begins as zeros, and zero is no PacketId.
Zero == <<<<0, FALSE>>, 0>>
Byte == {Zero} \cup ((1..MaxPackets) \X BOOLEAN) \X (1..packetSize)
Packet(p) == [i \in 1..packetSize |-> <<p, i>>]
Known == {<<<<n, TRUE>>, 1>> : n \in 1..MaxPackets}
ZeroData == [i \in 1..packetSize |-> Zero]

CB == INSTANCE CircularBuffer

VARIABLES circularBuffer,  \* each client's ring
          readData,        \* each client's array, as far as packets fill it
          procSktQueue,    \* DataPackets, a lock-free FIFO queue
          sent,            \* packets each client has sent
          answered,        \* answers sent to each client
          pc,              \* next step of each thread
          recv,            \* the client and the packet a worker passes on
          tempD,           \* client of the DataPacket a Redis thread took
          packetInfo,      \* client whose readData its PacketInfo points to
          copied,          \* bytes of readData it has copied so far
          user,            \* the user it checked: the bytes read at LoginCheck
          mixed,           \* history: clients whose token went to another user's key
          refused,         \* history: did Write refuse a packet?
          terminated       \* a call through a null handler: the process is gone

vars == <<circularBuffer, readData, procSktQueue, sent, answered, pc, recv, tempD, packetInfo,
          copied, user, mixed, refused, terminated>>

NoRecv == [client |-> NoClient, data |-> <<>>]

Init == /\ circularBuffer = [c \in Clients |->
             [buffer |-> [i \in CB!Index |-> Zero], writePos |-> 0, readPos |-> 0,
              currentSize |-> 0]]
        /\ readData = [c \in Clients |-> ZeroData]
        /\ procSktQueue = <<>>
        /\ sent = [c \in Clients |-> 0] /\ answered = [c \in Clients |-> 0]
        /\ pc = [t \in Workers \cup RedisThreads |-> "idle"]
        /\ recv = [w \in Workers |-> NoRecv]
        /\ tempD = [t \in RedisThreads |-> NoClient]
        /\ packetInfo = [t \in RedisThreads |-> NoClient]
        /\ copied = [t \in RedisThreads |-> 0]
        /\ user = [t \in RedisThreads |-> Zero]
        /\ mixed = {} /\ refused = FALSE /\ terminated = FALSE

Goto(t, l) == pc' = [pc EXCEPT ![t] = l]

\* A thread in CircularBuffer::Read holds the bufferMutex of the client's ring.
Locked(c) == \E t \in RedisThreads : pc[t] = "copy" /\ tempD[t] = c

-----------------------------------------------------------------------------
(* PushRedisPacket, on a worker.                                            *)

\* A receive of client c completes with one whole packet.
Receive(w, c) ==
  /\ pc[w] = "idle" /\ sent[c] < MaxSent[c]
  /\ c \in Patient => answered[c] = sent[c]
  /\ sent' = [sent EXCEPT ![c] = @ + 1]
  /\ \E p \in Requests(c) :
       /\ p[1] = sent[c] + 1
       /\ recv' = [recv EXCEPT ![w] = [client |-> c, data |-> Packet(p)]]
  /\ Goto(w, "WriteRecvData")
  /\ UNCHANGED <<circularBuffer, readData, procSktQueue, answered, tempD, packetInfo, copied,
                 user, mixed, refused, terminated>>

\* Mutant: what has room is written.
WriteSome(w) ==
  LET c == recv[w].client
      room == bufferSize - circularBuffer[c].currentSize
      size == IF room < packetSize THEN room ELSE packetSize
  IN
  /\ pc[w] = "WriteRecvData"
  /\ circularBuffer' = [circularBuffer EXCEPT ![c] = CB!Written(@, SubSeq(recv[w].data, 1, size))]
  /\ Goto(w, "push")
  /\ UNCHANGED <<readData, procSktQueue, sent, answered, recv, tempD, packetInfo, copied, user,
                 mixed, refused, terminated>>

\* PushRedisPacket ignores what WriteRecvData returns.
WriteRecvData(w) ==
  LET c == recv[w].client IN
  /\ pc[w] = "WriteRecvData" /\ ~Locked(c)
  /\ IF CB!HasRoom(circularBuffer[c], packetSize)
     THEN /\ circularBuffer' = [circularBuffer EXCEPT ![c] = CB!Written(@, recv[w].data)]
          /\ UNCHANGED refused
     ELSE refused' = TRUE /\ UNCHANGED circularBuffer
  /\ Goto(w, "push")
  /\ UNCHANGED <<readData, procSktQueue, sent, answered, recv, tempD, packetInfo, copied, user,
                 mixed, terminated>>

\* Mutant: a queue that holds one entry drops the next.
PushToEmpty(w) ==
  /\ pc[w] = "push"
  /\ procSktQueue' = IF procSktQueue = <<>> THEN <<recv[w].client>> ELSE procSktQueue
  /\ recv' = [recv EXCEPT ![w] = NoRecv]
  /\ Goto(w, "idle")
  /\ UNCHANGED <<circularBuffer, readData, sent, answered, tempD, packetInfo, copied, user,
                 mixed, refused, terminated>>

PushDataPacket(w) ==
  /\ pc[w] = "push"
  /\ procSktQueue' = Append(procSktQueue, recv[w].client)
  /\ recv' = [recv EXCEPT ![w] = NoRecv]
  /\ Goto(w, "idle")
  /\ UNCHANGED <<circularBuffer, readData, sent, answered, tempD, packetInfo, copied, user,
                 mixed, refused, terminated>>

-----------------------------------------------------------------------------
(* RedisThread.                                                             *)

\* Mutant: the entry is read and not popped.
PeekDataPacket(t) ==
  /\ pc[t] = "idle" /\ procSktQueue # <<>>
  /\ tempD' = [tempD EXCEPT ![t] = Head(procSktQueue)]
  /\ copied' = [copied EXCEPT ![t] = 0]
  /\ Goto(t, "zero")
  /\ UNCHANGED <<circularBuffer, readData, procSktQueue, sent, answered, recv, packetInfo, user,
                 mixed, refused, terminated>>

PopDataPacket(t) ==
  /\ pc[t] = "idle" /\ procSktQueue # <<>>
  /\ tempD' = [tempD EXCEPT ![t] = Head(procSktQueue)]
  /\ procSktQueue' = Tail(procSktQueue)
  /\ copied' = [copied EXCEPT ![t] = 0]
  /\ Goto(t, "zero")
  /\ UNCHANGED <<circularBuffer, readData, sent, answered, recv, packetInfo, user, mixed,
                 refused, terminated>>

\* ReadRecvData begins with CopyMemory(readData, tempData), and tempData is all
\* zeros.  No lock is held, so the bytes change one by one.
ZeroReadData(t) ==
  /\ pc[t] = "zero"
  /\ readData' = [readData EXCEPT ![tempD[t]][copied[t] + 1] = Zero]
  /\ copied' = [copied EXCEPT ![t] = @ + 1]
  /\ IF copied[t] + 1 = packetSize THEN Goto(t, "Read") ELSE UNCHANGED pc
  /\ UNCHANGED <<circularBuffer, procSktQueue, sent, answered, recv, tempD, packetInfo, user,
                 mixed, refused, terminated>>

\* CircularBuffer::Read takes the lock and finds the bytes there.  If not,
\* ReadRecvData ends without a return: packetInfo is what the thread's last packet
\* left there, which is dispatched again, or was never a PacketInfo.
BeginRead(t) ==
  /\ pc[t] = "Read" /\ ~Locked(tempD[t])
  /\ IF CB!HasData(circularBuffer[tempD[t]], packetSize)
     THEN Goto(t, "copy") /\ UNCHANGED <<tempD, terminated>>
     ELSE /\ Goto(t, "LoginCheck")
          /\ tempD' = [tempD EXCEPT ![t] = NoClient]
          /\ terminated' = (packetInfo[t] = NoClient)
  /\ copied' = [copied EXCEPT ![t] = 0]
  /\ UNCHANGED <<circularBuffer, readData, procSktQueue, sent, answered, recv, packetInfo, user,
                 mixed, refused>>

\* The ring moves on when the last byte is out; then the lock is given back.
EndRead(t) ==
  LET c == tempD[t] IN
  /\ circularBuffer' = [circularBuffer EXCEPT ![c] = CB!Taken(@, packetSize)]
  /\ packetInfo' = [packetInfo EXCEPT ![t] = c]
  /\ tempD' = [tempD EXCEPT ![t] = NoClient]
  /\ Goto(t, "dispatch")

\* Mutant: the bytes are copied into the thread's own tempData.
CopyElsewhere(t) ==
  /\ pc[t] = "copy"
  /\ copied' = [copied EXCEPT ![t] = @ + 1]
  /\ IF copied[t] + 1 = packetSize THEN EndRead(t)
     ELSE UNCHANGED <<circularBuffer, packetInfo, tempD, pc>>
  /\ UNCHANGED <<readData, procSktQueue, sent, answered, recv, user, mixed, refused, terminated>>

\* Its memcpy.  bufferMutex guards the ring and not readData: the bytes another
\* thread zeroes may be between those this one copies.
CopyByte(t) ==
  LET c == tempD[t]
      k == copied[t] + 1
  IN
  /\ pc[t] = "copy"
  /\ readData' = [readData EXCEPT ![c][k] = CB!ReadBytes(circularBuffer[c], packetSize)[k]]
  /\ copied' = [copied EXCEPT ![t] = k]
  /\ IF k = packetSize THEN EndRead(t)
     ELSE UNCHANGED <<circularBuffer, packetInfo, tempD, pc>>
  /\ UNCHANGED <<procSktQueue, sent, answered, recv, user, mixed, refused, terminated>>

\* The handler of the PacketId: operator[] inserts a null one for an unknown id.
Dispatch(t) ==
  /\ pc[t] = "dispatch"
  /\ IF readData[packetInfo[t]][1] \in Known
     THEN Goto(t, "LoginCheck") /\ UNCHANGED terminated
     ELSE terminated' = TRUE /\ UNCHANGED pc
  /\ UNCHANGED <<circularBuffer, readData, procSktQueue, sent, answered, recv, tempD, packetInfo,
                 copied, user, mixed, refused>>

-----------------------------------------------------------------------------
(* ProcessLogin, as far as it reads the packet, of which it has no copy.    *)

\* LoginCheck(loginReqPacket->userId, ...) gives the userPk of this user, or the
\* login fails there or in ProcessConnect.
LoginCheck(t) ==
  /\ pc[t] = "LoginCheck"
  /\ \/ user' = [user EXCEPT ![t] = readData[packetInfo[t]][packetSize]] /\ Goto(t, "SetUserToken")
     \/ Goto(t, "PushSendMsg") /\ UNCHANGED user
  /\ UNCHANGED <<circularBuffer, readData, procSktQueue, sent, answered, recv, tempD, packetInfo,
                 copied, mixed, refused, terminated>>

\* SetUserToken(loginReqPacket->userId, ...) stores that userPk under the key of
\* the user it finds now.
SetUserToken(t) ==
  LET c == packetInfo[t] IN
  /\ pc[t] = "SetUserToken"
  /\ mixed' = IF readData[c][packetSize] # user[t] THEN mixed \cup {c} ELSE mixed
  /\ user' = [user EXCEPT ![t] = Zero]
  /\ Goto(t, "PushSendMsg")
  /\ UNCHANGED <<circularBuffer, readData, procSktQueue, sent, answered, recv, tempD, packetInfo,
                 copied, refused, terminated>>

\* The answer, to the client PacketInfo names.
PushSendMsg(t) ==
  /\ pc[t] = "PushSendMsg"
  /\ answered' = [answered EXCEPT ![packetInfo[t]] = @ + 1]
  /\ Goto(t, "idle")
  /\ UNCHANGED <<circularBuffer, readData, procSktQueue, sent, recv, tempD, packetInfo, copied,
                 user, mixed, refused, terminated>>

-----------------------------------------------------------------------------
WorkerStep(w) == ~terminated /\ (WriteRecvData(w) \/ PushDataPacket(w))
RedisStep(t) == /\ ~terminated
                /\ \/ PopDataPacket(t) \/ ZeroReadData(t) \/ BeginRead(t) \/ CopyByte(t)
                   \/ Dispatch(t) \/ LoginCheck(t) \/ SetUserToken(t) \/ PushSendMsg(t)

Next == \/ \E w \in Workers : WorkerStep(w) \/ \E c \in Clients : ~terminated /\ Receive(w, c)
        \/ \E t \in RedisThreads : RedisStep(t)

Spec == Init /\ [][Next]_vars

\* A worker that passes on a packet and the Redis threads run on.
Fairness == /\ \A w \in Workers : WF_vars(WorkerStep(w))
            /\ \A t \in RedisThreads : WF_vars(RedisStep(t))

FairSpec == Spec /\ Fairness

-----------------------------------------------------------------------------
(* Properties.                                                              *)

Place == {"idle", "WriteRecvData", "push", "zero", "Read", "copy", "dispatch", "LoginCheck",
          "SetUserToken", "PushSendMsg"}

TypeOK == /\ circularBuffer \in [Clients -> CB!Ring]
          /\ readData \in [Clients -> [1..packetSize -> Byte]]
          /\ procSktQueue \in Seq(Clients)
          /\ sent \in [Clients -> 0..MaxPackets]
          /\ answered \in [Clients -> Nat]
          /\ pc \in [Workers \cup RedisThreads -> Place]
          /\ recv \in [Workers -> {NoRecv} \cup [client : Clients, data : Seq(Byte)]]
          /\ tempD \in [RedisThreads -> Clients \cup {NoClient}]
          /\ packetInfo \in [RedisThreads -> Clients \cup {NoClient}]
          /\ copied \in [RedisThreads -> 0..packetSize]
          /\ user \in [RedisThreads -> Byte]
          /\ mixed \subseteq Clients
          /\ refused \in BOOLEAN /\ terminated \in BOOLEAN

\* Entries of client c whose bytes are still to be read: queued, about to be
\* queued, or taken by a thread.
Owed(c) ==
  Cardinality({i \in DOMAIN procSktQueue : procSktQueue[i] = c})
    + Cardinality({w \in Workers : pc[w] = "push" /\ recv[w].client = c})
    + Cardinality({t \in RedisThreads : tempD[t] = c})

\* Two structures, written and read in separate steps by different threads,
\* agree: every byte in a ring is owed to an entry, and no entry lacks its bytes
\* unless a full ring refused a packet that was queued all the same.
BytesOwed ==
  \A c \in Clients : /\ circularBuffer[c].currentSize <= packetSize * Owed(c)
                     /\ ~refused => circularBuffer[c].currentSize = packetSize * Owed(c)

\* However workers and Redis threads interleave, and whatever a full ring
\* refused, what a thread takes from a ring is one whole packet of the client and
\* never the end of one and the beginning of another.  And if the client awaits
\* its answers and no ring was full, that packet, every byte of it, is what
\* readData then holds, though threads write there without a lock.
Framed ==
  [][\A t \in RedisThreads :
       pc[t] = "copy" /\ pc'[t] = "dispatch" =>
         \E p \in Requests(tempD[t]) :
           /\ CB!ReadBytes(circularBuffer[tempD[t]], packetSize) = Packet(p)
           /\ tempD[t] \in Patient /\ ~refused => readData'[tempD[t]] = Packet(p)]_vars

\* Client c's requests that are on their way.
Pending(c) ==
  Owed(c) + Cardinality({w \in Workers : pc[w] = "WriteRecvData" /\ recv[w].client = c})
    + Cardinality({t \in RedisThreads : /\ pc[t] \in {"dispatch", "LoginCheck", "SetUserToken",
                                                   "PushSendMsg"}
                                        /\ packetInfo[t] = c})

\* Unless a ring was full, each request is answered once, to its client.
AnsweredOnce == ~refused => \A c \in Clients : sent[c] = answered[c] + Pending(c)

\* "key: jwtcheck:{userId}, field: token, value: userPk" (RedisManager.cpp:145):
\* the token of a login is stored under the user who was checked.
TokenOfUser == mixed = {}

\* ... and always is for a client who awaits each answer, whatever the other
\* clients do, unless a ring was full.
TokenOfPatient == refused \/ mixed \cap Patient = {}

\* What ends the process, unless a ring was full: a client's packet that itself
\* has an unknown PacketId (one is enough), or two packets of a client who did not
\* await its answer, which meet in readData.
KnownHandler ==
  terminated => refused \/ \E t \in RedisThreads :
    /\ pc[t] = "dispatch"
    /\ LET c == packetInfo[t] IN
       \/ c \in Strangers /\ \E p \in Requests(c) : ~p[2] /\ readData[c] = Packet(p)
       \/ c \notin Patient /\ sent[c] > 1

Queues == INSTANCE ByteQueue WITH bytes <- [c \in Clients |-> CB!Content(circularBuffer[c])],
                                  capacity <- bufferSize

\* Each client's CircularBuffer is a bounded FIFO queue of bytes, wherever in its
\* array the bytes lie.
RingIsQueue == Queues!Spec

\* Every request is answered in the end, unless the process ends before.
AllAnswered == \A c \in Clients : []<>(sent[c] = answered[c] \/ terminated \/ refused)
=============================================================================

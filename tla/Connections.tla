----------------------------- MODULE Connections -----------------------------
(***************************************************************************)
(* The IOCP core: the ConnUser slots and their sockets, AcceptQueue, the    *)
(* pool of OverlappedEx blocks (OverLappedManager), the worker threads      *)
(* (WorkThread), the accepter threads (AccepterThread), and the Redis       *)
(* threads as far as they post sends.  The operating system is external:    *)
(* sockets, pending operations and the completion port, in `posted' and     *)
(* `iocp'.                                                                  *)
(*                                                                          *)
(* A worker knows an operation only by what its OverlappedEx says when the  *)
(* completion is dequeued: taskType and connObjNum.  Which socket, and so   *)
(* which client, the operation was for is not recorded by the code; the     *)
(* field `old' of a completion keeps it for the properties.                 *)
(***************************************************************************)
EXTENDS Naturals, Sequences, FiniteSets, SequencesExt

CONSTANTS Slots,          \* connObjNum of the ConnUsers; 0 is one of them
          PoolOvs,        \* the blocks OverLappedManager::init() allocates
          HeapOvs,        \* bound: blocks PushSendMsg can have allocated at a time
          MaxPool,        \* bound: length of the pool at which accepting stops
          MaxRequests,    \* bound: requests the Redis threads answer in all
          Workers, Accepters,
          Senders,        \* Redis threads that answer clients ({}: no sends)
          AcceptMayFail,  \* can AcceptEx, or its completion, fail?
          PeerLeaves,     \* can a client disconnect?
          PeerAborts,     \* ... so that the next WSARecv fails at once?
          NoOv, NoSlot, NoJob

AcceptOv(s) == <<"acceptOvlap", s>>    \* ConnUser::acceptOvlap of slot s
AcceptOvs == {AcceptOv(s) : s \in Slots}
Ovs == PoolOvs \cup HeapOvs \cup AcceptOvs

ASSUME SlotsAssumption == /\ Slots \subseteq Nat /\ 0 \in Slots /\ NoSlot \notin Slots
                          /\ IsFiniteSet(Slots)
ASSUME OvsAssumption == /\ IsFiniteSet(PoolOvs)
                        /\ PoolOvs \cap HeapOvs = {}
                        /\ (PoolOvs \cup HeapOvs) \cap AcceptOvs = {}
                        /\ NoOv \notin Ovs
ASSUME ThreadsAssumption == /\ Workers \cap Accepters = {} /\ Workers \cap Senders = {}
                            /\ Accepters \cap Senders = {}
ASSUME FlagsAssumption == {AcceptMayFail, PeerLeaves, PeerAborts} \subseteq BOOLEAN
ASSUME BoundsAssumption == MaxPool \in Nat /\ MaxRequests \in Nat

TaskType == {"ACCEPT", "RECV", "SEND", "NEWRECV", "NEWSEND"}
ZeroMemory == [taskType |-> "ACCEPT", connObjNum |-> 0]

VARIABLES ovMem,        \* contents of each OverlappedEx
          ovLapPool,    \* the pool, a lock-free FIFO queue
          heap,         \* blocks of HeapOvs now allocated
          AcceptQueue,  \* slots waiting for an accepter, a lock-free FIFO queue
          skt,          \* state of each slot's present socket: not connected,
                        \* connected, connected and heard from, client gone
          posted,       \* operations pending on the slots' present sockets
          iocp,         \* the completion queue
          job,          \* completion each worker works on
          pc,           \* next step of each thread
          target,       \* slot an accepter or a Redis thread works on
          buf,          \* block a thread took and has not passed on yet
          requests,     \* history: requests answered
          acceptFailed, \* history: slots an accept of which failed or was aborted
          deaf          \* history: slots whose client nothing is received from
                        \* any more, since ConnUserRecv failed for it

vars == <<ovMem, ovLapPool, heap, AcceptQueue, skt, posted, iocp, job, pc, target, buf,
          requests, acceptFailed, deaf>>

Threads == Workers \cup Accepters \cup Senders

Init == /\ ovMem = [ov \in Ovs |-> ZeroMemory]
        /\ ovLapPool \in SetToSeqs(PoolOvs)
        /\ heap = {}
        /\ AcceptQueue \in SetToSeqs(Slots)
        /\ skt = [s \in Slots |-> "fresh"]
        /\ posted = {}
        /\ iocp = <<>>
        /\ job = [w \in Workers |-> NoJob]
        /\ pc = [t \in Threads |-> "idle"]
        /\ target = [t \in Accepters \cup Senders |-> NoSlot]
        /\ buf = [t \in Workers \cup Senders |-> NoOv]
        /\ requests = 0 /\ acceptFailed = {} /\ deaf = {}

Goto(t, l) == pc' = [pc EXCEPT ![t] = l]

-----------------------------------------------------------------------------
(* The operating system and the clients.                                    *)

\* The completion of operation o, with res "bytes" (done, > 0 bytes), "zero"
\* (done, 0 bytes) or "fail" (GetQueuedCompletionStatus returns FALSE).
Completion(o, res) == [ov |-> o.ov, slot |-> o.slot, res |-> res, old |-> FALSE]

Finish(o, res) == /\ posted' = posted \ {o}
                  /\ iocp' = Append(iocp, Completion(o, res))
                  /\ acceptFailed' =
                       IF o.op = "ACCEPT" /\ res = "fail" THEN acceptFailed \cup {o.slot} ELSE acceptFailed
                  /\ UNCHANGED <<ovMem, ovLapPool, heap, AcceptQueue, job, pc, target, buf,
                                 requests, deaf>>

Connect(o) == o.op = "ACCEPT" /\ Finish(o, "zero") /\ skt' = [skt EXCEPT ![o.slot] = "connected"]

ConnectFails(o) == o.op = "ACCEPT" /\ AcceptMayFail /\ Finish(o, "fail") /\ UNCHANGED skt

Data(o) == /\ o.op = "RECV" /\ skt[o.slot] \in {"connected", "active"}
           /\ Finish(o, "bytes") /\ skt' = [skt EXCEPT ![o.slot] = "active"]

Sent(o) == o.op = "SEND" /\ Finish(o, "bytes") /\ UNCHANGED skt

\* A close (recv completes with 0 bytes) or a reset (it fails); sends fail.
Gone(o) == /\ o.op \in {"RECV", "SEND"} /\ skt[o.slot] = "gone"
           /\ \E res \in {"zero", "fail"} : (o.op = "SEND" => res = "fail") /\ Finish(o, res)
           /\ UNCHANGED skt

Leave(s) == /\ PeerLeaves /\ skt[s] \in {"connected", "active"}
            /\ skt' = [skt EXCEPT ![s] = "gone"]
            /\ UNCHANGED <<ovMem, ovLapPool, heap, AcceptQueue, posted, iocp, job, pc, target,
                           buf, requests, acceptFailed, deaf>>

-----------------------------------------------------------------------------
(* AccepterThread.                                                          *)

\* Mutant: the slot is read and not popped.
PeekAccept(a) ==
  /\ pc[a] = "idle" /\ AcceptQueue # <<>>
  /\ Len(ovLapPool) <= MaxPool
  /\ target' = [target EXCEPT ![a] = Head(AcceptQueue)]
  /\ Goto(a, "post")
  /\ UNCHANGED <<ovMem, ovLapPool, heap, AcceptQueue, skt, posted, iocp, job, buf, requests,
                 acceptFailed, deaf>>

PopAccept(a) ==
  /\ pc[a] = "idle" /\ AcceptQueue # <<>>
  /\ Len(ovLapPool) <= MaxPool
  /\ target' = [target EXCEPT ![a] = Head(AcceptQueue)]
  /\ AcceptQueue' = Tail(AcceptQueue)
  /\ Goto(a, "post")
  /\ UNCHANGED <<ovMem, ovLapPool, heap, skt, posted, iocp, job, buf, requests, acceptFailed, deaf>>

\* AcceptEx needs an unbound, unconnected socket with no accept pending on it.
CanAccept(s) == skt[s] = "fresh" /\ ~\E o \in posted : o.op = "ACCEPT" /\ o.slot = s

\* Mutant: the slot's number is dropped before it is pushed back.
PostAcceptDrop(a) ==
  LET s == target[a] IN
  /\ pc[a] = "post"
  /\ ovMem' = [ovMem EXCEPT ![AcceptOv(s)] = [taskType |-> "ACCEPT", connObjNum |-> s]]
  /\ target' = [target EXCEPT ![a] = NoSlot]
  /\ \/ /\ CanAccept(s)
        /\ posted' = posted \cup {[op |-> "ACCEPT", ov |-> AcceptOv(s), slot |-> s]}
        /\ Goto(a, "idle")
     \/ /\ ~CanAccept(s) \/ AcceptMayFail
        /\ Goto(a, "pushBack")
        /\ UNCHANGED posted
  /\ UNCHANGED <<ovLapPool, heap, AcceptQueue, skt, iocp, job, buf, requests, acceptFailed, deaf>>

PostAccept(a) ==
  LET s == target[a] IN
  /\ pc[a] = "post"
  /\ ovMem' = [ovMem EXCEPT ![AcceptOv(s)] = [taskType |-> "ACCEPT", connObjNum |-> s]]
  /\ \/ /\ CanAccept(s)
        /\ posted' = posted \cup {[op |-> "ACCEPT", ov |-> AcceptOv(s), slot |-> s]}
        /\ target' = [target EXCEPT ![a] = NoSlot]
        /\ Goto(a, "idle")
     \/ /\ ~CanAccept(s) \/ AcceptMayFail
        /\ Goto(a, "pushBack")
        /\ UNCHANGED <<posted, target>>
  /\ UNCHANGED <<ovLapPool, heap, AcceptQueue, skt, iocp, job, buf, requests, acceptFailed, deaf>>

PushBack(a) ==
  /\ pc[a] = "pushBack"
  /\ AcceptQueue' = Append(AcceptQueue, target[a])
  /\ target' = [target EXCEPT ![a] = NoSlot]
  /\ Goto(a, "idle")
  /\ UNCHANGED <<ovMem, ovLapPool, heap, skt, posted, iocp, job, buf, requests, acceptFailed, deaf>>

-----------------------------------------------------------------------------
(* WorkThread.                                                              *)

\* Mutant: a receive is not posted again after the first.
BranchOnce(c) ==
  LET task == ovMem[c.ov].taskType IN
  IF c.res = "fail" \/ (c.res = "zero" /\ task # "ACCEPT") THEN "disconnect"
  ELSE IF task = "ACCEPT" THEN "recv" ELSE "return"

\* What a worker does with completion c, from the contents of its block.
Branch(c) ==
  LET task == ovMem[c.ov].taskType IN
  IF c.res = "fail" \/ (c.res = "zero" /\ task # "ACCEPT") THEN "disconnect"
  ELSE IF task \in {"ACCEPT", "RECV", "NEWRECV"} THEN "recv" ELSE "return"

Dequeue(w) ==
  /\ pc[w] = "idle" /\ iocp # <<>>
  /\ LET c == Head(iocp) m == ovMem[c.ov] IN
       /\ job' = [job EXCEPT ![w] = [ov |-> c.ov, user |-> m.connObjNum, task |-> m.taskType,
                                     slot |-> c.slot, old |-> c.old]]
       /\ Goto(w, Branch(c))
  /\ iocp' = Tail(iocp)
  /\ UNCHANGED <<ovMem, ovLapPool, heap, AcceptQueue, skt, posted, target, buf, requests,
                 acceptFailed, deaf>>

\* Mutant: PushSendMsg's own blocks go to the pool.
ReturnOvLapAll(w) ==
  /\ pc[w] \in {"return", "disconnect"}
  /\ ovMem' = [ovMem EXCEPT ![job[w].ov] = ZeroMemory]
  /\ ovLapPool' = Append(ovLapPool, job[w].ov)
  /\ IF pc[w] = "disconnect"
     THEN Goto(w, "reset") /\ UNCHANGED job
     ELSE Goto(w, "idle") /\ job' = [job EXCEPT ![w] = NoJob]
  /\ UNCHANGED <<heap, AcceptQueue, skt, posted, iocp, target, buf, requests, acceptFailed, deaf>>

\* returnOvLap, or delete for a block that is not from the pool: ends the
\* RECV and SEND branches and begins the disconnect branch.  (SendComplete,
\* the rest of the SEND branches, is in SendQueue.)
ReturnOvLap(w) ==
  LET ov == job[w].ov IN
  /\ pc[w] \in {"return", "disconnect"}
  /\ IF job[w].task \in {"NEWRECV", "NEWSEND"}
     THEN heap' = heap \ {ov} /\ UNCHANGED <<ovMem, ovLapPool>>
     ELSE /\ ovMem' = [ovMem EXCEPT ![ov] = ZeroMemory]
          /\ ovLapPool' = Append(ovLapPool, ov)
          /\ UNCHANGED heap
  /\ IF pc[w] = "disconnect"
     THEN Goto(w, "reset") /\ UNCHANGED job
     ELSE Goto(w, "idle") /\ job' = [job EXCEPT ![w] = NoJob]
  /\ UNCHANGED <<AcceptQueue, skt, posted, iocp, target, buf, requests, acceptFailed, deaf>>

\* ConnUserRecv, first half: getOvLap.  With an empty pool the new block is
\* never used, WSARecv gets the address of a null pointer's wsaBuf and fails.
GetRecvOv(w) ==
  /\ pc[w] = "recv"
  /\ IF ovLapPool # <<>>
     THEN LET ov == Head(ovLapPool) IN
          /\ buf' = [buf EXCEPT ![w] = ov]
          /\ ovLapPool' = Tail(ovLapPool)
          /\ ovMem' = [ovMem EXCEPT ![ov] = [taskType |-> "RECV", connObjNum |-> job[w].user]]
          /\ Goto(w, "wsarecv")
     ELSE Goto(w, "recvFailed") /\ UNCHANGED <<buf, ovLapPool, ovMem>>
  /\ UNCHANGED <<heap, AcceptQueue, skt, posted, iocp, job, target, requests, acceptFailed, deaf>>

\* Mutants: acceptOvlap is returned to the pool like any block; ERROR_IO_PENDING
\* counts as a failure.
WSARecvReturn(w) ==
  LET s == job[w].user IN
  /\ pc[w] = "wsarecv"
  /\ \/ /\ skt[s] # "fresh"
        /\ posted' = posted \cup {[op |-> "RECV", ov |-> buf[w], slot |-> s]}
        /\ Goto(w, "return")
     \/ /\ skt[s] = "fresh" \/ (skt[s] = "gone" /\ PeerAborts)
        /\ Goto(w, "recvFailed")
        /\ UNCHANGED posted
  /\ buf' = [buf EXCEPT ![w] = NoOv]
  /\ UNCHANGED <<ovMem, ovLapPool, heap, AcceptQueue, skt, iocp, job, target, requests,
                 acceptFailed, deaf>>

WSARecvPending(w) ==
  LET s == job[w].user IN
  /\ pc[w] = "wsarecv"
  /\ posted' = IF skt[s] # "fresh" THEN posted \cup {[op |-> "RECV", ov |-> buf[w], slot |-> s]}
               ELSE posted
  /\ Goto(w, "recvFailed")
  /\ buf' = [buf EXCEPT ![w] = NoOv]
  /\ UNCHANGED <<ovMem, ovLapPool, heap, AcceptQueue, skt, iocp, job, target, requests,
                 acceptFailed, deaf>>

\* ConnUserRecv, second half.  A block whose WSARecv fails is not returned.
WSARecv(w) ==
  LET s == job[w].user IN
  /\ pc[w] = "wsarecv"
  /\ \/ /\ skt[s] # "fresh"
        /\ posted' = posted \cup {[op |-> "RECV", ov |-> buf[w], slot |-> s]}
        /\ Goto(w, IF job[w].task = "ACCEPT" THEN "idle" ELSE "return")
        /\ job' = [job EXCEPT ![w] = IF @.task = "ACCEPT" THEN NoJob ELSE @]
     \/ /\ skt[s] = "fresh" \/ (skt[s] = "gone" /\ PeerAborts)
        /\ Goto(w, "recvFailed")
        /\ UNCHANGED <<posted, job>>
  /\ buf' = [buf EXCEPT ![w] = NoOv]
  /\ UNCHANGED <<ovMem, ovLapPool, heap, AcceptQueue, skt, iocp, target, requests,
                 acceptFailed, deaf>>

\* ConnUserRecv returned false: the ACCEPT branch resets the slot, the RECV
\* branches ignore it.
RecvFailed(w) ==
  /\ pc[w] = "recvFailed"
  /\ Goto(w, IF job[w].task = "ACCEPT" THEN "reset" ELSE "return")
  /\ deaf' = IF job[w].task = "ACCEPT" THEN deaf ELSE deaf \cup {job[w].user}
  /\ UNCHANGED <<ovMem, ovLapPool, heap, AcceptQueue, skt, posted, iocp, job, target, buf,
                 requests, acceptFailed>>

\* Completions and jobs of slot s now concern a socket that is closed.
Outdate(c, s) == IF c.slot = s THEN [c EXCEPT !.old = TRUE] ELSE c

\* Reset(): closing the socket fails what is pending on it, in any order; the
\* slot gets a new socket.
Reset(w) ==
  LET s == job[w].user
      aborted == {o \in posted : o.slot = s}
  IN
  /\ pc[w] = "reset"
  /\ skt' = [skt EXCEPT ![s] = "fresh"]
  /\ posted' = posted \ aborted
  /\ \E q \in SetToSeqs({Completion(o, "fail") : o \in aborted}) :
       iocp' = [i \in DOMAIN (iocp \o q) |-> Outdate((iocp \o q)[i], s)]
  /\ job' = [v \in Workers |-> IF v = w \/ job[v] = NoJob THEN job[v] ELSE Outdate(job[v], s)]
  /\ Goto(w, "requeue")
  /\ acceptFailed' = acceptFailed \cup {o.slot : o \in {x \in aborted : x.op = "ACCEPT"}}
  /\ deaf' = deaf \ {s}
  /\ UNCHANGED <<ovMem, ovLapPool, heap, AcceptQueue, target, buf, requests>>

\* Mutants: the slot is not pushed; no `continue' after the disconnect.
RequeueNothing(w) ==
  /\ pc[w] = "requeue"
  /\ job' = [job EXCEPT ![w] = NoJob]
  /\ Goto(w, "idle")
  /\ UNCHANGED <<ovMem, ovLapPool, heap, AcceptQueue, skt, posted, iocp, target, buf, requests,
                 acceptFailed, deaf>>

RequeueAndReturn(w) ==
  /\ pc[w] = "requeue"
  /\ AcceptQueue' = Append(AcceptQueue, job[w].user)
  /\ Goto(w, "return")
  /\ UNCHANGED <<ovMem, ovLapPool, heap, skt, posted, iocp, job, target, buf, requests,
                 acceptFailed, deaf>>

Requeue(w) ==
  /\ pc[w] = "requeue"
  /\ AcceptQueue' = Append(AcceptQueue, job[w].user)
  /\ job' = [job EXCEPT ![w] = NoJob]
  /\ Goto(w, "idle")
  /\ UNCHANGED <<ovMem, ovLapPool, heap, skt, posted, iocp, target, buf, requests,
                 acceptFailed, deaf>>

-----------------------------------------------------------------------------
(* PushSendMsg and ProcSend, on a Redis thread.  How many messages are      *)
(* queued and when ProcSend runs is in SendQueue.                           *)

\* ProcessLogin begins, for a request the client sent.  By the time it answers
\* the slot may have been reset.
TakeRequest(r, s) ==
  /\ pc[r] = "idle" /\ skt[s] = "active" /\ requests < MaxRequests
  /\ requests' = requests + 1
  /\ target' = [target EXCEPT ![r] = s]
  /\ Goto(r, "answer")
  /\ UNCHANGED <<ovMem, ovLapPool, heap, AcceptQueue, skt, posted, iocp, job, buf,
                 acceptFailed, deaf>>

\* Mutant: the block is read and not popped.
PeekSendOv(r) ==
  /\ pc[r] = "answer" /\ ovLapPool # <<>>
  /\ buf' = [buf EXCEPT ![r] = Head(ovLapPool)]
  /\ ovMem' = [ovMem EXCEPT ![Head(ovLapPool)] = [taskType |-> "SEND", connObjNum |-> target[r]]]
  /\ Goto(r, "send")
  /\ UNCHANGED <<ovLapPool, heap, AcceptQueue, skt, posted, iocp, job, target, requests,
                 acceptFailed, deaf>>

GetSendOv(r) ==
  /\ pc[r] = "answer"
  /\ \E ov \in IF ovLapPool # <<>> THEN {Head(ovLapPool)} ELSE HeapOvs \ heap :
       /\ buf' = [buf EXCEPT ![r] = ov]
       /\ ovLapPool' = IF ovLapPool # <<>> THEN Tail(ovLapPool) ELSE <<>>
       /\ heap' = IF ovLapPool # <<>> THEN heap ELSE heap \cup {ov}
       /\ ovMem' = [ovMem EXCEPT ![ov] =
                      [taskType |-> IF ovLapPool # <<>> THEN "SEND" ELSE "NEWSEND",
                       connObjNum |-> target[r]]]
  /\ Goto(r, "send")
  /\ UNCHANGED <<AcceptQueue, skt, posted, iocp, job, target, requests, acceptFailed, deaf>>

\* A failed WSASend is not noticed; its block is not returned.
WSASend(r) ==
  LET s == target[r] IN
  /\ pc[r] = "send"
  /\ posted' = IF skt[s] = "fresh" THEN posted
               ELSE posted \cup {[op |-> "SEND", ov |-> buf[r], slot |-> s]}
  /\ target' = [target EXCEPT ![r] = NoSlot]
  /\ buf' = [buf EXCEPT ![r] = NoOv]
  /\ Goto(r, "idle")
  /\ UNCHANGED <<ovMem, ovLapPool, heap, AcceptQueue, skt, iocp, job, requests, acceptFailed, deaf>>

-----------------------------------------------------------------------------
AccepterStep(a) == PopAccept(a) \/ PostAccept(a) \/ PushBack(a)
WorkerStep(w) == ReturnOvLap(w) \/ GetRecvOv(w) \/ WSARecv(w) \/ RecvFailed(w)
                   \/ Reset(w) \/ Requeue(w)
SenderStep(r) == GetSendOv(r) \/ WSASend(r) \/ \E s \in Slots : TakeRequest(r, s)
Client == \/ \E o \in posted : Connect(o) \/ ConnectFails(o) \/ Data(o) \/ Sent(o) \/ Gone(o)
          \/ \E s \in Slots : Leave(s)

Next == \/ \E a \in Accepters : AccepterStep(a)
        \/ \E w \in Workers : Dequeue(w) \/ WorkerStep(w)
        \/ \E r \in Senders : SenderStep(r)
        \/ Client

Spec == Init /\ [][Next]_vars

\* Threads run, completions are dequeued in FIFO order, and the operating
\* system completes the operations of a client that is gone.  Clients need
\* not come, speak or leave.
Fairness == /\ \A a \in Accepters : WF_vars(AccepterStep(a))
            /\ \A w \in Workers : WF_vars(WorkerStep(w))
            /\ WF_vars(\E w \in Workers : Dequeue(w))
            /\ \A s \in Slots : WF_vars(\E o \in posted : o.slot = s /\ Gone(o))

FairSpec == Spec /\ Fairness

-----------------------------------------------------------------------------
(* Properties.                                                              *)

TypeOK == /\ ovMem \in [Ovs -> [taskType : TaskType, connObjNum : Slots]]
          /\ ovLapPool \in Seq(Ovs) /\ AcceptQueue \in Seq(Slots)
          /\ heap \subseteq HeapOvs
          /\ skt \in [Slots -> {"fresh", "connected", "active", "gone"}]
          /\ posted \subseteq [op : {"ACCEPT", "RECV", "SEND"}, ov : Ovs, slot : Slots]
          /\ iocp \in Seq([ov : Ovs, slot : Slots, res : {"bytes", "zero", "fail"}, old : BOOLEAN])
          /\ job \in [Workers -> [ov : Ovs, user : Slots, task : TaskType, slot : Slots, old : BOOLEAN]
                                   \cup {NoJob}]
          /\ pc \in [Threads -> {"idle", "post", "pushBack", "recv", "wsarecv", "recvFailed",
                                 "return", "disconnect", "reset", "requeue", "answer", "send"}]
          /\ target \in [Accepters \cup Senders -> Slots \cup {NoSlot}]
          /\ buf \in [Workers \cup Senders -> Ovs \cup {NoOv}]
          /\ requests \in 0..MaxRequests /\ acceptFailed \subseteq Slots /\ deaf \subseteq Slots

\* Worker w will still use or return the block of its completion.
Uses(w, ov) == /\ pc[w] \in {"recv", "wsarecv", "recvFailed", "return", "disconnect"}
               /\ job[w].ov = ov

\* The places where a block is: in the pool, given to the system, in the
\* completion queue, with the worker of its completion, with the thread that
\* took it from the pool.
Places(ov) ==
  {<<"pool", i>> : i \in {k \in DOMAIN ovLapPool : ovLapPool[k] = ov}}
    \cup {<<"posted", o>> : o \in {x \in posted : x.ov = ov}}
    \cup {<<"iocp", i>> : i \in {k \in DOMAIN iocp : iocp[k].ov = ov}}
    \cup {<<"job", w>> : w \in {x \in Workers : Uses(x, ov)}}
    \cup {<<"buf", t>> : t \in {x \in Workers \cup Senders : buf[x] = ov}}

\* A block of the pool or of the heap serves one operation at a time: it is in
\* at most one place, whichever thread returned it last and however operations
\* fail (getOvLap, returnOvLap, WorkThread, ConnUserRecv, PushSendMsg).
OneUsePerBlock == \A ov \in PoolOvs \cup HeapOvs : \A p, q \in Places(ov) : p = q

\* A block PushSendMsg allocated is deleted by the worker of its completion and
\* never used afterwards, nor does it enter the pool, where it would be taken
\* for a pool block and later deleted by nobody (WorkThread's NEWSEND branches).
HeapBlocksLive ==
  \A ov \in HeapOvs : Places(ov) # {} =>
    ov \in heap /\ \A i \in DOMAIN ovLapPool : ovLapPool[i] # ov

\* The pool holds blocks of its own, and the acceptOvlap of a ConnUser only after
\* an accept on that slot failed or was aborted: the branch "User Disconnected"
\* then returns it as "taken from the pool" (OutGameLoginServer.cpp:182), and it
\* serves two users from there on.  No other order of failures lets one in.
StraysFromFailedAccepts ==
  \A i \in DOMAIN ovLapPool : ovLapPool[i] \in PoolOvs \cup {AcceptOv(s) : s \in acceptFailed}

\* What carries slot s on to its next accept.
Carriers(s) ==
  {<<"queue", i>> : i \in {k \in DOMAIN AcceptQueue : AcceptQueue[k] = s}}
    \cup {<<"accepter", a>> : a \in {x \in Accepters : target[x] = s}}
    \cup {<<"posted", o>> : o \in {x \in posted : x.slot = s /\ x.op # "SEND"}}
    \cup {<<"iocp", i>> : i \in {k \in DOMAIN iocp : iocp[k].slot = s}}
    \cup {<<"worker", w>> : w \in {x \in Workers : pc[x] \notin {"idle", "return"}
                                                    /\ job[x].user = s}}

\* A slot is in one place on its way round AcceptQueue, the accepters, the system
\* and the workers, never doubled; it drops out in one way only, when ConnUserRecv
\* fails for a client that has spoken, and then nothing brings it back (no sends,
\* no failing accepts: AcceptQueue, AccepterThread, WorkThread, Reset).
EachSlotOnce == \A s \in Slots : Cardinality(Carriers(s)) = IF s \in deaf THEN 0 ELSE 1

\* The branch "User Disconnected" (OutGameLoginServer.cpp:176) resets the slot
\* of the operation that failed, and only while the client it was for is still
\* the slot's: never the slot's next client, never another slot's.
ResetsOwnUser ==
  \A w \in Workers : pc[w] = "reset" => ~job[w].old /\ job[w].user = job[w].slot

\* A connected client goes unheard in one way only, the failure of ConnUserRecv
\* in a RECV branch; otherwise a receive is pending on its socket, or completed,
\* or a worker is about to post one or to reset the slot.
UnheardOnlyDeaf ==
  \A s \in Slots : skt[s] # "fresh" /\ s \notin deaf =>
    \/ \E o \in posted : o.slot = s /\ o.op = "RECV"
    \/ \E i \in DOMAIN iocp : iocp[i].slot = s
    \/ \E w \in Workers : /\ pc[w] \in {"recv", "wsarecv", "recvFailed", "disconnect", "reset"}
                          /\ job[w].user = s

\* A connected client is never left unheard, and so ConnUserRecv never fails.
\* (The comment at ConnUser.h:130: a new block is allocated if the pool is empty.)
ClientHeard ==
  \A s \in Slots : skt[s] # "fresh" =>
    \/ \E o \in posted : o.slot = s /\ o.op = "RECV"
    \/ \E i \in DOMAIN iocp : iocp[i].slot = s
    \/ \E w \in Workers : /\ pc[w] \in {"recv", "wsarecv", "disconnect", "reset"}
                          /\ job[w].user = s

Listening(s) == \E o \in posted : o.slot = s /\ o.op = "ACCEPT"

\* A slot whose client left accepts another client in the end, whether or not the
\* first receive of a client fails; unless it went deaf (ConnUserRecv in a RECV
\* branch), when the client's leaving is never noticed.
SlotsRecycled == \A s \in Slots : skt[s] = "gone" ~> Listening(s) \/ s \in deaf
=============================================================================

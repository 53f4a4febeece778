-------------------------- MODULE Connections_proofs --------------------------
(***************************************************************************)
(* Theorems about Connections, for every number of slots, blocks and        *)
(* threads.                                                                 *)
(***************************************************************************)
EXTENDS Connections, FiniteSetTheorems, TLAPS

Mems == [taskType : TaskType, connObjNum : Slots]
Ops == [op : {"ACCEPT", "RECV", "SEND"}, ov : Ovs, slot : Slots]
Completions == [ov : Ovs, slot : Slots, res : {"bytes", "zero", "fail"}, old : BOOLEAN]
Jobs == [ov : Ovs, user : Slots, task : TaskType, slot : Slots, old : BOOLEAN]
States == {"fresh", "connected", "active", "gone"}
PlacesOf == {"idle", "post", "pushBack", "recv", "wsarecv", "recvFailed", "return", "disconnect",
             "reset", "requeue", "answer", "send"}

\* TypeOK, by the names above.
Types == /\ ovMem \in [Ovs -> Mems]
         /\ ovLapPool \in Seq(Ovs) /\ AcceptQueue \in Seq(Slots)
         /\ heap \subseteq HeapOvs
         /\ skt \in [Slots -> States]
         /\ posted \subseteq Ops
         /\ iocp \in Seq(Completions)
         /\ job \in [Workers -> Jobs \cup {NoJob}]
         /\ pc \in [Threads -> PlacesOf]
         /\ target \in [Accepters \cup Senders -> Slots \cup {NoSlot}]
         /\ buf \in [Workers \cup Senders -> Ovs \cup {NoOv}]
         /\ requests \in 0..MaxRequests /\ acceptFailed \subseteq Slots /\ deaf \subseteq Slots

\* What a thread holds at its place.
ThreadsOK ==
  /\ \A w \in Workers : /\ pc[w] # "idle" => job[w] \in Jobs
                        /\ pc[w] = "wsarecv" => buf[w] \in Ovs
  /\ \A a \in Accepters : pc[a] \in {"post", "pushBack"} => target[a] \in Slots
  /\ \A r \in Senders : /\ pc[r] \in {"answer", "send"} => target[r] \in Slots
                        /\ pc[r] = "send" => buf[r] \in Ovs

\* The places where block ov is.
Pooled(ov) == \E k \in 1..Len(ovLapPool) : ovLapPool[k] = ov
Posted(ov) == \E o \in posted : o.ov = ov
Queued(ov) == \E k \in 1..Len(iocp) : iocp[k].ov = ov
Worked(ov) == \E w \in Workers : Uses(w, ov)
Held(ov) == \E t \in Workers \cup Senders : buf[t] = ov

\* It is there once ...
PooledOnce(ov) == \A j, k \in 1..Len(ovLapPool) : ovLapPool[j] = ov /\ ovLapPool[k] = ov => j = k
PostedOnce(ov) == \A o, p \in posted : o.ov = ov /\ p.ov = ov => o = p
QueuedOnce(ov) == \A j, k \in 1..Len(iocp) : iocp[j].ov = ov /\ iocp[k].ov = ov => j = k
WorkedOnce(ov) == \A v, w \in Workers : Uses(v, ov) /\ Uses(w, ov) => v = w
HeldOnce(ov) == \A t, u \in Workers \cup Senders : buf[t] = ov /\ buf[u] = ov => t = u

Once(ov) == PooledOnce(ov) /\ PostedOnce(ov) /\ QueuedOnce(ov) /\ WorkedOnce(ov) /\ HeldOnce(ov)

\* ... and in no two of them.
Apart(ov) ==
  /\ Pooled(ov) => ~Posted(ov) /\ ~Queued(ov) /\ ~Worked(ov) /\ ~Held(ov)
  /\ Posted(ov) => ~Queued(ov) /\ ~Worked(ov) /\ ~Held(ov)
  /\ Queued(ov) => ~Worked(ov) /\ ~Held(ov)
  /\ Worked(ov) => ~Held(ov)

Tracked == PoolOvs \cup HeapOvs
Blocks == \A ov \in Tracked : Once(ov) /\ Apart(ov)

\* A block of the heap is allocated, and says so, wherever it is; it is never in
\* the pool.
HeapOK ==
  \A ov \in HeapOvs :
    /\ ~Pooled(ov)
    /\ Posted(ov) \/ Queued(ov) \/ Worked(ov) \/ Held(ov) => ov \in heap
    /\ Posted(ov) \/ Queued(ov) \/ Held(ov) => ovMem[ov].taskType = "NEWSEND"
    /\ \A w \in Workers : Uses(w, ov) => job[w].task = "NEWSEND"

IInv == Types /\ ThreadsOK /\ IsFiniteSet(posted) /\ Blocks /\ HeapOK

-----------------------------------------------------------------------------
(* Records.                                                                 *)

LEMMA TypesTypeOK == TypeOK <=> Types
  BY Zenon DEF TypeOK, Types, Mems, Ops, Completions, Jobs, States, PlacesOf

LEMMA OvsFacts ==
  /\ Tracked \subseteq Ovs /\ NoOv \notin Ovs
  /\ \A s \in Slots : AcceptOv(s) \in Ovs /\ AcceptOv(s) \notin Tracked
  BY OvsAssumption DEF Tracked, Ovs, AcceptOvs

LEMMA MemType ==
  ASSUME NEW k \in TaskType, NEW s \in Slots
  PROVE  /\ [taskType |-> k, connObjNum |-> s] \in Mems
         /\ [taskType |-> k, connObjNum |-> s].taskType = k
  BY DEF Mems

LEMMA MemFields ==
  ASSUME NEW m \in Mems
  PROVE  m.taskType \in TaskType /\ m.connObjNum \in Slots
  BY DEF Mems

LEMMA ZeroMemoryType == ZeroMemory \in Mems
  BY SlotsAssumption DEF ZeroMemory, Mems, TaskType

LEMMA OpType ==
  ASSUME NEW k \in {"ACCEPT", "RECV", "SEND"}, NEW ov \in Ovs, NEW s \in Slots
  PROVE  /\ [op |-> k, ov |-> ov, slot |-> s] \in Ops
         /\ [op |-> k, ov |-> ov, slot |-> s].ov = ov
  BY DEF Ops

LEMMA OpFields ==
  ASSUME NEW o \in Ops
  PROVE  o.ov \in Ovs /\ o.slot \in Slots
  BY DEF Ops

LEMMA CompletionType ==
  ASSUME NEW o \in Ops, NEW res \in {"bytes", "zero", "fail"}
  PROVE  Completion(o, res) \in Completions /\ Completion(o, res).ov = o.ov
  BY DEF Completion, Completions, Ops

LEMMA CompletionFields ==
  ASSUME NEW c \in Completions
  PROVE  c.ov \in Ovs /\ c.slot \in Slots /\ c.old \in BOOLEAN
  BY DEF Completions

LEMMA JobType ==
  ASSUME NEW c \in Completions, NEW m \in Mems
  PROVE  LET j == [ov |-> c.ov, user |-> m.connObjNum, task |-> m.taskType, slot |-> c.slot,
                   old |-> c.old]
         IN j \in Jobs /\ j.ov = c.ov /\ j.task = m.taskType
  BY DEF Jobs, Completions, Mems

LEMMA JobFields ==
  ASSUME NEW j \in Jobs
  PROVE  j.ov \in Ovs /\ j.user \in Slots /\ j.task \in TaskType /\ j.slot \in Slots
  BY DEF Jobs

LEMMA OutdateCompletion ==
  ASSUME NEW c \in Completions, NEW s
  PROVE  /\ Outdate(c, s) \in Completions
         /\ Outdate(c, s).ov = c.ov /\ Outdate(c, s).res = c.res
  BY DEF Outdate, Completions

LEMMA OutdateJob ==
  ASSUME NEW j \in Jobs, NEW s
  PROVE  Outdate(j, s) \in Jobs /\ Outdate(j, s).ov = j.ov /\ Outdate(j, s).task = j.task
  BY DEF Outdate, Jobs

-----------------------------------------------------------------------------
(* Places.                                                                  *)

LEMMA PoolPop ==
  ASSUME ovLapPool \in Seq(Ovs), ovLapPool # <<>>, ovLapPool' = Tail(ovLapPool)
  PROVE  /\ ovLapPool' \in Seq(Ovs) /\ Head(ovLapPool) \in Ovs /\ Pooled(Head(ovLapPool))
         /\ \A ov : PooledOnce(ov) =>
              /\ PooledOnce(ov)'
              /\ Pooled(ov)' => Pooled(ov) /\ ov # Head(ovLapPool)
<1>1. Len(ovLapPool') = Len(ovLapPool) - 1 /\ Len(ovLapPool) \in Nat \ {0}
  OBVIOUS
<1>2. \A k \in 1..Len(ovLapPool') : ovLapPool'[k] = ovLapPool[k + 1] /\ k + 1 \in 1..Len(ovLapPool)
  BY <1>1
<1>3. Head(ovLapPool) = ovLapPool[1] /\ 1 \in 1..Len(ovLapPool)
  BY <1>1
<1>4. Pooled(Head(ovLapPool))
  BY <1>3 DEF Pooled
<1>5. ASSUME NEW ov, PooledOnce(ov)
      PROVE  PooledOnce(ov)' /\ (Pooled(ov)' => Pooled(ov) /\ ov # Head(ovLapPool))
  <2>1. PooledOnce(ov)'
    <3> SUFFICES ASSUME NEW j \in 1..Len(ovLapPool'), NEW k \in 1..Len(ovLapPool'),
                        ovLapPool'[j] = ov, ovLapPool'[k] = ov
                 PROVE  j = k
      BY DEF PooledOnce
    <3>1. j + 1 = k + 1
      BY <1>2, <1>5 DEF PooledOnce
    <3> QED BY <1>1, <3>1
  <2>2. ASSUME NEW k \in 1..Len(ovLapPool'), ovLapPool'[k] = ov
        PROVE  Pooled(ov) /\ ov # Head(ovLapPool)
    <3>1. k + 1 \in 1..Len(ovLapPool) /\ ovLapPool[k + 1] = ov
      BY <1>2, <2>2
    <3>2. k + 1 # 1
      BY <1>1
    <3> QED BY <1>3, <1>5, <3>1, <3>2 DEF Pooled, PooledOnce
  <2> QED BY <2>1, <2>2 DEF Pooled
<1> QED BY <1>3, <1>4, <1>5

LEMMA PoolPush ==
  ASSUME ovLapPool \in Seq(Ovs), NEW b \in Ovs, ovLapPool' = Append(ovLapPool, b)
  PROVE  /\ ovLapPool' \in Seq(Ovs)
         /\ \A ov : /\ Pooled(ov)' => Pooled(ov) \/ ov = b
                    /\ PooledOnce(ov) /\ (ov = b => ~Pooled(ov)) => PooledOnce(ov)'
<1>1. /\ Len(ovLapPool') = Len(ovLapPool) + 1 /\ Len(ovLapPool) \in Nat
      /\ ovLapPool' \in Seq(Ovs)
  OBVIOUS
<1>2. /\ \A k \in 1..Len(ovLapPool) : ovLapPool'[k] = ovLapPool[k]
      /\ ovLapPool'[Len(ovLapPool) + 1] = b
  OBVIOUS
<1>3. \A k \in 1..Len(ovLapPool') : k \in 1..Len(ovLapPool) \/ k = Len(ovLapPool) + 1
  BY <1>1
<1>4. ASSUME NEW ov
      PROVE  /\ Pooled(ov)' => Pooled(ov) \/ ov = b
             /\ PooledOnce(ov) /\ (ov = b => ~Pooled(ov)) => PooledOnce(ov)'
  BY <1>2, <1>3 DEF Pooled, PooledOnce
<1> QED BY <1>1, <1>4

LEMMA IocpPop ==
  ASSUME iocp \in Seq(Completions), iocp # <<>>, iocp' = Tail(iocp)
  PROVE  /\ iocp' \in Seq(Completions) /\ Head(iocp) \in Completions /\ Queued(Head(iocp).ov)
         /\ \A ov : QueuedOnce(ov) =>
              /\ QueuedOnce(ov)'
              /\ Queued(ov)' => Queued(ov) /\ ov # Head(iocp).ov
<1>1. Len(iocp') = Len(iocp) - 1 /\ Len(iocp) \in Nat \ {0}
  OBVIOUS
<1>2. \A k \in 1..Len(iocp') : iocp'[k] = iocp[k + 1] /\ k + 1 \in 1..Len(iocp)
  BY <1>1
<1>3. Head(iocp) = iocp[1] /\ 1 \in 1..Len(iocp)
  BY <1>1
<1>4. Queued(Head(iocp).ov)
  BY <1>3 DEF Queued
<1>5. ASSUME NEW ov, QueuedOnce(ov)
      PROVE  QueuedOnce(ov)' /\ (Queued(ov)' => Queued(ov) /\ ov # Head(iocp).ov)
  <2>1. QueuedOnce(ov)'
    <3> SUFFICES ASSUME NEW j \in 1..Len(iocp'), NEW k \in 1..Len(iocp'),
                        iocp'[j].ov = ov, iocp'[k].ov = ov
                 PROVE  j = k
      BY DEF QueuedOnce
    <3>1. j + 1 = k + 1
      BY <1>2, <1>5 DEF QueuedOnce
    <3> QED BY <1>1, <3>1
  <2>2. ASSUME NEW k \in 1..Len(iocp'), iocp'[k].ov = ov
        PROVE  Queued(ov) /\ ov # Head(iocp).ov
    <3>1. k + 1 \in 1..Len(iocp) /\ iocp[k + 1].ov = ov
      BY <1>2, <2>2
    <3>2. k + 1 # 1
      BY <1>1
    <3> QED BY <1>3, <1>5, <3>1, <3>2 DEF Queued, QueuedOnce
  <2> QED BY <2>1, <2>2 DEF Queued
<1> QED BY <1>3, <1>4, <1>5

LEMMA IocpAppend ==
  ASSUME iocp \in Seq(Completions), NEW c \in Completions, iocp' = Append(iocp, c)
  PROVE  /\ iocp' \in Seq(Completions)
         /\ \A ov : /\ Queued(ov)' => Queued(ov) \/ ov = c.ov
                    /\ QueuedOnce(ov) /\ (ov = c.ov => ~Queued(ov)) => QueuedOnce(ov)'
<1>1. /\ Len(iocp') = Len(iocp) + 1 /\ Len(iocp) \in Nat
      /\ iocp' \in Seq(Completions)
  OBVIOUS
<1>2. /\ \A k \in 1..Len(iocp) : iocp'[k] = iocp[k]
      /\ iocp'[Len(iocp) + 1] = c
  OBVIOUS
<1>3. \A k \in 1..Len(iocp') : k \in 1..Len(iocp) \/ k = Len(iocp) + 1
  BY <1>1
<1>4. ASSUME NEW ov
      PROVE  /\ Queued(ov)' => Queued(ov) \/ ov = c.ov
             /\ QueuedOnce(ov) /\ (ov = c.ov => ~Queued(ov)) => QueuedOnce(ov)'
  BY <1>2, <1>3 DEF Queued, QueuedOnce
<1> QED BY <1>1, <1>4

\* What thread t's block becomes.
LEMMA BufSet ==
  ASSUME Types, NEW t \in Workers \cup Senders, NEW b \in Ovs \cup {NoOv},
         buf' = [buf EXCEPT ![t] = b]
  PROVE  /\ buf' \in [Workers \cup Senders -> Ovs \cup {NoOv}]
         /\ buf'[t] = b /\ \A v \in (Workers \cup Senders) \ {t} : buf'[v] = buf[v]
         /\ \A ov : /\ Held(ov)' => Held(ov) \/ ov = b
                    /\ HeldOnce(ov) /\ (ov = b => ~Held(ov)) => HeldOnce(ov)'
                    /\ HeldOnce(ov) /\ ov = buf[t] /\ ov # b => ~Held(ov)'
<1>1. /\ buf' \in [Workers \cup Senders -> Ovs \cup {NoOv}]
      /\ buf'[t] = b /\ \A v \in (Workers \cup Senders) \ {t} : buf'[v] = buf[v]
  BY DEF Types
<1>2. ASSUME NEW ov
      PROVE  /\ Held(ov)' => Held(ov) \/ ov = b
             /\ HeldOnce(ov) /\ (ov = b => ~Held(ov)) => HeldOnce(ov)'
             /\ HeldOnce(ov) /\ ov = buf[t] /\ ov # b => ~Held(ov)'
  BY <1>1 DEF Held, HeldOnce
<1> QED BY <1>1, <1>2

LEMMA PostedLess ==
  ASSUME posted' \subseteq posted
  PROVE  \A ov : (Posted(ov)' => Posted(ov)) /\ (PostedOnce(ov) => PostedOnce(ov)')
  BY DEF Posted, PostedOnce

LEMMA PostedMore ==
  ASSUME NEW x, posted' = posted \cup {x}
  PROVE  \A ov : /\ Posted(ov)' => Posted(ov) \/ ov = x.ov
                 /\ PostedOnce(ov) /\ (ov = x.ov => ~Posted(ov)) => PostedOnce(ov)'
<1> SUFFICES ASSUME NEW ov
             PROVE  /\ Posted(ov)' => Posted(ov) \/ ov = x.ov
                    /\ PostedOnce(ov) /\ (ov = x.ov => ~Posted(ov)) => PostedOnce(ov)'
  OBVIOUS
<1> QED BY DEF Posted, PostedOnce

\* No worker uses a block it did not use.
LEMMA UsesLess ==
  ASSUME NEW ov, \A v \in Workers : Uses(v, ov)' => Uses(v, ov)
  PROVE  (Worked(ov)' => Worked(ov)) /\ (WorkedOnce(ov) => WorkedOnce(ov)')
<1>1. Worked(ov)' => Worked(ov)
  BY DEF Worked
<1>2. ASSUME WorkedOnce(ov), NEW v \in Workers, NEW w \in Workers, Uses(v, ov)', Uses(w, ov)'
      PROVE  v = w
  BY <1>2 DEF WorkedOnce
<1> QED BY <1>1, <1>2 DEF WorkedOnce

\* Nothing of the heap moves but from place to place.
LEMMA HeapKept ==
  ASSUME HeapOK, heap \subseteq heap',
         \A ov \in HeapOvs :
           /\ Pooled(ov)' => Pooled(ov)
           /\ (Posted(ov) \/ Queued(ov) \/ Held(ov))' => Posted(ov) \/ Queued(ov) \/ Held(ov)
           /\ Worked(ov)' => Worked(ov) \/ Queued(ov)
           /\ ovMem'[ov] = ovMem[ov]
           /\ \A w \in Workers : Uses(w, ov)' => job'[w].task = "NEWSEND"
  PROVE  HeapOK'
<1> SUFFICES ASSUME NEW ov \in HeapOvs
             PROVE  /\ ~Pooled(ov)'
                    /\ Posted(ov)' \/ Queued(ov)' \/ Worked(ov)' \/ Held(ov)' => ov \in heap'
                    /\ Posted(ov)' \/ Queued(ov)' \/ Held(ov)' => ovMem'[ov].taskType = "NEWSEND"
                    /\ \A w \in Workers : Uses(w, ov)' => job'[w].task = "NEWSEND"
  BY DEF HeapOK
<1> QED BY DEF HeapOK

LEMMA PostedSame ==
  ASSUME Blocks, posted' = posted
  PROVE  \A ov \in Tracked : (Posted(ov)' => Posted(ov)) /\ PostedOnce(ov)'
  BY PostedLess DEF Blocks, Once

\* No block moves; only an acceptOvlap may be posted.
LEMMA NothingMoves ==
  ASSUME Blocks, HeapOK, heap' = heap,
         UNCHANGED <<ovLapPool, iocp, buf>>,
         \A ov \in Tracked : (Posted(ov)' => Posted(ov)) /\ PostedOnce(ov)',
         \A ov \in HeapOvs : ovMem'[ov] = ovMem[ov],
         \A w \in Workers, ov \in Ovs :
           Uses(w, ov)' => Uses(w, ov) /\ job'[w].task = job[w].task
  PROVE  Blocks' /\ HeapOK'
<1>1. ASSUME NEW ov \in Tracked
      PROVE  /\ Pooled(ov)' = Pooled(ov) /\ (Posted(ov)' => Posted(ov)) /\ Queued(ov)' = Queued(ov)
             /\ Held(ov)' = Held(ov) /\ (Worked(ov)' => Worked(ov)) /\ Once(ov)'
  <2>1. ov \in Ovs
    BY OvsFacts
  <2>2. (Worked(ov)' => Worked(ov)) /\ (WorkedOnce(ov) => WorkedOnce(ov)')
    BY <2>1, UsesLess
  <2>3. Once(ov)'
    BY <2>2 DEF Blocks, Once, PooledOnce, QueuedOnce, HeldOnce
  <2> QED BY <2>2, <2>3 DEF Pooled, Queued, Held
<1>2. Blocks'
  <2>1. ASSUME NEW ov \in Tracked PROVE Apart(ov)'
    BY <1>1 DEF Blocks, Apart
  <2> QED BY <1>1, <2>1 DEF Blocks
<1>3. HeapOK'
  <2>1. \A ov \in HeapOvs : ov \in Tracked /\ ov \in Ovs
    BY OvsFacts DEF Tracked
  <2> QED BY <1>1, <2>1, HeapKept DEF HeapOK
<1> QED BY <1>2, <1>3

-----------------------------------------------------------------------------
(* The operating system and the clients.                                    *)

LEMMA FinishOK ==
  ASSUME IInv, NEW o \in posted, NEW res \in {"bytes", "zero", "fail"}, Finish(o, res),
         skt' \in [Slots -> States]
  PROVE  IInv'
<1>1. /\ posted' = posted \ {o} /\ iocp' = Append(iocp, Completion(o, res))
      /\ UNCHANGED <<ovMem, ovLapPool, heap, AcceptQueue, job, pc, target, buf, requests, deaf>>
      /\ acceptFailed' \subseteq acceptFailed \cup {o.slot}
  BY DEF Finish
<1>2. o \in Ops /\ iocp \in Seq(Completions)
  BY DEF IInv, Types
<1>3. Completion(o, res) \in Completions /\ Completion(o, res).ov = o.ov
  BY <1>2, CompletionType
<1>4. /\ iocp' \in Seq(Completions)
      /\ \A ov : /\ Queued(ov)' => Queued(ov) \/ ov = o.ov
                 /\ QueuedOnce(ov) /\ (ov = o.ov => ~Queued(ov)) => QueuedOnce(ov)'
  BY <1>1, <1>2, <1>3, IocpAppend
<1>5. Types' /\ ThreadsOK' /\ IsFiniteSet(posted)'
  <2>1. Types'
    BY <1>1, <1>2, <1>4, OpFields DEF IInv, Types
  <2>2. IsFiniteSet(posted)'
    BY <1>1, FS_Subset DEF IInv
  <2> QED BY <1>1, <2>1, <2>2 DEF IInv, ThreadsOK
<1>6. ASSUME NEW ov \in Tracked
      PROVE  /\ Pooled(ov)' = Pooled(ov) /\ Held(ov)' = Held(ov) /\ Worked(ov)' = Worked(ov)
             /\ Posted(ov)' => Posted(ov) /\ ov # o.ov
             /\ Queued(ov)' => Queued(ov) \/ ov = o.ov
             /\ Posted(o.ov) /\ Once(ov)'
  <2>1. /\ Pooled(ov)' = Pooled(ov) /\ Held(ov)' = Held(ov) /\ Worked(ov)' = Worked(ov)
        /\ PooledOnce(ov)' = PooledOnce(ov) /\ HeldOnce(ov)' = HeldOnce(ov)
        /\ WorkedOnce(ov)' = WorkedOnce(ov)
    BY <1>1 DEF Pooled, Held, Worked, Uses, PooledOnce, HeldOnce, WorkedOnce
  <2>2. (Posted(ov)' => Posted(ov) /\ ov # o.ov) /\ PostedOnce(ov)' /\ Posted(o.ov)
    BY <1>1 DEF IInv, Blocks, Once, Posted, PostedOnce
  <2>3. QueuedOnce(ov)'
    BY <1>4, <2>2 DEF IInv, Blocks, Once, Apart
  <2>4. Once(ov)'
    BY <2>1, <2>2, <2>3 DEF IInv, Blocks, Once
  <2> QED BY <1>4, <2>1, <2>2, <2>4
<1>7. Blocks'
  <2>1. ASSUME NEW ov \in Tracked PROVE Apart(ov)'
    BY <1>6 DEF IInv, Blocks, Apart
  <2> QED BY <1>6, <2>1 DEF Blocks
<1>8. HeapOK'
  <2>1. HeapOvs \subseteq Tracked
    BY DEF Tracked
  <2>2. \A ov \in HeapOvs : \A w \in Workers : Uses(w, ov)' => job'[w].task = "NEWSEND"
    BY <1>1 DEF IInv, HeapOK, Uses
  <2> QED BY <1>1, <1>6, <2>1, <2>2, HeapKept DEF IInv
<1> QED BY <1>5, <1>7, <1>8 DEF IInv

LEMMA ClientOK ==
  ASSUME IInv, Client
  PROVE  IInv'
<1>1. ASSUME NEW o \in posted, Connect(o) \/ ConnectFails(o) \/ Data(o) \/ Sent(o) \/ Gone(o)
      PROVE  IInv'
  <2>1. o.slot \in Slots /\ skt \in [Slots -> States]
    BY OpFields DEF IInv, Types
  <2>2. skt' \in [Slots -> States]
    BY <1>1, <2>1 DEF Connect, ConnectFails, Data, Sent, Gone, States
  <2>3. PICK res \in {"bytes", "zero", "fail"} : Finish(o, res)
    BY <1>1 DEF Connect, ConnectFails, Data, Sent, Gone
  <2> QED BY <2>2, <2>3, FinishOK
<1>2. ASSUME NEW s \in Slots, Leave(s)
      PROVE  IInv'
  <2>1. Types' /\ ThreadsOK' /\ IsFiniteSet(posted)'
    BY <1>2 DEF Leave, IInv, Types, ThreadsOK, States
  <2>2. Blocks' /\ HeapOK'
    BY <1>2, NothingMoves, PostedSame DEF Leave, IInv, Uses
  <2> QED BY <2>1, <2>2 DEF IInv
<1> QED BY <1>1, <1>2 DEF Client

-----------------------------------------------------------------------------
(* The accepters.                                                           *)

\* A step of a thread that is no worker.
LEMMA OtherThread ==
  ASSUME Types, NEW t \in Threads \ Workers, NEW l \in PlacesOf, Goto(t, l)
  PROVE  /\ pc' \in [Threads -> PlacesOf]
         /\ pc'[t] = l /\ \A v \in Threads \ {t} : pc'[v] = pc[v]
         /\ \A w \in Workers : pc'[w] = pc[w]
  BY DEF Types, Goto, Threads

LEMMA PopAcceptOK ==
  ASSUME IInv, NEW a \in Accepters, PopAccept(a)
  PROVE  IInv'
<1>1. /\ AcceptQueue # <<>> /\ AcceptQueue' = Tail(AcceptQueue) /\ Goto(a, "post")
      /\ target' = [target EXCEPT ![a] = Head(AcceptQueue)]
      /\ UNCHANGED <<ovMem, ovLapPool, heap, skt, posted, iocp, job, buf, requests,
                     acceptFailed, deaf>>
  BY DEF PopAccept
<1>2. a \in Threads \ Workers /\ a \notin Senders
  BY ThreadsAssumption DEF Threads
<1>3. /\ pc' \in [Threads -> PlacesOf]
      /\ pc'[a] = "post" /\ \A v \in Threads \ {a} : pc'[v] = pc[v]
      /\ \A w \in Workers : pc'[w] = pc[w]
  BY <1>1, <1>2, OtherThread DEF IInv, PlacesOf
<1>4. AcceptQueue' \in Seq(Slots) /\ Head(AcceptQueue) \in Slots
  BY <1>1 DEF IInv, Types
<1>5. /\ target' \in [Accepters \cup Senders -> Slots \cup {NoSlot}]
      /\ target'[a] \in Slots
      /\ \A v \in (Accepters \cup Senders) \ {a} : target'[v] = target[v]
  BY <1>1, <1>4 DEF IInv, Types
<1>6. Types' /\ IsFiniteSet(posted)'
  BY <1>1, <1>3, <1>4, <1>5 DEF IInv, Types
<1>7. ThreadsOK'
  BY <1>1, <1>2, <1>3, <1>5 DEF IInv, ThreadsOK, Threads
<1>8. Blocks' /\ HeapOK'
  BY <1>1, <1>3, NothingMoves, PostedSame DEF IInv, Uses
<1> QED BY <1>6, <1>7, <1>8 DEF IInv

LEMMA PostAcceptOK ==
  ASSUME IInv, NEW a \in Accepters, PostAccept(a)
  PROVE  IInv'
<1>1. PICK s \in Slots : s = target[a]
  BY DEF PostAccept, IInv, ThreadsOK
<1> DEFINE m == [taskType |-> "ACCEPT", connObjNum |-> s]
           x == [op |-> "ACCEPT", ov |-> AcceptOv(s), slot |-> s]
<1>2. /\ ovMem' = [ovMem EXCEPT ![AcceptOv(s)] = m]
      /\ UNCHANGED <<ovLapPool, heap, AcceptQueue, skt, iocp, job, buf, requests, acceptFailed,
                     deaf>>
      /\ \/ /\ posted' = posted \cup {x} /\ Goto(a, "idle")
            /\ target' = [target EXCEPT ![a] = NoSlot]
         \/ Goto(a, "pushBack") /\ UNCHANGED <<posted, target>>
  BY <1>1 DEF PostAccept
<1>3. AcceptOv(s) \in Ovs /\ AcceptOv(s) \notin Tracked
  BY OvsFacts
<1>4. m \in Mems /\ x \in Ops /\ x.ov = AcceptOv(s)
  BY <1>3, MemType, OpType DEF TaskType
<1> HIDE DEF m, x
<1>5. /\ ovMem' \in [Ovs -> Mems]
      /\ \A ov \in HeapOvs : ovMem'[ov] = ovMem[ov]
  <2>1. HeapOvs \subseteq Tracked /\ Tracked \subseteq Ovs
    BY OvsFacts DEF Tracked
  <2> QED BY <1>2, <1>3, <1>4, <2>1 DEF IInv, Types
<1>6. posted' \subseteq Ops /\ IsFiniteSet(posted)'
  <2>1. posted \cup {x} \subseteq Ops /\ IsFiniteSet(posted \cup {x})
    BY <1>4, FS_AddElement DEF IInv, Types
  <2> QED BY <1>2, <2>1 DEF IInv, Types
<1>7. a \in Threads \ Workers /\ a \notin Senders
  BY ThreadsAssumption DEF Threads
<1>8. PICK l \in {"idle", "pushBack"} : Goto(a, l)
  BY <1>2
<1>9. /\ pc' \in [Threads -> PlacesOf]
      /\ pc'[a] = l /\ \A v \in Threads \ {a} : pc'[v] = pc[v]
      /\ \A w \in Workers : pc'[w] = pc[w]
  BY <1>7, <1>8, OtherThread DEF IInv, PlacesOf
<1>10. /\ target' \in [Accepters \cup Senders -> Slots \cup {NoSlot}]
       /\ pc'[a] = "pushBack" => target' = target
       /\ \A v \in (Accepters \cup Senders) \ {a} : target'[v] = target[v]
  BY <1>2, <1>7, <1>9 DEF IInv, Types, Goto, Threads
<1>11. Types'
  BY <1>2, <1>5, <1>6, <1>9, <1>10 DEF IInv, Types
<1>12. ThreadsOK'
  BY <1>1, <1>2, <1>7, <1>8, <1>9, <1>10 DEF IInv, ThreadsOK, Threads
<1>13. ASSUME NEW ov \in Tracked
       PROVE  (Posted(ov)' => Posted(ov)) /\ PostedOnce(ov)'
  <2>1. ov # x.ov
    BY <1>3, <1>4
  <2> QED BY <1>2, <2>1, PostedMore, PostedLess DEF IInv, Blocks, Once
<1>14. \A w \in Workers, ov \in Ovs : Uses(w, ov)' = Uses(w, ov)
  BY <1>2, <1>9 DEF Uses
<1>15. Blocks' /\ HeapOK'
  BY <1>2, <1>5, <1>13, <1>14, NothingMoves DEF IInv
<1> QED BY <1>6, <1>11, <1>12, <1>15 DEF IInv

LEMMA PushBackOK ==
  ASSUME IInv, NEW a \in Accepters, PushBack(a)
  PROVE  IInv'
<1>1. /\ pc[a] = "pushBack" /\ AcceptQueue' = Append(AcceptQueue, target[a])
      /\ target' = [target EXCEPT ![a] = NoSlot] /\ Goto(a, "idle")
      /\ UNCHANGED <<ovMem, ovLapPool, heap, skt, posted, iocp, job, buf, requests,
                     acceptFailed, deaf>>
  BY DEF PushBack
<1>2. a \in Threads \ Workers /\ a \notin Senders
  BY ThreadsAssumption DEF Threads
<1>3. /\ pc' \in [Threads -> PlacesOf]
      /\ pc'[a] = "idle" /\ \A v \in Threads \ {a} : pc'[v] = pc[v]
      /\ \A w \in Workers : pc'[w] = pc[w]
  BY <1>1, <1>2, OtherThread DEF IInv, PlacesOf
<1>4. AcceptQueue' \in Seq(Slots)
  BY <1>1 DEF IInv, Types, ThreadsOK
<1>5. /\ target' \in [Accepters \cup Senders -> Slots \cup {NoSlot}]
      /\ \A v \in (Accepters \cup Senders) \ {a} : target'[v] = target[v]
  BY <1>1 DEF IInv, Types
<1>6. Types' /\ IsFiniteSet(posted)'
  BY <1>1, <1>3, <1>4, <1>5 DEF IInv, Types
<1>7. ThreadsOK'
  BY <1>1, <1>2, <1>3, <1>5 DEF IInv, ThreadsOK, Threads
<1>8. Blocks' /\ HeapOK'
  BY <1>1, <1>3, NothingMoves, PostedSame DEF IInv, Uses
<1> QED BY <1>6, <1>7, <1>8 DEF IInv

-----------------------------------------------------------------------------
(* The workers.                                                             *)

\* A step of worker w.
LEMMA OneWorker ==
  ASSUME IInv, NEW w \in Workers, NEW l \in PlacesOf, Goto(w, l), target' = target,
         job' \in [Workers -> Jobs \cup {NoJob}], l # "idle" => job'[w] \in Jobs,
         l = "wsarecv" => buf'[w] \in Ovs,
         \A v \in Workers \ {w} : job'[v] = job[v],
         \A t \in (Workers \cup Senders) \ {w} : buf'[t] = buf[t]
  PROVE  /\ pc' \in [Threads -> PlacesOf] /\ ThreadsOK'
         /\ pc'[w] = l /\ \A v \in Threads \ {w} : pc'[v] = pc[v]
         /\ \A v \in Workers \ {w}, ov \in Ovs : Uses(v, ov)' = Uses(v, ov)
<1>1. w \in Threads /\ w \notin Accepters /\ w \notin Senders
  BY ThreadsAssumption DEF Threads
<1>2. /\ pc' \in [Threads -> PlacesOf]
      /\ pc'[w] = l /\ \A v \in Threads \ {w} : pc'[v] = pc[v]
  BY <1>1 DEF IInv, Types, Goto
<1>3. ThreadsOK'
  <2>1. ASSUME NEW v \in Workers
        PROVE  (pc'[v] # "idle" => job'[v] \in Jobs) /\ (pc'[v] = "wsarecv" => buf'[v] \in Ovs)
    BY <1>2 DEF IInv, ThreadsOK, Threads
  <2>2. ASSUME NEW a \in Accepters
        PROVE  pc'[a] \in {"post", "pushBack"} => target'[a] \in Slots
    BY <1>1, <1>2 DEF IInv, ThreadsOK, Threads
  <2>3. ASSUME NEW r \in Senders
        PROVE  /\ pc'[r] \in {"answer", "send"} => target'[r] \in Slots
               /\ pc'[r] = "send" => buf'[r] \in Ovs
    BY <1>1, <1>2 DEF IInv, ThreadsOK, Threads
  <2> QED BY <2>1, <2>2, <2>3 DEF ThreadsOK
<1>4. \A v \in Workers \ {w}, ov \in Ovs : Uses(v, ov)' = Uses(v, ov)
  BY <1>2 DEF Uses, Threads
<1> QED BY <1>2, <1>3, <1>4

LEMMA DequeueOK ==
  ASSUME IInv, NEW w \in Workers, Dequeue(w)
  PROVE  IInv'
<1> DEFINE c == Head(iocp)
           j == [ov |-> c.ov, user |-> ovMem[c.ov].connObjNum, task |-> ovMem[c.ov].taskType,
                 slot |-> c.slot, old |-> c.old]
<1>1. /\ pc[w] = "idle" /\ iocp # <<>> /\ iocp' = Tail(iocp)
      /\ job' = [job EXCEPT ![w] = j] /\ Goto(w, Branch(c))
      /\ UNCHANGED <<ovMem, ovLapPool, heap, AcceptQueue, skt, posted, target, buf, requests,
                     acceptFailed, deaf>>
  BY DEF Dequeue
<1>2. /\ iocp' \in Seq(Completions) /\ c \in Completions /\ Queued(c.ov)
      /\ \A ov : QueuedOnce(ov) => QueuedOnce(ov)' /\ (Queued(ov)' => Queued(ov) /\ ov # c.ov)
  BY <1>1, IocpPop DEF IInv, Types
<1>3. c.ov \in Ovs
  BY <1>2, CompletionFields
<1>4. ovMem[c.ov] \in Mems
  BY <1>3 DEF IInv, Types
<1>5. j \in Jobs /\ j.ov = c.ov /\ j.task = ovMem[c.ov].taskType
  BY <1>2, <1>4, JobType
<1>6. PICK l \in {"recv", "return", "disconnect"} : Goto(w, l)
  BY <1>1 DEF Branch
<1> HIDE DEF c, j
<1>7. /\ job' \in [Workers -> Jobs \cup {NoJob}] /\ job'[w] = j
      /\ \A v \in Workers \ {w} : job'[v] = job[v]
  BY <1>1, <1>5 DEF IInv, Types
<1>8. /\ pc' \in [Threads -> PlacesOf] /\ ThreadsOK'
      /\ pc'[w] = l /\ \A v \in Threads \ {w} : pc'[v] = pc[v]
      /\ \A v \in Workers \ {w}, ov \in Ovs : Uses(v, ov)' = Uses(v, ov)
  BY <1>1, <1>5, <1>6, <1>7, OneWorker DEF PlacesOf
<1>9. Types' /\ IsFiniteSet(posted)'
  BY <1>1, <1>2, <1>7, <1>8 DEF IInv, Types
<1>10. ASSUME NEW ov \in Tracked
       PROVE  /\ Pooled(ov)' = Pooled(ov) /\ Held(ov)' = Held(ov) /\ Posted(ov)' = Posted(ov)
              /\ Queued(ov)' => Queued(ov) /\ ov # c.ov
              /\ Worked(ov)' => Worked(ov) \/ ov = c.ov
              /\ Queued(c.ov) /\ Once(ov)'
  <2>1. /\ Pooled(ov)' = Pooled(ov) /\ Held(ov)' = Held(ov) /\ Posted(ov)' = Posted(ov)
        /\ PooledOnce(ov)' = PooledOnce(ov) /\ HeldOnce(ov)' = HeldOnce(ov)
        /\ PostedOnce(ov)' = PostedOnce(ov)
    BY <1>1 DEF Pooled, Held, Posted, PooledOnce, HeldOnce, PostedOnce
  <2>2. QueuedOnce(ov)' /\ (Queued(ov)' => Queued(ov) /\ ov # c.ov)
    BY <1>2 DEF IInv, Blocks, Once
  <2>3. Uses(w, ov)' => ov = c.ov
    BY <1>5, <1>7 DEF Uses
  <2>4. Worked(ov)' => Worked(ov) \/ ov = c.ov
    BY <1>8, <2>3, OvsFacts DEF Worked
  <2>5. WorkedOnce(ov)'
    <3>1. CASE ov = c.ov
      <4>1. ~Worked(ov)
        BY <1>2, <3>1 DEF IInv, Blocks, Apart
      <4>2. \A v \in Workers \ {w} : ~Uses(v, ov)'
        BY <1>8, <4>1, OvsFacts DEF Worked
      <4> QED BY <4>2 DEF WorkedOnce
    <3>2. CASE ov # c.ov
      <4>1. \A v \in Workers : Uses(v, ov)' => Uses(v, ov)
        BY <1>8, <2>3, <3>2, OvsFacts
      <4> QED BY <4>1, UsesLess DEF IInv, Blocks, Once
    <3> QED BY <3>1, <3>2
  <2>6. Once(ov)'
    BY <2>1, <2>2, <2>5 DEF IInv, Blocks, Once
  <2> QED BY <1>2, <2>1, <2>2, <2>4, <2>6
<1>11. Blocks'
  <2>1. ASSUME NEW ov \in Tracked PROVE Apart(ov)'
    BY <1>10 DEF IInv, Blocks, Apart
  <2> QED BY <1>10, <2>1 DEF Blocks
<1>12. HeapOK'
  <2>1. HeapOvs \subseteq Tracked /\ HeapOvs \subseteq Ovs
    BY OvsFacts DEF Tracked
  <2>2. ASSUME NEW ov \in HeapOvs, NEW v \in Workers, Uses(v, ov)'
        PROVE  job'[v].task = "NEWSEND"
    <3>1. CASE v = w
      <4>1. ov = c.ov
        BY <1>5, <1>7, <2>2, <3>1 DEF Uses
      <4>2. ovMem[ov].taskType = "NEWSEND"
        BY <1>2, <4>1 DEF IInv, HeapOK
      <4> QED BY <1>5, <1>7, <3>1, <4>1, <4>2
    <3>2. CASE v # w
      BY <1>7, <1>8, <2>1, <2>2, <3>2 DEF IInv, HeapOK
    <3> QED BY <3>1, <3>2
  <2> QED BY <1>1, <1>10, <2>1, <2>2, HeapKept DEF IInv
<1> QED BY <1>8, <1>9, <1>11, <1>12 DEF IInv

LEMMA ReturnOvLapOK ==
  ASSUME IInv, NEW w \in Workers, ReturnOvLap(w)
  PROVE  IInv'
<1>1. PICK b \in Ovs : b = job[w].ov
  BY JobFields DEF ReturnOvLap, IInv, ThreadsOK
<1>2. /\ pc[w] \in {"return", "disconnect"} /\ Uses(w, b) /\ job[w] \in Jobs
      /\ UNCHANGED <<AcceptQueue, skt, posted, iocp, target, buf, requests, acceptFailed, deaf>>
      /\ \/ /\ job[w].task \in {"NEWRECV", "NEWSEND"}
            /\ heap' = heap \ {b} /\ UNCHANGED <<ovMem, ovLapPool>>
         \/ /\ job[w].task \notin {"NEWRECV", "NEWSEND"}
            /\ ovMem' = [ovMem EXCEPT ![b] = ZeroMemory]
            /\ ovLapPool' = Append(ovLapPool, b) /\ UNCHANGED heap
      /\ \/ Goto(w, "reset") /\ job' = job
         \/ Goto(w, "idle") /\ job' = [job EXCEPT ![w] = NoJob]
  BY <1>1 DEF ReturnOvLap, Uses, IInv, ThreadsOK
<1>3. /\ job' \in [Workers -> Jobs \cup {NoJob}]
      /\ \A v \in Workers \ {w} : job'[v] = job[v]
  BY <1>2 DEF IInv, Types
<1>4. PICK l \in {"reset", "idle"} : Goto(w, l) /\ (l = "reset" => job' = job)
  BY <1>2
<1>5. /\ pc' \in [Threads -> PlacesOf] /\ ThreadsOK'
      /\ pc'[w] = l /\ \A v \in Threads \ {w} : pc'[v] = pc[v]
      /\ \A v \in Workers \ {w}, ov \in Ovs : Uses(v, ov)' = Uses(v, ov)
  BY <1>2, <1>3, <1>4, OneWorker DEF PlacesOf
<1>6. /\ ovLapPool' \in Seq(Ovs)
      /\ \A ov : /\ Pooled(ov)' => Pooled(ov) \/ ov = b
                 /\ PooledOnce(ov) /\ (ov = b => ~Pooled(ov)) => PooledOnce(ov)'
  BY <1>2, PoolPush DEF IInv, Types, Pooled, PooledOnce
<1>7. Types' /\ IsFiniteSet(posted)'
  <2>1. ovMem' \in [Ovs -> Mems] /\ heap' \subseteq HeapOvs
    BY <1>2, ZeroMemoryType DEF IInv, Types
  <2> QED BY <1>2, <1>3, <1>5, <1>6, <2>1 DEF IInv, Types
<1>8. \A ov \in Ovs : ~Uses(w, ov)'
  BY <1>4, <1>5 DEF Uses
<1>9. ASSUME NEW ov \in Tracked
      PROVE  /\ Queued(ov)' = Queued(ov) /\ Held(ov)' = Held(ov) /\ Posted(ov)' = Posted(ov)
             /\ Worked(b) /\ (Worked(ov)' => Worked(ov) /\ ov # b)
             /\ Once(ov)'
  <2>1. /\ Queued(ov)' = Queued(ov) /\ Held(ov)' = Held(ov) /\ Posted(ov)' = Posted(ov)
        /\ QueuedOnce(ov)' = QueuedOnce(ov) /\ HeldOnce(ov)' = HeldOnce(ov)
        /\ PostedOnce(ov)' = PostedOnce(ov)
    BY <1>2 DEF Queued, Held, Posted, QueuedOnce, HeldOnce, PostedOnce
  <2>2. Worked(b)
    BY <1>2 DEF Worked
  <2>3. \A v \in Workers : Uses(v, ov)' => v # w /\ Uses(v, ov)
    BY <1>5, <1>8, OvsFacts
  <2>4. WorkedOnce(ov)'
    BY <2>3, UsesLess DEF IInv, Blocks, Once
  <2>5. Worked(ov)' => Worked(ov) /\ ov # b
    BY <1>2, <2>3 DEF Worked, IInv, Blocks, Once, WorkedOnce
  <2>6. PooledOnce(ov)'
    BY <1>6, <2>2 DEF IInv, Blocks, Once, Apart
  <2>7. Once(ov)'
    BY <2>1, <2>4, <2>6 DEF IInv, Blocks, Once
  <2> QED BY <2>1, <2>2, <2>5, <2>7
<1>10. Blocks'
  <2>1. ASSUME NEW ov \in Tracked PROVE Apart(ov)'
    BY <1>6, <1>9 DEF IInv, Blocks, Apart
  <2> QED BY <1>9, <2>1 DEF Blocks
<1>11. HeapOK'
  <2> SUFFICES ASSUME NEW ov \in HeapOvs
               PROVE  /\ ~Pooled(ov)'
                      /\ Posted(ov)' \/ Queued(ov)' \/ Worked(ov)' \/ Held(ov)' => ov \in heap'
                      /\ Posted(ov)' \/ Queued(ov)' \/ Held(ov)' =>
                           ovMem'[ov].taskType = "NEWSEND"
                      /\ \A v \in Workers : Uses(v, ov)' => job'[v].task = "NEWSEND"
    BY DEF HeapOK
  <2>1. ov \in Tracked /\ ov \in Ovs
    BY OvsFacts DEF Tracked
  <2>2. ov = b => job[w].task = "NEWSEND"
    BY <1>2 DEF IInv, HeapOK
  <2>3. ~Pooled(ov)'
    BY <1>2, <1>6, <2>2 DEF IInv, HeapOK, Pooled
  <2>4. \A v \in Workers : Uses(v, ov)' => job'[v].task = "NEWSEND"
    BY <1>3, <1>5, <1>8, <2>1 DEF IInv, HeapOK
  <2>5. Posted(ov)' \/ Queued(ov)' \/ Worked(ov)' \/ Held(ov)' => ov # b
    BY <1>9, <2>1 DEF IInv, Blocks, Apart
  <2>6. ov # b => ovMem'[ov] = ovMem[ov] /\ (ov \in heap => ov \in heap')
    BY <1>2, <2>1 DEF IInv, Types
  <2> QED BY <1>9, <2>1, <2>3, <2>4, <2>5, <2>6 DEF IInv, HeapOK
<1> QED BY <1>5, <1>7, <1>10, <1>11 DEF IInv

LEMMA GetRecvOvOK ==
  ASSUME IInv, NEW w \in Workers, GetRecvOv(w)
  PROVE  IInv'
<1>1. /\ pc[w] = "recv" /\ job[w] \in Jobs /\ job' = job
      /\ UNCHANGED <<heap, AcceptQueue, skt, posted, iocp, target, requests, acceptFailed, deaf>>
  BY DEF GetRecvOv, IInv, ThreadsOK
<1>2. w \in Threads /\ job' \in [Workers -> Jobs \cup {NoJob}]
  BY <1>1 DEF Threads, IInv, Types
<1>3. CASE ovLapPool = <<>>
  <2>1. Goto(w, "recvFailed") /\ UNCHANGED <<buf, ovLapPool, ovMem>>
    BY <1>3 DEF GetRecvOv
  <2>2. /\ pc' \in [Threads -> PlacesOf] /\ ThreadsOK'
        /\ pc'[w] = "recvFailed"
        /\ \A v \in Workers \ {w}, ov \in Ovs : Uses(v, ov)' = Uses(v, ov)
    BY <1>1, <1>2, <2>1, OneWorker DEF PlacesOf
  <2>3. Types' /\ IsFiniteSet(posted)'
    BY <1>1, <2>1, <2>2 DEF IInv, Types
  <2>4. \A v \in Workers, ov \in Ovs : Uses(v, ov)' => Uses(v, ov) /\ job'[v].task = job[v].task
    BY <1>1, <2>2 DEF Uses
  <2>5. Blocks' /\ HeapOK'
    BY <1>1, <2>1, <2>4, NothingMoves, PostedSame DEF IInv
  <2> QED BY <2>2, <2>3, <2>5 DEF IInv
<1>4. CASE ovLapPool # <<>>
  <2>1. PICK b : b = Head(ovLapPool)
    OBVIOUS
  <2>2. PICK m : m = [taskType |-> "RECV", connObjNum |-> job[w].user]
    OBVIOUS
  <2>3. /\ buf' = [buf EXCEPT ![w] = b] /\ ovLapPool' = Tail(ovLapPool)
        /\ ovMem' = [ovMem EXCEPT ![b] = m] /\ Goto(w, "wsarecv")
    BY <1>4, <2>1, <2>2 DEF GetRecvOv
  <2>4. /\ ovLapPool' \in Seq(Ovs) /\ b \in Ovs /\ Pooled(b)
        /\ \A ov : PooledOnce(ov) => PooledOnce(ov)' /\ (Pooled(ov)' => Pooled(ov) /\ ov # b)
    BY <1>4, <2>1, <2>3, PoolPop DEF IInv, Types
  <2>5. m \in Mems
    BY <1>1, <2>2, JobFields, MemType DEF TaskType
  <2>6. /\ buf' \in [Workers \cup Senders -> Ovs \cup {NoOv}]
        /\ buf'[w] = b /\ \A v \in (Workers \cup Senders) \ {w} : buf'[v] = buf[v]
        /\ \A ov : /\ Held(ov)' => Held(ov) \/ ov = b
                   /\ HeldOnce(ov) /\ (ov = b => ~Held(ov)) => HeldOnce(ov)'
    BY <2>3, <2>4, BufSet DEF IInv
  <2>7. /\ pc' \in [Threads -> PlacesOf] /\ ThreadsOK'
        /\ pc'[w] = "wsarecv"
        /\ \A v \in Workers \ {w}, ov \in Ovs : Uses(v, ov)' = Uses(v, ov)
    BY <1>1, <1>2, <2>3, <2>4, <2>6, OneWorker DEF PlacesOf
  <2>8. Types' /\ IsFiniteSet(posted)'
    BY <1>1, <2>3, <2>4, <2>5, <2>6, <2>7 DEF IInv, Types
  <2>9. \A v \in Workers, ov \in Ovs : Uses(v, ov)' => Uses(v, ov) /\ job'[v].task = job[v].task
    BY <1>1, <2>7 DEF Uses
  <2>10. ASSUME NEW ov \in Tracked
         PROVE  /\ Queued(ov)' = Queued(ov) /\ Posted(ov)' = Posted(ov)
                /\ Worked(ov)' => Worked(ov)
                /\ Pooled(ov)' => Pooled(ov) /\ ov # b
                /\ Once(ov)'
    <3>1. /\ Queued(ov)' = Queued(ov) /\ Posted(ov)' = Posted(ov)
          /\ QueuedOnce(ov)' = QueuedOnce(ov) /\ PostedOnce(ov)' = PostedOnce(ov)
      BY <1>1 DEF Queued, Posted, QueuedOnce, PostedOnce
    <3>2. (Worked(ov)' => Worked(ov)) /\ WorkedOnce(ov)'
      BY <2>9, UsesLess, OvsFacts DEF IInv, Blocks, Once
    <3>3. HeldOnce(ov)'
      BY <2>4, <2>6 DEF IInv, Blocks, Once, Apart
    <3>4. Once(ov)'
      BY <2>4, <3>1, <3>2, <3>3 DEF IInv, Blocks, Once
    <3> QED BY <2>4, <3>1, <3>2, <3>4 DEF IInv, Blocks, Once
  <2>11. Blocks'
    <3>1. ASSUME NEW ov \in Tracked PROVE Apart(ov)'
      BY <2>4, <2>6, <2>10 DEF IInv, Blocks, Apart
    <3> QED BY <2>10, <3>1 DEF Blocks
  <2>12. HeapOK'
    <3>1. HeapOvs \subseteq Tracked /\ HeapOvs \subseteq Ovs
      BY OvsFacts DEF Tracked
    <3>2. b \notin HeapOvs
      BY <2>4 DEF IInv, HeapOK
    <3>3. \A ov \in HeapOvs : ovMem'[ov] = ovMem[ov]
      BY <2>3, <2>4, <3>1, <3>2 DEF IInv, Types
    <3>4. \A ov \in HeapOvs : \A v \in Workers : Uses(v, ov)' => job'[v].task = "NEWSEND"
      BY <2>9, <3>1 DEF IInv, HeapOK
    <3> QED BY <1>1, <2>6, <2>10, <3>1, <3>2, <3>3, <3>4, HeapKept DEF IInv
  <2> QED BY <2>7, <2>8, <2>11, <2>12 DEF IInv
<1> QED BY <1>3, <1>4

\* A block in a thread's buffer goes to the system or nowhere.
LEMMA BufPosted ==
  ASSUME IInv, NEW t \in Workers \cup Senders, buf[t] \in Ovs,
         NEW x, x.ov = buf[t], posted' = posted \cup {x} \/ posted' = posted,
         buf' = [buf EXCEPT ![t] = NoOv],
         UNCHANGED <<ovMem, ovLapPool, heap, iocp>>,
         \A w \in Workers, ov \in Ovs :
           Uses(w, ov)' => Uses(w, ov) /\ job'[w].task = job[w].task
  PROVE  Blocks' /\ HeapOK'
<1> DEFINE b == buf[t]
<1>1. \A ov : /\ Held(ov)' => Held(ov) \/ ov = NoOv
              /\ HeldOnce(ov) /\ (ov = NoOv => ~Held(ov)) => HeldOnce(ov)'
              /\ HeldOnce(ov) /\ ov = b /\ ov # NoOv => ~Held(ov)'
  BY BufSet DEF IInv
<1>2. Held(b)
  BY DEF Held
<1>3. ASSUME NEW ov \in Tracked
      PROVE  /\ Queued(ov)' = Queued(ov) /\ Pooled(ov)' = Pooled(ov)
             /\ Worked(ov)' => Worked(ov)
             /\ Held(ov)' => Held(ov) /\ ov # b
             /\ Posted(ov)' => Posted(ov) \/ ov = b
             /\ Once(ov)'
  <2>1. /\ Queued(ov)' = Queued(ov) /\ Pooled(ov)' = Pooled(ov)
        /\ QueuedOnce(ov)' = QueuedOnce(ov) /\ PooledOnce(ov)' = PooledOnce(ov)
    BY DEF Queued, Pooled, QueuedOnce, PooledOnce
  <2>2. (Worked(ov)' => Worked(ov)) /\ WorkedOnce(ov)'
    BY UsesLess, OvsFacts DEF IInv, Blocks, Once
  <2>3. ov # NoOv /\ HeldOnce(ov)
    BY OvsFacts DEF IInv, Blocks, Once
  <2>4. HeldOnce(ov)' /\ (Held(ov)' => Held(ov) /\ ov # b)
    BY <1>1, <2>3
  <2>5. (Posted(ov)' => Posted(ov) \/ ov = b) /\ PostedOnce(ov)'
    <3>1. ov = b => ~Posted(ov)
      BY <1>2 DEF IInv, Blocks, Apart
    <3>2. PostedOnce(ov)
      BY DEF IInv, Blocks, Once
    <3>3. CASE posted' = posted
      BY <3>2, <3>3, PostedLess
    <3>4. CASE posted' = posted \cup {x}
      BY <3>1, <3>2, <3>4, PostedMore
    <3> QED BY <3>3, <3>4
  <2>6. Once(ov)'
    BY <2>1, <2>2, <2>4, <2>5 DEF IInv, Blocks, Once
  <2> QED BY <2>1, <2>2, <2>4, <2>5, <2>6
<1>4. Blocks'
  <2>1. ASSUME NEW ov \in Tracked PROVE Apart(ov)'
    BY <1>2, <1>3 DEF IInv, Blocks, Apart
  <2> QED BY <1>3, <2>1 DEF Blocks
<1>5. HeapOK'
  <2>1. HeapOvs \subseteq Tracked /\ HeapOvs \subseteq Ovs
    BY OvsFacts DEF Tracked
  <2>2. \A ov \in HeapOvs : \A w \in Workers : Uses(w, ov)' => job'[w].task = "NEWSEND"
    BY <2>1 DEF IInv, HeapOK
  <2> QED BY <1>2, <1>3, <2>1, <2>2, HeapKept DEF IInv
<1> QED BY <1>4, <1>5

LEMMA WSARecvOK ==
  ASSUME IInv, NEW w \in Workers, WSARecv(w)
  PROVE  IInv'
<1>1. PICK s \in Slots : s = job[w].user
  BY JobFields DEF WSARecv, IInv, ThreadsOK
<1>2. PICK x : x = [op |-> "RECV", ov |-> buf[w], slot |-> s]
  OBVIOUS
<1>3. /\ pc[w] = "wsarecv" /\ job[w] \in Jobs /\ buf[w] \in Ovs
      /\ buf' = [buf EXCEPT ![w] = NoOv]
      /\ UNCHANGED <<ovMem, ovLapPool, heap, AcceptQueue, skt, iocp, target, requests,
                     acceptFailed, deaf>>
  BY DEF WSARecv, IInv, ThreadsOK
<1>4. x \in Ops /\ x.ov = buf[w]
  BY <1>2, <1>3, OpType
<1>5. posted' = posted \cup {x} \/ posted' = posted
  BY <1>1, <1>2 DEF WSARecv
<1>6. /\ job' \in [Workers -> Jobs \cup {NoJob}]
      /\ \A v \in Workers \ {w} : job'[v] = job[v]
  BY <1>3 DEF WSARecv, IInv, Types
<1>7. PICK l \in {"idle", "return", "recvFailed"} : Goto(w, l) /\ (l # "idle" => job'[w] = job[w])
  <2>1. CASE UNCHANGED job
    BY <2>1 DEF WSARecv
  <2>2. CASE /\ Goto(w, IF job[w].task = "ACCEPT" THEN "idle" ELSE "return")
             /\ job' = [job EXCEPT ![w] = IF @.task = "ACCEPT" THEN NoJob ELSE @]
    <3>1. CASE job[w].task = "ACCEPT"
      BY <2>2, <3>1
    <3>2. CASE job[w].task # "ACCEPT"
      BY <2>2, <3>2 DEF IInv, Types
    <3> QED BY <3>1, <3>2
  <2> QED BY <2>1, <2>2 DEF WSARecv
<1>8. /\ buf' \in [Workers \cup Senders -> Ovs \cup {NoOv}]
      /\ \A v \in (Workers \cup Senders) \ {w} : buf'[v] = buf[v]
  BY <1>3 DEF IInv, Types
<1>9. /\ pc' \in [Threads -> PlacesOf] /\ ThreadsOK' /\ pc'[w] = l
      /\ \A v \in Workers \ {w}, ov \in Ovs : Uses(v, ov)' = Uses(v, ov)
  BY <1>3, <1>6, <1>7, <1>8, OneWorker DEF PlacesOf
<1>10. \A v \in Workers, ov \in Ovs : Uses(v, ov)' => Uses(v, ov) /\ job'[v].task = job[v].task
  BY <1>3, <1>6, <1>7, <1>9 DEF Uses
<1>11. Blocks' /\ HeapOK'
  BY <1>3, <1>4, <1>5, <1>10, BufPosted
<1>12. posted' \subseteq Ops /\ IsFiniteSet(posted')
  <2>1. posted \cup {x} \subseteq Ops /\ IsFiniteSet(posted \cup {x})
    BY <1>4, FS_AddElement DEF IInv, Types
  <2> QED BY <1>5, <2>1 DEF IInv, Types
<1>13. Types'
  BY <1>3, <1>6, <1>8, <1>9, <1>12 DEF IInv, Types
<1> QED BY <1>9, <1>11, <1>12, <1>13 DEF IInv

LEMMA RecvFailedOK ==
  ASSUME IInv, NEW w \in Workers, RecvFailed(w)
  PROVE  IInv'
<1>1. /\ pc[w] = "recvFailed" /\ job[w] \in Jobs
      /\ UNCHANGED <<ovMem, ovLapPool, heap, AcceptQueue, skt, posted, iocp, job, target, buf,
                     requests, acceptFailed>>
      /\ deaf' \subseteq deaf \cup {job[w].user}
  BY DEF RecvFailed, IInv, ThreadsOK
<1>2. PICK l \in {"reset", "return"} : Goto(w, l)
  BY DEF RecvFailed
<1>3. /\ pc' \in [Threads -> PlacesOf] /\ ThreadsOK' /\ pc'[w] = l
      /\ \A v \in Workers \ {w}, ov \in Ovs : Uses(v, ov)' = Uses(v, ov)
  BY <1>1, <1>2, OneWorker DEF PlacesOf, IInv, Types
<1>4. Types' /\ IsFiniteSet(posted)'
  BY <1>1, <1>3, JobFields DEF IInv, Types
<1>5. \A v \in Workers, ov \in Ovs : Uses(v, ov)' => Uses(v, ov) /\ job'[v].task = job[v].task
  BY <1>1, <1>3 DEF Uses
<1>6. Blocks' /\ HeapOK'
  BY <1>1, <1>5, NothingMoves, PostedSame DEF IInv
<1> QED BY <1>3, <1>4, <1>6 DEF IInv

LEMMA RequeueOK ==
  ASSUME IInv, NEW w \in Workers, Requeue(w)
  PROVE  IInv'
<1>1. /\ pc[w] = "requeue" /\ job[w] \in Jobs
      /\ AcceptQueue' = Append(AcceptQueue, job[w].user)
      /\ job' = [job EXCEPT ![w] = NoJob] /\ Goto(w, "idle")
      /\ UNCHANGED <<ovMem, ovLapPool, heap, skt, posted, iocp, target, buf, requests,
                     acceptFailed, deaf>>
  BY DEF Requeue, IInv, ThreadsOK
<1>2. /\ job' \in [Workers -> Jobs \cup {NoJob}]
      /\ \A v \in Workers \ {w} : job'[v] = job[v]
  BY <1>1 DEF IInv, Types
<1>3. /\ pc' \in [Threads -> PlacesOf] /\ ThreadsOK' /\ pc'[w] = "idle"
      /\ \A v \in Workers \ {w}, ov \in Ovs : Uses(v, ov)' = Uses(v, ov)
  BY <1>1, <1>2, OneWorker DEF PlacesOf
<1>4. AcceptQueue' \in Seq(Slots)
  BY <1>1, JobFields DEF IInv, Types
<1>5. Types' /\ IsFiniteSet(posted)'
  BY <1>1, <1>2, <1>3, <1>4 DEF IInv, Types
<1>6. \A v \in Workers, ov \in Ovs : Uses(v, ov)' => Uses(v, ov) /\ job'[v].task = job[v].task
  BY <1>2, <1>3 DEF Uses
<1>7. Blocks' /\ HeapOK'
  BY <1>1, <1>6, NothingMoves, PostedSame DEF IInv
<1> QED BY <1>3, <1>5, <1>7 DEF IInv

LEMMA Concat ==
  ASSUME NEW S, NEW u \in Seq(S), NEW q \in Seq(S)
  PROVE  /\ u \o q \in Seq(S) /\ Len(u \o q) = Len(u) + Len(q)
         /\ DOMAIN (u \o q) = 1..(Len(u) + Len(q))
         /\ \A k \in 1..Len(u) : (u \o q)[k] = u[k]
         /\ \A k \in 1..Len(q) : (u \o q)[Len(u) + k] = q[k]
<1>1. u \o q \in Seq(S) /\ Len(u \o q) = Len(u) + Len(q)
  OBVIOUS
<1>2. DOMAIN (u \o q) = 1..(Len(u) + Len(q))
  BY <1>1
<1>3. \A k \in 1..Len(u) : (u \o q)[k] = u[k]
  OBVIOUS
<1>4. \A k \in 1..Len(q) : (u \o q)[Len(u) + k] = q[k]
  OBVIOUS
<1> QED BY <1>1, <1>2, <1>3, <1>4

LEMMA SeqOfFunction ==
  ASSUME NEW S, NEW n \in Nat, NEW f \in [1..n -> S]
  PROVE  f \in Seq(S) /\ Len(f) = n
  OBVIOUS

\* What closing a socket makes of the completion queue: the completions of the
\* operations pending on it follow, each once.
LEMMA Aborted ==
  ASSUME IInv, NEW s \in Slots, NEW aborted \in SUBSET posted,
         NEW q \in SetToSeqs({Completion(o, "fail") : o \in aborted}),
         iocp' = [i \in DOMAIN (iocp \o q) |-> Outdate((iocp \o q)[i], s)]
  PROVE  /\ iocp' \in Seq(Completions)
         /\ \A ov : Queued(ov)' => Queued(ov) \/ \E o \in aborted : o.ov = ov
         /\ \A ov : /\ QueuedOnce(ov) /\ PostedOnce(ov) /\ (Posted(ov) => ~Queued(ov))
                    => QueuedOnce(ov)'
         /\ \A k \in 1..Len(iocp') :
              \/ \E i \in 1..Len(iocp) : iocp'[k].ov = iocp[i].ov /\ iocp'[k].res = iocp[i].res
              \/ \E o \in aborted : iocp'[k].ov = o.ov
<1> DEFINE Q == {Completion(o, "fail") : o \in aborted}
           n == Cardinality(Q)
           m == Len(iocp)
<1>1. Q \subseteq Completions
  BY CompletionType DEF IInv, Types
<1>2. n \in Nat
  <2>1. IsFiniteSet(aborted)
    BY FS_Subset DEF IInv
  <2>2. [o \in aborted |-> Completion(o, "fail")] \in Surjection(aborted, Q)
    BY DEF Surjection
  <2>3. IsFiniteSet(Q)
    BY <2>1, <2>2, FS_Surjection
  <2> QED BY <2>3, FS_CardinalityType
<1>3. q \in [1..n -> Q] /\ \A i, j \in 1..n : i # j => q[i] # q[j]
  BY DEF SetToSeqs
<1>4. iocp \in Seq(Completions) /\ m \in Nat
  BY DEF IInv, Types
<1>5. ASSUME NEW i \in 1..n
      PROVE  \E o \in aborted : q[i] = Completion(o, "fail")
  BY <1>3
<1> HIDE DEF Q, n
<1>6. q \in Seq(Completions) /\ Len(q) = n
  BY <1>1, <1>2, <1>3
<1>7. /\ iocp \o q \in Seq(Completions) /\ Len(iocp \o q) = m + n
      /\ DOMAIN (iocp \o q) = 1..(m + n)
      /\ \A k \in 1..m : (iocp \o q)[k] = iocp[k]
      /\ \A k \in 1..n : (iocp \o q)[m + k] = q[k]
  <2>1. /\ iocp \o q \in Seq(Completions) /\ Len(iocp \o q) = Len(iocp) + Len(q)
        /\ DOMAIN (iocp \o q) = 1..(Len(iocp) + Len(q))
        /\ \A k \in 1..Len(iocp) : (iocp \o q)[k] = iocp[k]
        /\ \A k \in 1..Len(q) : (iocp \o q)[Len(iocp) + k] = q[k]
    <3>1. iocp \in Seq(Completions) /\ q \in Seq(Completions)
      BY <1>4, <1>6
    <3>2. iocp \o q \in Seq(Completions) /\ Len(iocp \o q) = Len(iocp) + Len(q)
      BY <3>1, Concat
    <3>3. DOMAIN (iocp \o q) = 1..(Len(iocp) + Len(q))
      BY <3>1, Concat
    <3>4. \A k \in 1..Len(iocp) : (iocp \o q)[k] = iocp[k]
      BY <3>1, Concat
    <3>5. \A k \in 1..Len(q) : (iocp \o q)[Len(iocp) + k] = q[k]
      BY <3>1, Concat
    <3> QED BY <3>2, <3>3, <3>4, <3>5
  <2>2. Len(q) = n /\ Len(iocp) = m
    BY <1>6
  <2> HIDE DEF m
  <2> QED BY <2>1, <2>2, Zenon
<1>8. PICK r : r = iocp \o q
  OBVIOUS
<1> HIDE DEF m
<1>9. iocp' = [i \in 1..(m + n) |-> Outdate(r[i], s)] /\ m + n \in Nat
  BY <1>2, <1>4, <1>7, <1>8
<1>10. \A k \in 1..(m + n) :
         iocp'[k] \in Completions /\ iocp'[k].ov = r[k].ov /\ iocp'[k].res = r[k].res
  <2>1. ASSUME NEW k \in 1..(m + n)
        PROVE  r[k] \in Completions /\ iocp'[k] = Outdate(r[k], s)
    BY <1>7, <1>8, <1>9
  <2> QED BY <2>1, OutdateCompletion
<1>11. iocp' \in Seq(Completions) /\ Len(iocp') = m + n
  <2>1. iocp' \in [1..(m + n) -> Completions]
    BY <1>9, <1>10
  <2> QED BY <1>9, <2>1, SeqOfFunction
<1>12. ASSUME NEW k \in 1..(m + n)
       PROVE  \/ k \in 1..m /\ iocp'[k].ov = iocp[k].ov /\ iocp'[k].res = iocp[k].res
              \/ /\ k - m \in 1..n /\ iocp'[k].ov = q[k - m].ov
                 /\ \E o \in aborted : q[k - m] = Completion(o, "fail") /\ q[k - m].ov = o.ov
  <2>1. CASE k \in 1..m
    BY <1>7, <1>8, <1>10, <2>1
  <2>2. CASE k \notin 1..m
    <3>1. k - m \in 1..n /\ m + (k - m) = k
      BY <1>2, <1>4, <2>2
    <3>2. iocp'[k].ov = q[k - m].ov
      BY <1>7, <1>8, <1>10, <3>1
    <3>3. PICK o \in aborted : q[k - m] = Completion(o, "fail")
      BY <1>5, <3>1
    <3>4. q[k - m].ov = o.ov
      BY <3>3, CompletionType DEF IInv, Types
    <3> QED BY <3>1, <3>2, <3>3, <3>4
  <2> QED BY <2>1, <2>2
<1>13. ASSUME NEW ov, Queued(ov)'
       PROVE  Queued(ov) \/ \E o \in aborted : o.ov = ov
  <2>1. PICK k \in 1..(m + n) : iocp'[k].ov = ov
    BY <1>11, <1>13 DEF Queued
  <2> QED BY <1>12, <2>1 DEF Queued, m
<1>14. ASSUME NEW ov, QueuedOnce(ov), PostedOnce(ov), Posted(ov) => ~Queued(ov)
       PROVE  QueuedOnce(ov)'
  <2> SUFFICES ASSUME NEW j \in 1..(m + n), NEW k \in 1..(m + n),
                      iocp'[j].ov = ov, iocp'[k].ov = ov
               PROVE  j = k
    BY <1>11 DEF QueuedOnce
  <2>1. \A i \in 1..m : iocp[i].ov = ov => Queued(ov)
    BY DEF Queued, m
  <2>2. \A o \in aborted : o.ov = ov => Posted(ov)
    BY DEF Posted
  <2>3. CASE j \in 1..m /\ k \in 1..m /\ iocp[j].ov = ov /\ iocp[k].ov = ov
    BY <1>14, <2>3 DEF QueuedOnce, m
  <2>4. CASE /\ \E o \in aborted : q[j - m] = Completion(o, "fail") /\ o.ov = ov
             /\ \E o \in aborted : q[k - m] = Completion(o, "fail") /\ o.ov = ov
             /\ j - m \in 1..n /\ k - m \in 1..n
    <3>1. q[j - m] = q[k - m]
      BY <1>14, <2>4 DEF PostedOnce
    <3>2. j - m = k - m
      BY <1>3, <2>4, <3>1
    <3> QED BY <1>2, <1>4, <3>2
  <2> QED BY <1>12, <1>14, <2>1, <2>2, <2>3, <2>4
<1>15. ASSUME NEW k \in 1..Len(iocp')
       PROVE  \/ \E i \in 1..Len(iocp) :
                   iocp'[k].ov = iocp[i].ov /\ iocp'[k].res = iocp[i].res
              \/ \E o \in aborted : iocp'[k].ov = o.ov
  BY <1>11, <1>12 DEF m
<1> QED BY <1>11, <1>13, <1>14, <1>15

LEMMA ResetOK ==
  ASSUME IInv, NEW w \in Workers, Reset(w)
  PROVE  IInv'
<1>1. PICK s \in Slots : s = job[w].user
  BY JobFields DEF Reset, IInv, ThreadsOK
<1>2. PICK aborted \in SUBSET posted : aborted = {o \in posted : o.slot = s}
  OBVIOUS
<1>3. /\ pc[w] = "reset" /\ skt' = [skt EXCEPT ![s] = "fresh"]
      /\ posted' = posted \ aborted /\ Goto(w, "requeue")
      /\ job' = [v \in Workers |-> IF v = w \/ job[v] = NoJob THEN job[v] ELSE Outdate(job[v], s)]
      /\ acceptFailed' \subseteq acceptFailed \cup {s} /\ deaf' \subseteq deaf
      /\ UNCHANGED <<ovMem, ovLapPool, heap, AcceptQueue, target, buf, requests>>
  BY <1>1, <1>2 DEF Reset
<1>4. PICK q \in SetToSeqs({Completion(o, "fail") : o \in aborted}) :
        iocp' = [i \in DOMAIN (iocp \o q) |-> Outdate((iocp \o q)[i], s)]
  BY <1>1, <1>2 DEF Reset
<1>5. /\ iocp' \in Seq(Completions)
      /\ \A ov : Queued(ov)' => Queued(ov) \/ \E o \in aborted : o.ov = ov
      /\ \A ov : /\ QueuedOnce(ov) /\ PostedOnce(ov) /\ (Posted(ov) => ~Queued(ov))
                 => QueuedOnce(ov)'
  BY <1>4, Aborted
<1>6. ASSUME NEW v \in Workers
      PROVE  /\ job'[v] \in Jobs \cup {NoJob} /\ (job[v] \in Jobs => job'[v] \in Jobs)
             /\ job'[v].ov = job[v].ov /\ job'[v].task = job[v].task
  <2>1. job[v] \in Jobs \cup {NoJob}
    BY DEF IInv, Types
  <2>2. job'[v] = job[v] \/ (job[v] \in Jobs /\ job'[v] = Outdate(job[v], s))
    BY <1>3, <2>1
  <2> QED BY <2>1, <2>2, OutdateJob
<1>7. /\ w \in Threads /\ w \notin Accepters /\ w \notin Senders
      /\ pc' \in [Threads -> PlacesOf]
      /\ pc'[w] = "requeue" /\ \A v \in Threads \ {w} : pc'[v] = pc[v]
  BY <1>3, ThreadsAssumption DEF IInv, Types, Goto, Threads, PlacesOf
<1>8. ThreadsOK'
  <2>1. ASSUME NEW v \in Workers
        PROVE  (pc'[v] # "idle" => job'[v] \in Jobs) /\ (pc'[v] = "wsarecv" => buf'[v] \in Ovs)
    BY <1>3, <1>6, <1>7 DEF IInv, ThreadsOK, Threads
  <2>2. ASSUME NEW a \in Accepters
        PROVE  pc'[a] \in {"post", "pushBack"} => target'[a] \in Slots
    BY <1>3, <1>7 DEF IInv, ThreadsOK, Threads
  <2>3. ASSUME NEW r \in Senders
        PROVE  /\ pc'[r] \in {"answer", "send"} => target'[r] \in Slots
               /\ pc'[r] = "send" => buf'[r] \in Ovs
    BY <1>3, <1>7 DEF IInv, ThreadsOK, Threads
  <2> QED BY <2>1, <2>2, <2>3 DEF ThreadsOK
<1>9. job' \in [Workers -> Jobs \cup {NoJob}] /\ skt' \in [Slots -> States]
  BY <1>3, <1>6 DEF IInv, Types, States
<1>10. Types' /\ IsFiniteSet(posted)'
  <2>1. posted' \subseteq Ops /\ IsFiniteSet(posted)'
    BY <1>3, FS_Subset DEF IInv, Types
  <2> QED BY <1>3, <1>5, <1>7, <1>9, <2>1 DEF IInv, Types
<1>11. \A v \in Workers, ov \in Ovs : Uses(v, ov)' => Uses(v, ov) /\ job'[v].task = job[v].task
  BY <1>6, <1>7 DEF Uses, Threads
<1>12. ASSUME NEW ov \in Tracked
       PROVE  /\ Pooled(ov)' = Pooled(ov) /\ Held(ov)' = Held(ov)
              /\ Worked(ov)' => Worked(ov)
              /\ Posted(ov)' => Posted(ov)
              /\ Queued(ov)' => Queued(ov) \/ (Posted(ov) /\ ~Posted(ov)')
              /\ Once(ov)'
  <2>1. /\ Pooled(ov)' = Pooled(ov) /\ Held(ov)' = Held(ov)
        /\ PooledOnce(ov)' = PooledOnce(ov) /\ HeldOnce(ov)' = HeldOnce(ov)
    BY <1>3 DEF Pooled, Held, PooledOnce, HeldOnce
  <2>2. (Worked(ov)' => Worked(ov)) /\ WorkedOnce(ov)'
    BY <1>11, UsesLess, OvsFacts DEF IInv, Blocks, Once
  <2>3. (Posted(ov)' => Posted(ov)) /\ PostedOnce(ov)' /\ PostedOnce(ov)
    BY <1>3, PostedLess DEF IInv, Blocks, Once
  <2>4. (\E o \in aborted : o.ov = ov) => Posted(ov) /\ ~Posted(ov)'
    BY <1>3, <2>3 DEF Posted, PostedOnce
  <2>5. QueuedOnce(ov)'
    BY <1>5 DEF IInv, Blocks, Once, Apart
  <2>6. Once(ov)'
    BY <2>1, <2>2, <2>3, <2>5 DEF IInv, Blocks, Once
  <2> QED BY <1>5, <2>1, <2>2, <2>3, <2>4, <2>6
<1>13. Blocks'
  <2>1. ASSUME NEW ov \in Tracked PROVE Apart(ov)'
    BY <1>12 DEF IInv, Blocks, Apart
  <2> QED BY <1>12, <2>1 DEF Blocks
<1>14. HeapOK'
  <2>1. HeapOvs \subseteq Tracked /\ HeapOvs \subseteq Ovs
    BY OvsFacts DEF Tracked
  <2>2. \A ov \in HeapOvs : \A v \in Workers : Uses(v, ov)' => job'[v].task = "NEWSEND"
    BY <1>11, <2>1 DEF IInv, HeapOK
  <2> QED BY <1>3, <1>12, <2>1, <2>2, HeapKept DEF IInv
<1> QED BY <1>8, <1>10, <1>13, <1>14 DEF IInv

-----------------------------------------------------------------------------
(* The Redis threads.                                                       *)

LEMMA TakeRequestOK ==
  ASSUME IInv, NEW r \in Senders, NEW s \in Slots, TakeRequest(r, s)
  PROVE  IInv'
<1>1. /\ requests < MaxRequests /\ requests' = requests + 1
      /\ target' = [target EXCEPT ![r] = s] /\ Goto(r, "answer")
      /\ UNCHANGED <<ovMem, ovLapPool, heap, AcceptQueue, skt, posted, iocp, job, buf,
                     acceptFailed, deaf>>
  BY DEF TakeRequest
<1>2. r \in Threads \ Workers /\ r \notin Accepters
  BY ThreadsAssumption DEF Threads
<1>3. /\ pc' \in [Threads -> PlacesOf]
      /\ pc'[r] = "answer" /\ \A v \in Threads \ {r} : pc'[v] = pc[v]
      /\ \A w \in Workers : pc'[w] = pc[w]
  BY <1>1, <1>2, OtherThread DEF IInv, PlacesOf
<1>4. /\ target' \in [Accepters \cup Senders -> Slots \cup {NoSlot}]
      /\ target'[r] \in Slots
      /\ \A v \in (Accepters \cup Senders) \ {r} : target'[v] = target[v]
  BY <1>1 DEF IInv, Types
<1>5. requests' \in 0..MaxRequests
  BY <1>1, BoundsAssumption DEF IInv, Types
<1>6. Types' /\ IsFiniteSet(posted)'
  BY <1>1, <1>3, <1>4, <1>5 DEF IInv, Types
<1>7. ThreadsOK'
  BY <1>1, <1>2, <1>3, <1>4 DEF IInv, ThreadsOK, Threads
<1>8. Blocks' /\ HeapOK'
  BY <1>1, <1>3, NothingMoves, PostedSame DEF IInv, Uses
<1> QED BY <1>6, <1>7, <1>8 DEF IInv

LEMMA GetSendOvOK ==
  ASSUME IInv, NEW r \in Senders, GetSendOv(r)
  PROVE  IInv'
<1>1. /\ pc[r] = "answer" /\ Goto(r, "send")
      /\ UNCHANGED <<AcceptQueue, skt, posted, iocp, job, target, requests, acceptFailed, deaf>>
  BY DEF GetSendOv
<1>2. target[r] \in Slots
  BY <1>1 DEF IInv, ThreadsOK
<1>3. PICK b : /\ b \in IF ovLapPool # <<>> THEN {Head(ovLapPool)} ELSE HeapOvs \ heap
               /\ buf' = [buf EXCEPT ![r] = b]
               /\ ovLapPool' = IF ovLapPool # <<>> THEN Tail(ovLapPool) ELSE <<>>
               /\ heap' = IF ovLapPool # <<>> THEN heap ELSE heap \cup {b}
               /\ ovMem' = [ovMem EXCEPT ![b] =
                              [taskType |-> IF ovLapPool # <<>> THEN "SEND" ELSE "NEWSEND",
                               connObjNum |-> target[r]]]
  BY DEF GetSendOv
<1>4. PICK k \in {"SEND", "NEWSEND"} : k = IF ovLapPool # <<>> THEN "SEND" ELSE "NEWSEND"
  OBVIOUS
<1>5. PICK m : m = [taskType |-> k, connObjNum |-> target[r]]
  OBVIOUS
<1>6. m \in Mems /\ m.taskType = k
  BY <1>2, <1>5, MemType DEF TaskType
<1>7. ovMem' = [ovMem EXCEPT ![b] = m]
  BY <1>3, <1>4, <1>5
\* The block is the pool's first, or one that is nowhere.
<1>8. /\ b \in Ovs /\ ovLapPool' \in Seq(Ovs)
      /\ heap \subseteq heap' /\ heap' \subseteq HeapOvs
      /\ \/ b \notin HeapOvs /\ Pooled(b)
         \/ b \in HeapOvs /\ k = "NEWSEND" /\ b \in heap' /\ b \notin heap
      /\ \A ov : PooledOnce(ov) => PooledOnce(ov)' /\ (Pooled(ov)' => Pooled(ov) /\ ov # b)
  <2>1. CASE ovLapPool # <<>>
    <3>1. b = Head(ovLapPool) /\ ovLapPool' = Tail(ovLapPool) /\ heap' = heap
      BY <1>3, <2>1
    <3>2. /\ ovLapPool' \in Seq(Ovs) /\ b \in Ovs /\ Pooled(b)
          /\ \A ov : PooledOnce(ov) => PooledOnce(ov)' /\ (Pooled(ov)' => Pooled(ov) /\ ov # b)
      BY <2>1, <3>1, PoolPop DEF IInv, Types
    <3> QED BY <3>1, <3>2 DEF IInv, Types, HeapOK
  <2>2. CASE ovLapPool = <<>>
    <3>1. /\ b \in HeapOvs \ heap /\ ovLapPool' = <<>> /\ heap' = heap \cup {b} /\ k = "NEWSEND"
      BY <1>3, <1>4, <2>2
    <3>2. \A ov : PooledOnce(ov)' /\ ~Pooled(ov)'
      BY <3>1 DEF PooledOnce, Pooled
    <3>3. b \in Ovs
      BY <3>1 DEF Ovs
    <3> QED BY <3>1, <3>2, <3>3 DEF IInv, Types
  <2> QED BY <2>1, <2>2
<1>9. /\ buf' \in [Workers \cup Senders -> Ovs \cup {NoOv}]
      /\ buf'[r] = b /\ \A v \in (Workers \cup Senders) \ {r} : buf'[v] = buf[v]
      /\ \A ov : /\ Held(ov)' => Held(ov) \/ ov = b
                 /\ HeldOnce(ov) /\ (ov = b => ~Held(ov)) => HeldOnce(ov)'
  BY <1>3, <1>8, BufSet DEF IInv
<1>10. r \in Threads \ Workers /\ r \notin Accepters
  BY ThreadsAssumption DEF Threads
<1>11. /\ pc' \in [Threads -> PlacesOf]
       /\ pc'[r] = "send" /\ \A v \in Threads \ {r} : pc'[v] = pc[v]
       /\ \A w \in Workers : pc'[w] = pc[w]
  BY <1>1, <1>10, OtherThread DEF IInv, PlacesOf
<1>12. Types' /\ IsFiniteSet(posted)'
  <2>1. ovMem' \in [Ovs -> Mems]
    BY <1>6, <1>7 DEF IInv, Types
  <2> QED BY <1>1, <1>8, <1>9, <1>11, <2>1 DEF IInv, Types
<1>13. ThreadsOK'
  BY <1>1, <1>2, <1>8, <1>9, <1>10, <1>11 DEF IInv, ThreadsOK, Threads
<1>14. \A v \in Workers, ov \in Ovs : Uses(v, ov)' = Uses(v, ov)
  BY <1>1, <1>11 DEF Uses
\* Before the step b is in the pool or nowhere.
<1>15. b \in Tracked => ~Posted(b) /\ ~Queued(b) /\ ~Worked(b) /\ ~Held(b)
  BY <1>8 DEF IInv, Blocks, Apart, HeapOK
<1>16. ASSUME NEW ov \in Tracked
       PROVE  /\ Queued(ov)' = Queued(ov) /\ Posted(ov)' = Posted(ov)
              /\ Worked(ov)' => Worked(ov)
              /\ Pooled(ov)' => Pooled(ov) /\ ov # b
              /\ Once(ov)'
  <2>1. /\ Queued(ov)' = Queued(ov) /\ Posted(ov)' = Posted(ov)
        /\ QueuedOnce(ov)' = QueuedOnce(ov) /\ PostedOnce(ov)' = PostedOnce(ov)
    BY <1>1 DEF Queued, Posted, QueuedOnce, PostedOnce
  <2>2. (Worked(ov)' => Worked(ov)) /\ WorkedOnce(ov)'
    BY <1>14, UsesLess, OvsFacts DEF IInv, Blocks, Once
  <2>3. HeldOnce(ov)'
    BY <1>9, <1>15 DEF IInv, Blocks, Once
  <2>4. PooledOnce(ov)' /\ (Pooled(ov)' => Pooled(ov) /\ ov # b)
    BY <1>8 DEF IInv, Blocks, Once
  <2>5. Once(ov)'
    BY <2>1, <2>2, <2>3, <2>4 DEF IInv, Blocks, Once
  <2> QED BY <2>1, <2>2, <2>4, <2>5
<1>17. Blocks'
  <2>1. ASSUME NEW ov \in Tracked PROVE Apart(ov)'
    BY <1>9, <1>15, <1>16 DEF IInv, Blocks, Apart
  <2> QED BY <1>16, <2>1 DEF Blocks
<1>18. HeapOK'
  <2> SUFFICES ASSUME NEW ov \in HeapOvs
               PROVE  /\ ~Pooled(ov)'
                      /\ Posted(ov)' \/ Queued(ov)' \/ Worked(ov)' \/ Held(ov)' => ov \in heap'
                      /\ Posted(ov)' \/ Queued(ov)' \/ Held(ov)' =>
                           ovMem'[ov].taskType = "NEWSEND"
                      /\ \A v \in Workers : Uses(v, ov)' => job'[v].task = "NEWSEND"
    BY DEF HeapOK
  <2>1. ov \in Tracked /\ ov \in Ovs
    BY OvsFacts DEF Tracked
  <2>2. ~Pooled(ov)'
    BY <1>16, <2>1 DEF IInv, HeapOK
  <2>3. \A v \in Workers : Uses(v, ov)' => job'[v].task = "NEWSEND"
    BY <1>1, <1>14, <2>1 DEF IInv, HeapOK
  <2>4. CASE ov = b
    <3>1. ovMem'[ov] = m /\ k = "NEWSEND" /\ ov \in heap'
      BY <1>7, <1>8, <2>1, <2>4 DEF IInv, Types
    <3> QED BY <1>6, <2>2, <2>3, <3>1
  <2>5. CASE ov # b
    <3>1. ovMem'[ov] = ovMem[ov]
      BY <1>7, <2>5 DEF IInv, Types
    <3>2. Held(ov)' => Held(ov)
      BY <1>9, <2>5
    <3> QED BY <1>8, <1>16, <2>1, <2>2, <2>3, <3>1, <3>2 DEF IInv, HeapOK
  <2> QED BY <2>4, <2>5
<1> QED BY <1>12, <1>13, <1>17, <1>18 DEF IInv

LEMMA WSASendOK ==
  ASSUME IInv, NEW r \in Senders, WSASend(r)
  PROVE  IInv'
<1>1. PICK x : x = [op |-> "SEND", ov |-> buf[r], slot |-> target[r]]
  OBVIOUS
<1>2. /\ pc[r] = "send" /\ buf[r] \in Ovs /\ target[r] \in Slots
      /\ posted' = posted \/ posted' = posted \cup {x}
      /\ target' = [target EXCEPT ![r] = NoSlot]
      /\ buf' = [buf EXCEPT ![r] = NoOv] /\ Goto(r, "idle")
      /\ UNCHANGED <<ovMem, ovLapPool, heap, AcceptQueue, skt, iocp, job, requests,
                     acceptFailed, deaf>>
  BY <1>1 DEF WSASend, IInv, ThreadsOK
<1>3. x \in Ops /\ x.ov = buf[r]
  BY <1>1, <1>2, OpType
<1>4. r \in Threads \ Workers /\ r \notin Accepters
  BY ThreadsAssumption DEF Threads
<1>5. /\ pc' \in [Threads -> PlacesOf]
      /\ pc'[r] = "idle" /\ \A v \in Threads \ {r} : pc'[v] = pc[v]
      /\ \A w \in Workers : pc'[w] = pc[w]
  BY <1>2, <1>4, OtherThread DEF IInv, PlacesOf
<1>6. /\ target' \in [Accepters \cup Senders -> Slots \cup {NoSlot}]
      /\ \A v \in (Accepters \cup Senders) \ {r} : target'[v] = target[v]
      /\ buf' \in [Workers \cup Senders -> Ovs \cup {NoOv}]
      /\ \A v \in (Workers \cup Senders) \ {r} : buf'[v] = buf[v]
  BY <1>2 DEF IInv, Types
<1>7. posted' \subseteq Ops /\ IsFiniteSet(posted')
  <2>1. posted \cup {x} \subseteq Ops /\ IsFiniteSet(posted \cup {x})
    BY <1>3, FS_AddElement DEF IInv, Types
  <2> QED BY <1>2, <2>1 DEF IInv, Types
<1>8. Types'
  BY <1>2, <1>5, <1>6, <1>7 DEF IInv, Types
<1>9. ThreadsOK'
  BY <1>2, <1>4, <1>5, <1>6 DEF IInv, ThreadsOK, Threads
<1>10. \A v \in Workers, ov \in Ovs : Uses(v, ov)' => Uses(v, ov) /\ job'[v].task = job[v].task
  BY <1>2, <1>5 DEF Uses
<1>11. Blocks' /\ HeapOK'
  BY <1>2, <1>3, <1>10, BufPosted
<1> QED BY <1>7, <1>8, <1>9, <1>11 DEF IInv

-----------------------------------------------------------------------------
(* The ConnUsers' own blocks.                                               *)

\* The acceptOvlap of slot s serves accepts of s only, and says so; it is never
\* returned and never taken from the pool.
OwnOK(s) ==
  /\ ~Pooled(AcceptOv(s)) /\ ~Held(AcceptOv(s))
  /\ \A o \in posted : o.ov = AcceptOv(s) => o.op = "ACCEPT" /\ o.slot = s
  /\ \A k \in 1..Len(iocp) : iocp[k].ov = AcceptOv(s) => iocp[k].res = "zero"
  /\ Posted(AcceptOv(s)) \/ Queued(AcceptOv(s)) => ovMem[AcceptOv(s)].taskType = "ACCEPT"
  /\ \A w \in Workers : Uses(w, AcceptOv(s)) =>
       job[w].task = "ACCEPT" /\ pc[w] \notin {"return", "disconnect"}

Own == \A s \in Slots : s \notin acceptFailed => OwnOK(s)

LEMMA AcceptOvApart ==
  ASSUME NEW s \in Slots, NEW t \in Slots, AcceptOv(s) = AcceptOv(t)
  PROVE  s = t
  BY DEF AcceptOv

\* Nothing is posted, completed or returned.
LEMMA OwnUnmoved ==
  ASSUME Own, UNCHANGED <<ovMem, ovLapPool, posted, iocp, buf>>,
         acceptFailed \subseteq acceptFailed',
         \A w \in Workers, ov \in Ovs :
           Uses(w, ov)' => /\ Uses(w, ov) /\ job'[w].task = job[w].task
                           /\ pc'[w] \in {"return", "disconnect"} =>
                                pc[w] \in {"return", "disconnect"} \/ job[w].task # "ACCEPT"
  PROVE  Own'
<1> SUFFICES ASSUME NEW s \in Slots, s \notin acceptFailed' PROVE OwnOK(s)'
  BY DEF Own
<1>1. OwnOK(s) /\ AcceptOv(s) \in Ovs
  BY OvsFacts DEF Own
<1> QED BY <1>1 DEF OwnOK, AcceptOv, Pooled, Held, Posted, Queued

LEMMA FinishOwn ==
  ASSUME IInv, Own, NEW o \in posted, NEW res \in {"bytes", "zero", "fail"}, Finish(o, res),
         res = "bytes" => o.op # "ACCEPT"
  PROVE  Own'
<1> SUFFICES ASSUME NEW s \in Slots, s \notin acceptFailed' PROVE OwnOK(s)'
  BY DEF Own
<1>1. /\ posted' = posted \ {o} /\ iocp' = Append(iocp, Completion(o, res))
      /\ UNCHANGED <<ovMem, ovLapPool, job, pc, buf>>
      /\ acceptFailed' = IF o.op = "ACCEPT" /\ res = "fail" THEN acceptFailed \cup {o.slot}
                         ELSE acceptFailed
  BY DEF Finish
<1>2. s \notin acceptFailed /\ OwnOK(s)
  BY <1>1 DEF Own
<1>3. /\ Completion(o, res).ov = o.ov /\ Completion(o, res).res = res
      /\ o \in Ops /\ iocp \in Seq(Completions)
  BY DEF Completion, IInv, Types
<1>4. o.ov = AcceptOv(s) => res = "zero"
  BY <1>1, <1>2 DEF OwnOK
<1>5. \A k \in 1..Len(iocp') :
        \/ k \in 1..Len(iocp) /\ iocp'[k] = iocp[k]
        \/ iocp'[k] = Completion(o, res)
  BY <1>1, <1>3
<1>6. \A k \in 1..Len(iocp') : iocp'[k].ov = AcceptOv(s) => iocp'[k].res = "zero"
  BY <1>2, <1>3, <1>4, <1>5 DEF OwnOK
<1>7. Posted(AcceptOv(s))' \/ Queued(AcceptOv(s))' => Posted(AcceptOv(s)) \/ Queued(AcceptOv(s))
  BY <1>1, <1>3, <1>5 DEF Posted, Queued, AcceptOv
<1> QED BY <1>1, <1>2, <1>6, <1>7 DEF OwnOK, AcceptOv, Pooled, Held, Uses

LEMMA ClientOwn ==
  ASSUME IInv, Own, Client
  PROVE  Own'
<1>1. ASSUME NEW o \in posted, Connect(o) \/ ConnectFails(o) \/ Data(o) \/ Sent(o) \/ Gone(o)
      PROVE  Own'
  <2>1. PICK res \in {"bytes", "zero", "fail"} :
          Finish(o, res) /\ (res = "bytes" => o.op # "ACCEPT")
    BY <1>1 DEF Connect, ConnectFails, Data, Sent, Gone
  <2> QED BY <2>1, FinishOwn
<1>2. ASSUME NEW s \in Slots, Leave(s)
      PROVE  Own'
  BY <1>2, OwnUnmoved DEF Leave, Uses
<1> QED BY <1>1, <1>2 DEF Client

LEMMA PostAcceptOwn ==
  ASSUME IInv, Own, NEW a \in Accepters, PostAccept(a)
  PROVE  Own'
<1> SUFFICES ASSUME NEW s \in Slots, s \notin acceptFailed' PROVE OwnOK(s)'
  BY DEF Own
<1>1. PICK t \in Slots : t = target[a]
  BY DEF PostAccept, IInv, ThreadsOK
<1>2. PICK m : m = [taskType |-> "ACCEPT", connObjNum |-> t]
  OBVIOUS
<1>3. PICK x : x = [op |-> "ACCEPT", ov |-> AcceptOv(t), slot |-> t]
  OBVIOUS
<1>4. /\ ovMem' = [ovMem EXCEPT ![AcceptOv(t)] = m]
      /\ UNCHANGED <<ovLapPool, iocp, job, buf, acceptFailed>>
      /\ posted' = posted \cup {x} \/ posted' = posted
  BY <1>1, <1>2, <1>3 DEF PostAccept
<1>5. PICK l \in {"idle", "pushBack"} : Goto(a, l)
  BY DEF PostAccept
<1>6. \A w \in Workers : pc'[w] = pc[w]
  BY <1>5, OtherThread, ThreadsAssumption DEF IInv, PlacesOf, Threads
<1>7. OwnOK(s) /\ AcceptOv(s) \in Ovs /\ AcceptOv(t) \in Ovs
  BY <1>4, OvsFacts DEF Own
<1>8. /\ \A o \in posted' : o.ov = AcceptOv(s) => o.op = "ACCEPT" /\ o.slot = s
      /\ Posted(AcceptOv(s))' => Posted(AcceptOv(s)) \/ s = t
  BY <1>3, <1>4, <1>7, AcceptOvApart DEF OwnOK, Posted, AcceptOv
<1>9. ovMem'[AcceptOv(s)] = IF s = t THEN m ELSE ovMem[AcceptOv(s)]
  BY <1>4, <1>7, AcceptOvApart DEF IInv, Types
<1>10. m.taskType = "ACCEPT"
  BY <1>2
<1>11. Posted(AcceptOv(s))' \/ Queued(AcceptOv(s))' => ovMem'[AcceptOv(s)].taskType = "ACCEPT"
  BY <1>4, <1>7, <1>8, <1>9, <1>10 DEF OwnOK, Queued, AcceptOv
<1> QED BY <1>4, <1>6, <1>7, <1>8, <1>11 DEF OwnOK, AcceptOv, Pooled, Held, Uses

LEMMA DequeueOwn ==
  ASSUME IInv, Own, NEW w \in Workers, Dequeue(w)
  PROVE  Own'
<1> SUFFICES ASSUME NEW s \in Slots, s \notin acceptFailed' PROVE OwnOK(s)'
  BY DEF Own
<1> DEFINE c == Head(iocp)
           j == [ov |-> c.ov, user |-> ovMem[c.ov].connObjNum, task |-> ovMem[c.ov].taskType,
                 slot |-> c.slot, old |-> c.old]
<1>1. /\ iocp # <<>> /\ iocp' = Tail(iocp)
      /\ job' = [job EXCEPT ![w] = j] /\ Goto(w, Branch(c))
      /\ UNCHANGED <<ovMem, ovLapPool, posted, buf, acceptFailed>>
  BY DEF Dequeue
<1>2. OwnOK(s) /\ w \in Threads /\ iocp \in Seq(Completions)
  BY <1>1 DEF Own, IInv, Types, Threads
<1>3. /\ c = iocp[1] /\ 1 \in 1..Len(iocp)
      /\ \A k \in 1..Len(iocp') : k + 1 \in 1..Len(iocp) /\ iocp'[k] = iocp[k + 1]
  BY <1>1, <1>2
<1>4. /\ job'[w] = j /\ \A v \in Workers \ {w} : job'[v] = job[v]
      /\ pc'[w] = Branch(c) /\ \A v \in Workers \ {w} : pc'[v] = pc[v]
  BY <1>1, <1>2 DEF IInv, Types, Goto, Threads
<1>5. c.ov = AcceptOv(s) => Branch(c) = "recv" /\ j.task = "ACCEPT"
  <2> SUFFICES ASSUME c.ov = AcceptOv(s) PROVE Branch(c) = "recv" /\ j.task = "ACCEPT"
    OBVIOUS
  <2>1. c.res = "zero" /\ ovMem[c.ov].taskType = "ACCEPT"
    BY <1>2, <1>3 DEF OwnOK, Queued
  <2> QED BY <2>1 DEF Branch
<1>6. ASSUME NEW v \in Workers, Uses(v, AcceptOv(s))'
      PROVE  job'[v].task = "ACCEPT" /\ pc'[v] \notin {"return", "disconnect"}
  <2>1. CASE v = w
    <3>1. c.ov = AcceptOv(s)
      BY <1>4, <1>6, <2>1 DEF Uses, AcceptOv
    <3> QED BY <1>4, <1>5, <2>1, <3>1
  <2>2. CASE v # w
    BY <1>2, <1>4, <1>6, <2>2 DEF Uses, OwnOK, AcceptOv
  <2> QED BY <2>1, <2>2
<1>7. /\ \A k \in 1..Len(iocp') : iocp'[k].ov = AcceptOv(s) => iocp'[k].res = "zero"
      /\ Queued(AcceptOv(s))' => Queued(AcceptOv(s))
  BY <1>2, <1>3 DEF OwnOK, Queued, AcceptOv
<1> QED BY <1>1, <1>2, <1>6, <1>7 DEF OwnOK, AcceptOv, Pooled, Held, Posted

\* What worker w's step leaves to the others.
LEMMA OtherJobs ==
  ASSUME IInv, NEW w \in Workers, NEW l, Goto(w, l),
         \A v \in Workers \ {w} : job'[v] = job[v]
  PROVE  /\ pc'[w] = l /\ \A v \in Workers \ {w} : pc'[v] = pc[v]
         /\ \A v \in Workers \ {w}, ov \in Ovs :
              Uses(v, ov)' => Uses(v, ov) /\ job'[v] = job[v] /\ pc'[v] = pc[v]
<1>1. pc'[w] = l /\ \A v \in Workers \ {w} : pc'[v] = pc[v]
  BY DEF IInv, Types, Goto, Threads
<1> QED BY <1>1 DEF Uses

LEMMA ReturnOvLapOwn ==
  ASSUME IInv, Own, NEW w \in Workers, ReturnOvLap(w)
  PROVE  Own'
<1> SUFFICES ASSUME NEW s \in Slots, s \notin acceptFailed' PROVE OwnOK(s)'
  BY DEF Own
<1>1. PICK b \in Ovs : b = job[w].ov
  BY JobFields DEF ReturnOvLap, IInv, ThreadsOK
<1>2. /\ pc[w] \in {"return", "disconnect"} /\ Uses(w, b)
      /\ UNCHANGED <<posted, iocp, buf, acceptFailed>>
      /\ \/ UNCHANGED <<ovMem, ovLapPool>>
         \/ ovMem' = [ovMem EXCEPT ![b] = ZeroMemory] /\ ovLapPool' = Append(ovLapPool, b)
  BY <1>1 DEF ReturnOvLap, Uses
<1>3. PICK l \in {"reset", "idle"} : Goto(w, l) /\ \A v \in Workers \ {w} : job'[v] = job[v]
  BY DEF ReturnOvLap, IInv, Types
<1>4. OwnOK(s) /\ AcceptOv(s) \in Ovs /\ b # AcceptOv(s)
  BY <1>2, OvsFacts DEF Own, OwnOK
<1>5. ovMem'[AcceptOv(s)] = ovMem[AcceptOv(s)] /\ (Pooled(AcceptOv(s))' => Pooled(AcceptOv(s)))
  <2>1. CASE UNCHANGED <<ovMem, ovLapPool>>
    BY <2>1 DEF Pooled, AcceptOv
  <2>2. CASE ovMem' = [ovMem EXCEPT ![b] = ZeroMemory] /\ ovLapPool' = Append(ovLapPool, b)
    <3>1. \A ov : Pooled(ov)' => Pooled(ov) \/ ov = b
      BY <2>2, PoolPush DEF IInv, Types
    <3> QED BY <1>4, <2>2, <3>1 DEF IInv, Types, Pooled, AcceptOv
  <2> QED BY <1>2, <2>1, <2>2
<1>6. ASSUME NEW v \in Workers, Uses(v, AcceptOv(s))'
      PROVE  job'[v].task = "ACCEPT" /\ pc'[v] \notin {"return", "disconnect"}
  BY <1>3, <1>4, <1>6, OtherJobs DEF Uses, OwnOK, AcceptOv
<1> QED BY <1>2, <1>4, <1>5, <1>6 DEF OwnOK, AcceptOv, Held, Posted, Queued

LEMMA GetRecvOvOwn ==
  ASSUME IInv, Own, NEW w \in Workers, GetRecvOv(w)
  PROVE  Own'
<1>1. /\ pc[w] = "recv" /\ UNCHANGED <<posted, iocp, job, acceptFailed>>
      /\ \/ Goto(w, "recvFailed") /\ UNCHANGED <<buf, ovLapPool, ovMem>>
         \/ /\ ovLapPool # <<>> /\ buf' = [buf EXCEPT ![w] = Head(ovLapPool)]
            /\ ovLapPool' = Tail(ovLapPool) /\ Goto(w, "wsarecv")
            /\ ovMem' = [ovMem EXCEPT ![Head(ovLapPool)] =
                           [taskType |-> "RECV", connObjNum |-> job[w].user]]
  BY DEF GetRecvOv
<1>2. PICK l \in {"wsarecv", "recvFailed"} : Goto(w, l)
  BY <1>1
<1>3. ASSUME NEW v \in Workers, NEW ov \in Ovs, Uses(v, ov)'
      PROVE  /\ Uses(v, ov) /\ job'[v] = job[v]
             /\ pc'[v] \in {"return", "disconnect"} => pc[v] \in {"return", "disconnect"}
  BY <1>1, <1>2, <1>3, OtherJobs DEF Uses
<1>4. CASE UNCHANGED <<buf, ovLapPool, ovMem>>
  BY <1>1, <1>3, <1>4, OwnUnmoved
<1>5. CASE /\ ovLapPool # <<>> /\ buf' = [buf EXCEPT ![w] = Head(ovLapPool)]
           /\ ovLapPool' = Tail(ovLapPool)
           /\ ovMem' = [ovMem EXCEPT ![Head(ovLapPool)] =
                          [taskType |-> "RECV", connObjNum |-> job[w].user]]
  <2> SUFFICES ASSUME NEW s \in Slots, s \notin acceptFailed' PROVE OwnOK(s)'
    BY DEF Own
  <2>1. PICK b : b = Head(ovLapPool)
    OBVIOUS
  <2>2. OwnOK(s) /\ AcceptOv(s) \in Ovs
    BY <1>1, OvsFacts DEF Own
  <2>3. b \in Ovs /\ Pooled(b) /\ b # AcceptOv(s)
    BY <1>5, <2>1, <2>2, PoolPop DEF IInv, Types, OwnOK
  <2>4. ~Pooled(AcceptOv(s))'
    <3>1. \A k \in 1..Len(ovLapPool') :
            k + 1 \in 1..Len(ovLapPool) /\ ovLapPool'[k] = ovLapPool[k + 1]
      BY <1>5 DEF IInv, Types
    <3> QED BY <2>2, <3>1 DEF OwnOK, Pooled, AcceptOv
  <2>5. ~Held(AcceptOv(s))'
    BY <1>5, <2>1, <2>2, <2>3, BufSet DEF IInv, OwnOK, AcceptOv
  <2>6. ovMem'[AcceptOv(s)] = ovMem[AcceptOv(s)]
    BY <1>5, <2>1, <2>2, <2>3 DEF IInv, Types
  <2> QED BY <1>1, <1>3, <2>2, <2>4, <2>5, <2>6 DEF OwnOK, AcceptOv, Posted, Queued
<1> QED BY <1>1, <1>4, <1>5

\* A block in a thread's buffer is no slot's own: it may be posted.
LEMMA BufOwn ==
  ASSUME IInv, Own, NEW t \in Workers \cup Senders,
         NEW x, x.ov = buf[t], posted' = posted \cup {x} \/ posted' = posted,
         buf' = [buf EXCEPT ![t] = NoOv],
         UNCHANGED <<ovMem, ovLapPool, iocp, acceptFailed>>,
         \A w \in Workers, ov \in Ovs :
           Uses(w, ov)' => /\ Uses(w, ov) /\ job'[w].task = job[w].task
                           /\ pc'[w] \in {"return", "disconnect"} =>
                                pc[w] \in {"return", "disconnect"} \/ job[w].task # "ACCEPT"
  PROVE  Own'
<1> SUFFICES ASSUME NEW s \in Slots, s \notin acceptFailed' PROVE OwnOK(s)'
  BY DEF Own
<1>1. OwnOK(s) /\ AcceptOv(s) \in Ovs /\ AcceptOv(s) # NoOv
  BY OvsFacts DEF Own
<1>2. ~Held(AcceptOv(s))'
  BY <1>1, BufSet DEF IInv, OwnOK, AcceptOv
<1>3. x.ov # AcceptOv(s)
  BY <1>1 DEF OwnOK, Held
<1>4. \A o \in posted' : o.ov = AcceptOv(s) => o \in posted
  BY <1>3
<1> QED BY <1>1, <1>2, <1>4 DEF OwnOK, AcceptOv, Pooled, Posted, Queued

LEMMA WSARecvOwn ==
  ASSUME IInv, Own, NEW w \in Workers, WSARecv(w)
  PROVE  Own'
<1>1. PICK x : x = [op |-> "RECV", ov |-> buf[w], slot |-> job[w].user]
  OBVIOUS
<1>2. /\ pc[w] = "wsarecv" /\ buf' = [buf EXCEPT ![w] = NoOv] /\ x.ov = buf[w]
      /\ UNCHANGED <<ovMem, ovLapPool, iocp, acceptFailed>>
      /\ posted' = posted \cup {x} \/ posted' = posted
  BY <1>1 DEF WSARecv
<1>3. PICK l \in {"idle", "return", "recvFailed"} :
        /\ Goto(w, l) /\ \A v \in Workers \ {w} : job'[v] = job[v]
        /\ l # "idle" => job'[w] = job[w]
        /\ l = "return" => job[w].task # "ACCEPT"
  <2>1. CASE Goto(w, "recvFailed") /\ UNCHANGED job
    BY <2>1
  <2>2. CASE /\ Goto(w, IF job[w].task = "ACCEPT" THEN "idle" ELSE "return")
             /\ job' = [job EXCEPT ![w] = IF @.task = "ACCEPT" THEN NoJob ELSE @]
    <3>1. CASE job[w].task = "ACCEPT"
      BY <2>2, <3>1 DEF IInv, Types
    <3>2. CASE job[w].task # "ACCEPT"
      BY <2>2, <3>2 DEF IInv, Types
    <3> QED BY <3>1, <3>2
  <2> QED BY <2>1, <2>2 DEF WSARecv
<1>4. ASSUME NEW v \in Workers, NEW ov \in Ovs, Uses(v, ov)'
      PROVE  /\ Uses(v, ov) /\ job'[v].task = job[v].task
             /\ pc'[v] \in {"return", "disconnect"} =>
                  pc[v] \in {"return", "disconnect"} \/ job[v].task # "ACCEPT"
  BY <1>2, <1>3, <1>4, OtherJobs DEF Uses
<1> QED BY <1>2, <1>4, BufOwn

LEMMA RecvFailedOwn ==
  ASSUME IInv, Own, NEW w \in Workers, RecvFailed(w)
  PROVE  Own'
<1>1. PICK l : l = IF job[w].task = "ACCEPT" THEN "reset" ELSE "return"
  OBVIOUS
<1>2. /\ pc[w] = "recvFailed" /\ Goto(w, l)
      /\ UNCHANGED <<ovMem, ovLapPool, posted, iocp, job, buf, acceptFailed>>
  BY <1>1 DEF RecvFailed
<1>3. ASSUME NEW v \in Workers, NEW ov \in Ovs, Uses(v, ov)'
      PROVE  /\ Uses(v, ov) /\ job'[v].task = job[v].task
             /\ pc'[v] \in {"return", "disconnect"} =>
                  pc[v] \in {"return", "disconnect"} \/ job[v].task # "ACCEPT"
  BY <1>1, <1>2, <1>3, OtherJobs DEF Uses
<1> QED BY <1>2, <1>3, OwnUnmoved

LEMMA ResetOwn ==
  ASSUME IInv, Own, NEW w \in Workers, Reset(w)
  PROVE  Own'
<1> SUFFICES ASSUME NEW s \in Slots, s \notin acceptFailed' PROVE OwnOK(s)'
  BY DEF Own
<1>1. PICK z \in Slots : z = job[w].user
  BY JobFields DEF Reset, IInv, ThreadsOK
<1>2. PICK aborted \in SUBSET posted : aborted = {o \in posted : o.slot = z}
  OBVIOUS
<1>3. /\ pc[w] = "reset" /\ posted' = posted \ aborted /\ Goto(w, "requeue")
      /\ job' = [v \in Workers |-> IF v = w \/ job[v] = NoJob THEN job[v] ELSE Outdate(job[v], z)]
      /\ acceptFailed' = acceptFailed \cup {o.slot : o \in {x \in aborted : x.op = "ACCEPT"}}
      /\ UNCHANGED <<ovMem, ovLapPool, buf>>
  BY <1>1, <1>2 DEF Reset
<1>4. PICK q \in SetToSeqs({Completion(o, "fail") : o \in aborted}) :
        iocp' = [i \in DOMAIN (iocp \o q) |-> Outdate((iocp \o q)[i], z)]
  BY <1>1, <1>2 DEF Reset
<1>5. OwnOK(s) /\ s \notin acceptFailed
  BY <1>3 DEF Own
\* No accept on slot s is pending if its socket is closed.
<1>6. \A o \in aborted : o.ov # AcceptOv(s)
  BY <1>2, <1>3, <1>5 DEF OwnOK
<1>7. ASSUME NEW k \in 1..Len(iocp'), iocp'[k].ov = AcceptOv(s)
      PROVE  \E i \in 1..Len(iocp) : iocp[i].ov = AcceptOv(s) /\ iocp[i].res = iocp'[k].res
  <2>1. \A i \in 1..Len(iocp') :
          \/ \E n \in 1..Len(iocp) : iocp'[i].ov = iocp[n].ov /\ iocp'[i].res = iocp[n].res
          \/ \E o \in aborted : iocp'[i].ov = o.ov
    BY <1>4, Aborted
  <2> QED BY <1>6, <1>7, <2>1
<1>8. ASSUME NEW v \in Workers, Uses(v, AcceptOv(s))'
      PROVE  job'[v].task = "ACCEPT" /\ pc'[v] \notin {"return", "disconnect"}
  <2>1. pc'[w] = "requeue" /\ \A u \in Workers \ {w} : pc'[u] = pc[u]
    BY <1>3 DEF IInv, Types, Goto, Threads
  <2>2. (v # w /\ job[v] \in Jobs /\ job[v] # NoJob) \/ job'[v] = job[v]
    BY <1>3, <1>8, <2>1 DEF Uses, IInv, Types
  <2>3. job'[v].ov = job[v].ov /\ job'[v].task = job[v].task
    BY <1>3, <2>2, OutdateJob
  <2> QED BY <1>5, <1>8, <2>1, <2>3 DEF Uses, OwnOK, AcceptOv
<1> QED BY <1>3, <1>5, <1>7, <1>8 DEF OwnOK, AcceptOv, Pooled, Held, Posted, Queued

LEMMA GetSendOvOwn ==
  ASSUME IInv, Own, NEW r \in Senders, GetSendOv(r)
  PROVE  Own'
<1> SUFFICES ASSUME NEW s \in Slots, s \notin acceptFailed' PROVE OwnOK(s)'
  BY DEF Own
<1>1. PICK m, b :
        /\ ovLapPool # <<>> => b = Head(ovLapPool) /\ ovLapPool' = Tail(ovLapPool)
        /\ ovLapPool = <<>> => b \in HeapOvs /\ ovLapPool' = <<>>
        /\ buf' = [buf EXCEPT ![r] = b]
        /\ ovMem' = [ovMem EXCEPT ![b] = m]
  BY DEF GetSendOv
<1>2. Goto(r, "send") /\ UNCHANGED <<posted, iocp, job, acceptFailed>>
  BY DEF GetSendOv
<1>3. OwnOK(s) /\ AcceptOv(s) \in Ovs /\ AcceptOv(s) \notin HeapOvs
  BY <1>2, OvsFacts DEF Own, Tracked
<1>4. b \in Ovs /\ b # AcceptOv(s) /\ ~Pooled(AcceptOv(s))'
  <2>1. CASE ovLapPool # <<>>
    <3>1. b \in Ovs /\ Pooled(b)
      BY <1>1, <2>1, PoolPop DEF IInv, Types
    <3>2. ovLapPool \in Seq(Ovs) /\ ovLapPool' = Tail(ovLapPool)
      BY <1>1, <2>1 DEF IInv, Types
    <3>3. \A k \in 1..Len(ovLapPool') :
            k + 1 \in 1..Len(ovLapPool) /\ ovLapPool'[k] = ovLapPool[k + 1]
      BY <2>1, <3>2
    <3> QED BY <1>3, <3>1, <3>3 DEF OwnOK, Pooled, AcceptOv
  <2>2. CASE ovLapPool = <<>>
    BY <1>1, <1>3, <2>2 DEF Ovs, Pooled, AcceptOv
  <2> QED BY <2>1, <2>2
<1>5. ~Held(AcceptOv(s))'
  BY <1>1, <1>3, <1>4, BufSet DEF IInv, OwnOK, AcceptOv
<1>6. ovMem'[AcceptOv(s)] = ovMem[AcceptOv(s)]
  BY <1>1, <1>3, <1>4 DEF IInv, Types
<1>7. \A w \in Workers : pc'[w] = pc[w]
  BY <1>2, OtherThread, ThreadsAssumption DEF IInv, PlacesOf, Threads
<1> QED BY <1>2, <1>3, <1>4, <1>5, <1>6, <1>7 DEF OwnOK, AcceptOv, Posted, Queued, Uses

LEMMA WSASendOwn ==
  ASSUME IInv, Own, NEW r \in Senders, WSASend(r)
  PROVE  Own'
<1>1. PICK x : x = [op |-> "SEND", ov |-> buf[r], slot |-> target[r]]
  OBVIOUS
<1>2. /\ posted' = posted \/ posted' = posted \cup {x}
      /\ x.ov = buf[r] /\ buf' = [buf EXCEPT ![r] = NoOv] /\ Goto(r, "idle")
      /\ UNCHANGED <<ovMem, ovLapPool, iocp, job, acceptFailed>>
  BY <1>1 DEF WSASend
<1>3. \A w \in Workers : pc'[w] = pc[w]
  BY <1>2, OtherThread, ThreadsAssumption DEF IInv, PlacesOf, Threads
<1>4. \A w \in Workers, ov \in Ovs : Uses(w, ov)' =>
        /\ Uses(w, ov) /\ job'[w].task = job[w].task
        /\ pc'[w] \in {"return", "disconnect"} =>
             pc[w] \in {"return", "disconnect"} \/ job[w].task # "ACCEPT"
  BY <1>2, <1>3 DEF Uses
<1> QED BY <1>2, <1>4, BufOwn

\* Threads that move nothing.
LEMMA IdleOwn ==
  ASSUME IInv, Own,
         \/ \E a \in Accepters : PopAccept(a) \/ PushBack(a)
         \/ \E w \in Workers : Requeue(w)
         \/ \E r \in Senders, s \in Slots : TakeRequest(r, s)
  PROVE  Own'
<1>1. ASSUME NEW t \in Threads \ Workers, NEW l \in PlacesOf, Goto(t, l),
             UNCHANGED <<ovMem, ovLapPool, posted, iocp, buf, acceptFailed, job>>
      PROVE  Own'
  BY <1>1, OtherThread, OwnUnmoved DEF IInv, Uses
<1>2. ASSUME NEW w \in Workers, Requeue(w) PROVE Own'
  <2>1. /\ Goto(w, "idle") /\ \A v \in Workers \ {w} : job'[v] = job[v]
        /\ UNCHANGED <<ovMem, ovLapPool, posted, iocp, buf, acceptFailed>>
    BY <1>2 DEF Requeue, IInv, Types
  <2>2. ASSUME NEW v \in Workers, NEW ov \in Ovs, Uses(v, ov)'
        PROVE  /\ Uses(v, ov) /\ job'[v].task = job[v].task
               /\ pc'[v] \in {"return", "disconnect"} => pc[v] \in {"return", "disconnect"}
    BY <2>1, <2>2, OtherJobs DEF Uses
  <2> QED BY <2>1, <2>2, OwnUnmoved
<1>3. {"idle", "post", "answer"} \subseteq PlacesOf
  BY DEF PlacesOf
<1> QED BY <1>1, <1>2, <1>3, ThreadsAssumption DEF PopAccept, PushBack, TakeRequest, Threads

-----------------------------------------------------------------------------
(* Invariance, and what follows from it.                                    *)

LEMMA Arrangement ==
  ASSUME NEW S, IsFiniteSet(S), NEW q \in SetToSeqs(S)
  PROVE  /\ q \in Seq(S) /\ Len(q) = Cardinality(S)
         /\ \A i, j \in 1..Len(q) : q[i] = q[j] => i = j
<1>1. Cardinality(S) \in Nat
  BY FS_CardinalityType
<1>2. /\ q \in [1..Cardinality(S) -> S]
      /\ \A i, j \in 1..Cardinality(S) : i # j => q[i] # q[j]
  BY DEF SetToSeqs
<1>3. q \in Seq(S) /\ Len(q) = Cardinality(S)
  BY <1>1, <1>2
<1> QED BY <1>2, <1>3

LEMMA InitIInv == Init => IInv
<1> SUFFICES ASSUME Init PROVE IInv
  OBVIOUS
<1>1. AcceptQueue \in Seq(Slots)
  BY Arrangement, SlotsAssumption DEF Init
<1>2. /\ ovLapPool \in Seq(PoolOvs)
      /\ \A i, j \in 1..Len(ovLapPool) : ovLapPool[i] = ovLapPool[j] => i = j
  BY Arrangement, OvsAssumption DEF Init
<1>3. ovLapPool \in Seq(Ovs)
  BY <1>2 DEF Ovs
<1>4. ovMem \in [Ovs -> Mems] /\ skt \in [Slots -> States] /\ iocp \in Seq(Completions)
  BY ZeroMemoryType DEF Init, States
<1>5. /\ job \in [Workers -> Jobs \cup {NoJob}]
      /\ pc \in [Threads -> PlacesOf]
      /\ target \in [Accepters \cup Senders -> Slots \cup {NoSlot}]
      /\ buf \in [Workers \cup Senders -> Ovs \cup {NoOv}]
  BY DEF Init, PlacesOf
<1>6. Types
  BY <1>1, <1>3, <1>4, <1>5, BoundsAssumption DEF Init, Types
<1>7. ThreadsOK /\ IsFiniteSet(posted)
  BY FS_EmptySet DEF Init, ThreadsOK, Threads
<1>8. ASSUME NEW ov \in Tracked
      PROVE  ~Posted(ov) /\ ~Queued(ov) /\ ~Worked(ov) /\ ~Held(ov) /\ Once(ov)
  <2>1. ~Posted(ov) /\ ~Queued(ov) /\ ~Worked(ov)
    BY DEF Init, Posted, Queued, Worked, Uses, Threads
  <2>2. ~Held(ov)
    BY OvsFacts DEF Init, Held
  <2>3. PooledOnce(ov)
    BY <1>2 DEF PooledOnce
  <2> QED BY <2>1, <2>2, <2>3 DEF Once, PostedOnce, QueuedOnce, WorkedOnce, HeldOnce, Posted,
                                  Queued, Worked, Held
<1>9. Blocks
  BY <1>8 DEF Blocks, Apart
<1>10. \A ov \in HeapOvs : ~Pooled(ov)
  BY <1>2, OvsAssumption DEF Pooled
<1>11. HeapOK
  BY <1>8, <1>10 DEF HeapOK, Tracked, Worked
<1> QED BY <1>6, <1>7, <1>9, <1>11 DEF IInv

LEMMA StepIInv ==
  ASSUME IInv, [Next]_vars
  PROVE  IInv'
<1>1. CASE \E a \in Accepters : AccepterStep(a)
  BY <1>1, PopAcceptOK, PostAcceptOK, PushBackOK DEF AccepterStep
<1>2. CASE \E w \in Workers : Dequeue(w) \/ WorkerStep(w)
  BY <1>2, DequeueOK, ReturnOvLapOK, GetRecvOvOK, WSARecvOK, RecvFailedOK, ResetOK, RequeueOK
     DEF WorkerStep
<1>3. CASE \E r \in Senders : SenderStep(r)
  BY <1>3, TakeRequestOK, GetSendOvOK, WSASendOK DEF SenderStep
<1>4. CASE Client
  BY <1>4, ClientOK
<1>5. CASE UNCHANGED vars
  <2>1. Types' /\ ThreadsOK' /\ IsFiniteSet(posted)'
    BY <1>5 DEF vars, IInv, Types, ThreadsOK
  <2>2. Blocks' /\ HeapOK'
    BY <1>5, NothingMoves, PostedSame DEF vars, IInv, Uses
  <2> QED BY <2>1, <2>2 DEF IInv
<1> QED BY <1>1, <1>2, <1>3, <1>4, <1>5 DEF Next

LEMMA InitOwn == Init => Own
<1> SUFFICES ASSUME Init, NEW s \in Slots PROVE OwnOK(s)
  BY DEF Own
<1>1. posted = {} /\ iocp = <<>> /\ \A w \in Workers : pc[w] = "idle"
  BY DEF Init, Threads
<1>2. \A t \in Workers \cup Senders : buf[t] # AcceptOv(s)
  BY OvsFacts DEF Init
<1>3. ~Pooled(AcceptOv(s))
  <2>1. ovLapPool \in Seq(PoolOvs) /\ AcceptOv(s) \notin PoolOvs
    BY Arrangement, OvsAssumption, OvsFacts DEF Init, Tracked
  <2> QED BY <2>1 DEF Pooled
<1> QED BY <1>1, <1>2, <1>3 DEF OwnOK, Held, Posted, Queued, Uses

LEMMA StepOwn ==
  ASSUME IInv, Own, [Next]_vars
  PROVE  Own'
<1>1. CASE \E a \in Accepters : AccepterStep(a)
  BY <1>1, PostAcceptOwn, IdleOwn DEF AccepterStep
<1>2. CASE \E w \in Workers : Dequeue(w) \/ WorkerStep(w)
  BY <1>2, DequeueOwn, ReturnOvLapOwn, GetRecvOvOwn, WSARecvOwn, RecvFailedOwn, ResetOwn, IdleOwn
     DEF WorkerStep
<1>3. CASE \E r \in Senders : SenderStep(r)
  BY <1>3, IdleOwn, GetSendOvOwn, WSASendOwn DEF SenderStep
<1>4. CASE Client
  BY <1>4, ClientOwn
<1>5. CASE UNCHANGED vars
  BY <1>5, OwnUnmoved DEF vars, Uses
<1> QED BY <1>1, <1>2, <1>3, <1>4, <1>5 DEF Next

LEMMA Invariance == Spec => []IInv
  BY InitIInv, StepIInv, PTL DEF Spec

LEMMA OwnInvariance == Spec => [](IInv /\ Own)
  BY InitIInv, InitOwn, StepIInv, StepOwn, PTL DEF Spec

\* Types: no block, slot or thread is ever used for what it is not, whatever
\* fails and whoever leaves (WorkThread, AccepterThread, ConnUser).
THEOREM TypeCorrect == Spec => []TypeOK
<1>1. IInv => TypeOK
  BY TypesTypeOK DEF IInv
<1> QED BY <1>1, Invariance, PTL

\* No block of the pool or the heap is ever handed out twice, whatever fails, for
\* any numbers of blocks, slots and threads (getOvLap, returnOvLap).
THEOREM BlocksUsedOnce == Spec => []OneUsePerBlock
<1>1. IInv => OneUsePerBlock
  <2> SUFFICES ASSUME IInv, NEW ov \in Tracked, NEW p \in Places(ov), NEW r \in Places(ov)
               PROVE  p = r
    BY DEF OneUsePerBlock, Tracked
  <2>1. Once(ov) /\ Apart(ov)
    BY DEF IInv, Blocks
  <2>2. DOMAIN ovLapPool = 1..Len(ovLapPool) /\ DOMAIN iocp = 1..Len(iocp)
    BY DEF IInv, Types
  <2>3. ASSUME NEW x \in Places(ov)
        PROVE  \/ Pooled(ov) /\ \E i \in 1..Len(ovLapPool) : ovLapPool[i] = ov /\ x = <<"pool", i>>
               \/ Posted(ov) /\ \E o \in posted : o.ov = ov /\ x = <<"posted", o>>
               \/ Queued(ov) /\ \E i \in 1..Len(iocp) : iocp[i].ov = ov /\ x = <<"iocp", i>>
               \/ Worked(ov) /\ \E w \in Workers : Uses(w, ov) /\ x = <<"job", w>>
               \/ Held(ov) /\ \E t \in Workers \cup Senders : buf[t] = ov /\ x = <<"buf", t>>
    BY <2>2 DEF Places, Pooled, Posted, Queued, Worked, Held
  <2>4. CASE Pooled(ov)
    <3>1. \A x \in Places(ov) :
            \E i \in 1..Len(ovLapPool) : ovLapPool[i] = ov /\ x = <<"pool", i>>
      BY <2>1, <2>3, <2>4 DEF Apart
    <3> QED BY <2>1, <3>1 DEF Once, PooledOnce
  <2>5. CASE Posted(ov)
    <3>1. \A x \in Places(ov) : \E o \in posted : o.ov = ov /\ x = <<"posted", o>>
      BY <2>1, <2>3, <2>5 DEF Apart
    <3> QED BY <2>1, <3>1 DEF Once, PostedOnce
  <2>6. CASE Queued(ov)
    <3>1. \A x \in Places(ov) : \E i \in 1..Len(iocp) : iocp[i].ov = ov /\ x = <<"iocp", i>>
      BY <2>1, <2>3, <2>6 DEF Apart
    <3> QED BY <2>1, <3>1 DEF Once, QueuedOnce
  <2>7. CASE Worked(ov)
    <3>1. \A x \in Places(ov) : \E w \in Workers : Uses(w, ov) /\ x = <<"job", w>>
      BY <2>1, <2>3, <2>7 DEF Apart
    <3> QED BY <2>1, <3>1 DEF Once, WorkedOnce
  <2>8. CASE Held(ov)
    <3>1. \A x \in Places(ov) : \E t \in Workers \cup Senders : buf[t] = ov /\ x = <<"buf", t>>
      BY <2>1, <2>3, <2>8 DEF Apart
    <3> QED BY <2>1, <3>1 DEF Once, HeldOnce
  <2> QED BY <2>3, <2>4, <2>5, <2>6, <2>7, <2>8
<1> QED BY <1>1, Invariance, PTL

\* A block PushSendMsg allocated is neither used after its deletion nor put into
\* the pool (WorkThread's NEWSEND branches).
THEOREM HeapBlocksAreLive == Spec => []HeapBlocksLive
<1>1. IInv => HeapBlocksLive
  <2> SUFFICES ASSUME IInv, NEW ov \in HeapOvs, NEW p \in Places(ov)
               PROVE  ov \in heap /\ \A i \in DOMAIN ovLapPool : ovLapPool[i] # ov
    BY DEF HeapBlocksLive
  <2>1. DOMAIN ovLapPool = 1..Len(ovLapPool) /\ DOMAIN iocp = 1..Len(iocp)
    BY DEF IInv, Types
  <2>2. Pooled(ov) \/ Posted(ov) \/ Queued(ov) \/ Worked(ov) \/ Held(ov)
    BY <2>1 DEF Places, Pooled, Posted, Queued, Worked, Held
  <2> QED BY <2>1, <2>2 DEF IInv, HeapOK, Pooled
<1> QED BY <1>1, Invariance, PTL

\* A ConnUser's own acceptOvlap enters the pool only after an accept on its slot
\* failed or was aborted, whatever else fails and however the threads interleave
\* (WorkThread, returnOvLap, ConnUserRecv).
THEOREM OnlyFailedAcceptsStray == Spec => []StraysFromFailedAccepts
<1>1. IInv /\ Own => StraysFromFailedAccepts
  <2> SUFFICES ASSUME IInv, Own, NEW k \in DOMAIN ovLapPool
               PROVE  ovLapPool[k] \in PoolOvs \cup {AcceptOv(s) : s \in acceptFailed}
    BY DEF StraysFromFailedAccepts
  <2>1. ovLapPool[k] \in Ovs /\ k \in 1..Len(ovLapPool)
    BY DEF IInv, Types
  <2>2. ovLapPool[k] \notin HeapOvs
    BY <2>1 DEF IInv, HeapOK, Pooled
  <2>3. ASSUME NEW s \in Slots, ovLapPool[k] = AcceptOv(s)
        PROVE  s \in acceptFailed
    BY <2>1, <2>3 DEF Own, OwnOK, Pooled
  <2> QED BY <2>1, <2>2, <2>3 DEF Ovs, AcceptOvs
<1> QED BY <1>1, OwnInvariance, PTL
=============================================================================

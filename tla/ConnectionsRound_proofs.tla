------------------------ MODULE ConnectionsRound_proofs ------------------------
(***************************************************************************)
(* Theorems about the way of the slots in Connections: from AcceptQueue to  *)
(* an accepter, a pending operation, the completion queue, a worker, and    *)
(* back.  If nothing is sent and no accept fails, no slot is ever in two    *)
(* places, and one is lost only when ConnUserRecv fails in a RECV branch,   *)
(* however small the pool and though WSARecv fails at any time.             *)
(***************************************************************************)
EXTENDS Connections_proofs

\* A send that fails resets the slot next to its receive, and a failed accept
\* puts acceptOvlap into the pool: the code keeps none of the theorems then.
ReceiveOnly == Senders = {} /\ ~AcceptMayFail

\* The places where slot s is on its way round.
Waits(s) == \E k \in 1..Len(AcceptQueue) : AcceptQueue[k] = s
Taken(s) == \E a \in Accepters : target[a] = s
Pends(s) == \E o \in posted : o.slot = s
Comes(s) == \E k \in 1..Len(iocp) : iocp[k].slot = s
Carries(w, s) == pc[w] \notin {"idle", "return"} /\ job[w].user = s
Busy(s) == \E w \in Workers : Carries(w, s)

\* It is there once ...
WaitsOnce(s) == \A j, k \in 1..Len(AcceptQueue) : AcceptQueue[j] = s /\ AcceptQueue[k] = s => j = k
TakenOnce(s) == \A a, b \in Accepters : target[a] = s /\ target[b] = s => a = b
PendsOnce(s) == \A o, p \in posted : o.slot = s /\ p.slot = s => o = p
ComesOnce(s) == \A j, k \in 1..Len(iocp) : iocp[j].slot = s /\ iocp[k].slot = s => j = k
BusyOnce(s) == \A v, w \in Workers : Carries(v, s) /\ Carries(w, s) => v = w

\* ... and in at most one of them.
SlotOnce(s) == WaitsOnce(s) /\ TakenOnce(s) /\ PendsOnce(s) /\ ComesOnce(s) /\ BusyOnce(s)
SlotApart(s) ==
  \/ ~Waits(s) /\ ~Taken(s) /\ ~Pends(s) /\ ~Comes(s) /\ ~Busy(s)
  \/ Waits(s) /\ ~Taken(s) /\ ~Pends(s) /\ ~Comes(s) /\ ~Busy(s)
  \/ ~Waits(s) /\ Taken(s) /\ ~Pends(s) /\ ~Comes(s) /\ ~Busy(s)
  \/ ~Waits(s) /\ ~Taken(s) /\ Pends(s) /\ ~Comes(s) /\ ~Busy(s)
  \/ ~Waits(s) /\ ~Taken(s) /\ ~Pends(s) /\ Comes(s) /\ ~Busy(s)
  \/ ~Waits(s) /\ ~Taken(s) /\ ~Pends(s) /\ ~Comes(s) /\ Busy(s)
Round == \A s \in Slots : SlotOnce(s) /\ SlotApart(s)

Mem(k, s) == [taskType |-> k, connObjNum |-> s]

QueueOK == \A k \in 1..Len(AcceptQueue) : skt[AcceptQueue[k]] = "fresh"

AccepterOK(a) == \/ pc[a] = "idle" /\ target[a] = NoSlot
                 \/ pc[a] = "post" /\ target[a] \in Slots /\ skt[target[a]] = "fresh"

\* What is posted says so in its block: an accept, on the slot's own block and a
\* fresh socket, or a receive, on a block of the pool and a connected one.
OpOK(o) ==
  \/ /\ o.op = "ACCEPT" /\ o.ov = AcceptOv(o.slot) /\ ovMem[o.ov] = Mem("ACCEPT", o.slot)
     /\ skt[o.slot] = "fresh"
  \/ /\ o.op = "RECV" /\ o.ov \in PoolOvs /\ ovMem[o.ov] = Mem("RECV", o.slot)
     /\ skt[o.slot] # "fresh"

CompletionOK(c) ==
  /\ ~c.old /\ skt[c.slot] # "fresh"
  /\ \/ c.res = "zero" /\ c.ov = AcceptOv(c.slot) /\ ovMem[c.ov] = Mem("ACCEPT", c.slot)
     \/ c.ov \in PoolOvs /\ ovMem[c.ov] = Mem("RECV", c.slot)

JobOK(w) ==
  /\ job[w].user = job[w].slot /\ (pc[w] # "return" => ~job[w].old)
  /\ \/ job[w].task = "ACCEPT" /\ job[w].ov \notin PoolOvs /\ pc[w] \notin {"return", "disconnect"}
     \/ job[w].task = "RECV" /\ job[w].ov \in PoolOvs
  /\ pc[w] = "requeue" => skt[job[w].user] = "fresh"
  /\ pc[w] \notin {"return", "requeue"} => skt[job[w].user] # "fresh"

WorkerOK(w) ==
  /\ pc[w] \in {"idle", "recv", "wsarecv", "recvFailed", "return", "disconnect", "reset", "requeue"}
  /\ pc[w] # "idle" => JobOK(w)
  /\ pc[w] # "wsarecv" => buf[w] = NoOv
  /\ pc[w] = "wsarecv" => buf[w] \in PoolOvs /\ ovMem[buf[w]] = Mem("RECV", job[w].user)

PoolOK == \A k \in 1..Len(ovLapPool) : ovLapPool[k] \in PoolOvs

Somewhere(s) == Waits(s) \/ Taken(s) \/ Pends(s) \/ Comes(s) \/ Busy(s)

\* The slots that are nowhere are those whose client nothing is received from.
Lost == \A s \in Slots : s \in deaf <=> ~Somewhere(s)

QInv ==
  /\ IInv
  /\ Round
  /\ QueueOK
  /\ \A a \in Accepters : AccepterOK(a)
  /\ \A o \in posted : OpOK(o)
  /\ \A k \in 1..Len(iocp) : CompletionOK(iocp[k])
  /\ \A w \in Workers : WorkerOK(w)
  /\ PoolOK
  /\ Lost

\* A step loses no slot and finds none again.
Keeps == deaf' = deaf /\ \A s \in Slots : Somewhere(s)' <=> Somewhere(s)

-----------------------------------------------------------------------------
(* Places.                                                                  *)

LEMMA QueuePop ==
  ASSUME AcceptQueue \in Seq(Slots), AcceptQueue # <<>>, AcceptQueue' = Tail(AcceptQueue)
  PROVE  /\ Head(AcceptQueue) \in Slots /\ Waits(Head(AcceptQueue))
         /\ \A s : WaitsOnce(s) =>
              WaitsOnce(s)' /\ (Waits(s)' <=> Waits(s) /\ s # Head(AcceptQueue))
<1>1. Len(AcceptQueue') = Len(AcceptQueue) - 1 /\ Len(AcceptQueue) \in Nat \ {0}
  OBVIOUS
<1>2. \A k \in 1..Len(AcceptQueue') :
        AcceptQueue'[k] = AcceptQueue[k + 1] /\ k + 1 \in 1..Len(AcceptQueue)
  BY <1>1
<1>3. Head(AcceptQueue) = AcceptQueue[1] /\ 1 \in 1..Len(AcceptQueue)
  BY <1>1
<1>4. ASSUME NEW s, WaitsOnce(s)
      PROVE  WaitsOnce(s)' /\ (Waits(s)' <=> Waits(s) /\ s # Head(AcceptQueue))
  <2>1. WaitsOnce(s)'
    <3> SUFFICES ASSUME NEW j \in 1..Len(AcceptQueue'), NEW k \in 1..Len(AcceptQueue'),
                        AcceptQueue'[j] = s, AcceptQueue'[k] = s
                 PROVE  j = k
      BY DEF WaitsOnce
    <3>1. j + 1 = k + 1
      BY <1>2, <1>4 DEF WaitsOnce
    <3> QED BY <1>1, <3>1
  <2>2. ASSUME NEW k \in 1..Len(AcceptQueue'), AcceptQueue'[k] = s
        PROVE  Waits(s) /\ s # Head(AcceptQueue)
    <3>1. k + 1 \in 1..Len(AcceptQueue) /\ AcceptQueue[k + 1] = s
      BY <1>2, <2>2
    <3>2. k + 1 # 1
      BY <1>1
    <3> QED BY <1>3, <1>4, <3>1, <3>2 DEF Waits, WaitsOnce
  <2>3. ASSUME NEW k \in 1..Len(AcceptQueue), AcceptQueue[k] = s, s # Head(AcceptQueue)
        PROVE  Waits(s)'
    <3>1. k - 1 \in 1..Len(AcceptQueue') /\ (k - 1) + 1 = k
      BY <1>1, <1>3, <2>3
    <3> QED BY <1>2, <2>3, <3>1 DEF Waits
  <2> QED BY <2>1, <2>2, <2>3 DEF Waits
<1>5. Waits(Head(AcceptQueue)) /\ Head(AcceptQueue) \in Slots
  BY <1>3 DEF Waits
<1> QED BY <1>4, <1>5

LEMMA QueuePush ==
  ASSUME AcceptQueue \in Seq(Slots), NEW x \in Slots, AcceptQueue' = Append(AcceptQueue, x)
  PROVE  \A s : /\ Waits(s)' <=> Waits(s) \/ s = x
                /\ WaitsOnce(s) /\ (s = x => ~Waits(s)) => WaitsOnce(s)'
<1>1. Len(AcceptQueue') = Len(AcceptQueue) + 1 /\ Len(AcceptQueue) \in Nat
  OBVIOUS
<1>2. /\ \A k \in 1..Len(AcceptQueue) : AcceptQueue'[k] = AcceptQueue[k]
      /\ AcceptQueue'[Len(AcceptQueue) + 1] = x
  OBVIOUS
<1>3. \A k \in 1..Len(AcceptQueue') : k \in 1..Len(AcceptQueue) \/ k = Len(AcceptQueue) + 1
  BY <1>1
<1>4. 1..Len(AcceptQueue) \subseteq 1..Len(AcceptQueue')
      /\ Len(AcceptQueue) + 1 \in 1..Len(AcceptQueue')
  BY <1>1
<1>5. ASSUME NEW s
      PROVE  /\ Waits(s)' <=> Waits(s) \/ s = x
             /\ WaitsOnce(s) /\ (s = x => ~Waits(s)) => WaitsOnce(s)'
  BY <1>2, <1>3, <1>4 DEF Waits, WaitsOnce
<1> QED BY <1>5

LEMMA ComesPop ==
  ASSUME iocp \in Seq(Completions), iocp # <<>>, iocp' = Tail(iocp)
  PROVE  /\ Head(iocp) \in Completions /\ Comes(Head(iocp).slot)
         /\ \E k \in 1..Len(iocp) : Head(iocp) = iocp[k]
         /\ \A k \in 1..Len(iocp') : \E j \in 1..Len(iocp) : iocp'[k] = iocp[j]
         /\ \A s : ComesOnce(s) =>
              ComesOnce(s)' /\ (Comes(s)' <=> Comes(s) /\ s # Head(iocp).slot)
<1>1. Len(iocp') = Len(iocp) - 1 /\ Len(iocp) \in Nat \ {0}
  OBVIOUS
<1>2. \A k \in 1..Len(iocp') : iocp'[k] = iocp[k + 1] /\ k + 1 \in 1..Len(iocp)
  BY <1>1
<1>3. Head(iocp) = iocp[1] /\ 1 \in 1..Len(iocp)
  BY <1>1
<1>4. ASSUME NEW s, ComesOnce(s)
      PROVE  ComesOnce(s)' /\ (Comes(s)' <=> Comes(s) /\ s # Head(iocp).slot)
  <2>1. ComesOnce(s)'
    <3> SUFFICES ASSUME NEW j \in 1..Len(iocp'), NEW k \in 1..Len(iocp'),
                        iocp'[j].slot = s, iocp'[k].slot = s
                 PROVE  j = k
      BY DEF ComesOnce
    <3>1. j + 1 = k + 1
      BY <1>2, <1>4 DEF ComesOnce
    <3> QED BY <1>1, <3>1
  <2>2. ASSUME NEW k \in 1..Len(iocp'), iocp'[k].slot = s
        PROVE  Comes(s) /\ s # Head(iocp).slot
    <3>1. k + 1 \in 1..Len(iocp) /\ iocp[k + 1].slot = s
      BY <1>2, <2>2
    <3>2. k + 1 # 1
      BY <1>1
    <3> QED BY <1>3, <1>4, <3>1, <3>2 DEF Comes, ComesOnce
  <2>3. ASSUME NEW k \in 1..Len(iocp), iocp[k].slot = s, s # Head(iocp).slot
        PROVE  Comes(s)'
    <3>1. k - 1 \in 1..Len(iocp') /\ (k - 1) + 1 = k
      BY <1>1, <1>3, <2>3
    <3> QED BY <1>2, <2>3, <3>1 DEF Comes
  <2> QED BY <2>1, <2>2, <2>3 DEF Comes
<1>5. Comes(Head(iocp).slot) /\ Head(iocp) \in Completions
  BY <1>3 DEF Comes
<1> QED BY <1>2, <1>3, <1>4, <1>5

LEMMA ComesPush ==
  ASSUME iocp \in Seq(Completions), NEW c \in Completions, iocp' = Append(iocp, c)
  PROVE  /\ \A k \in 1..Len(iocp') : iocp'[k] = c \/ \E j \in 1..Len(iocp) : iocp'[k] = iocp[j]
         /\ \A s : /\ Comes(s)' <=> Comes(s) \/ s = c.slot
                   /\ ComesOnce(s) /\ (s = c.slot => ~Comes(s)) => ComesOnce(s)'
<1>1. Len(iocp') = Len(iocp) + 1 /\ Len(iocp) \in Nat
  OBVIOUS
<1>2. /\ \A k \in 1..Len(iocp) : iocp'[k] = iocp[k]
      /\ iocp'[Len(iocp) + 1] = c
  OBVIOUS
<1>3. \A k \in 1..Len(iocp') : k \in 1..Len(iocp) \/ k = Len(iocp) + 1
  BY <1>1
<1>4. 1..Len(iocp) \subseteq 1..Len(iocp') /\ Len(iocp) + 1 \in 1..Len(iocp')
  BY <1>1
<1>5. ASSUME NEW s
      PROVE  /\ Comes(s)' <=> Comes(s) \/ s = c.slot
             /\ ComesOnce(s) /\ (s = c.slot => ~Comes(s)) => ComesOnce(s)'
  BY <1>2, <1>3, <1>4 DEF Comes, ComesOnce
<1>6. \A k \in 1..Len(iocp') : iocp'[k] = c \/ \E j \in 1..Len(iocp) : iocp'[k] = iocp[j]
  BY <1>2, <1>3
<1> QED BY <1>5, <1>6

LEMMA PendsLess ==
  ASSUME NEW o \in posted, posted' = posted \ {o}
  PROVE  \A s : PendsOnce(s) => PendsOnce(s)' /\ (Pends(s)' <=> Pends(s) /\ s # o.slot)
  BY DEF PendsOnce, Pends

LEMMA PendsMore ==
  ASSUME NEW x, posted' = posted \cup {x}
  PROVE  \A s : /\ Pends(s)' <=> Pends(s) \/ s = x.slot
                /\ PendsOnce(s) /\ (s = x.slot => ~Pends(s)) => PendsOnce(s)'
<1> SUFFICES ASSUME NEW s
             PROVE  /\ Pends(s)' <=> Pends(s) \/ s = x.slot
                    /\ PendsOnce(s) /\ (s = x.slot => ~Pends(s)) => PendsOnce(s)'
  OBVIOUS
<1> QED BY DEF PendsOnce, Pends

\* Accepter a takes slot v, or (v = NoSlot) gives up the one it has.
LEMMA TakenSet ==
  ASSUME Types, NEW a \in Accepters, NEW v \in Slots \cup {NoSlot},
         target' = [target EXCEPT ![a] = v]
  PROVE  /\ target'[a] = v /\ \A b \in Accepters \ {a} : target'[b] = target[b]
         /\ target[a] = NoSlot => \A s \in Slots :
              /\ Taken(s)' <=> Taken(s) \/ s = v
              /\ TakenOnce(s) /\ (s = v => ~Taken(s)) => TakenOnce(s)'
         /\ v = NoSlot => \A s \in Slots : TakenOnce(s) =>
              TakenOnce(s)' /\ (Taken(s)' <=> Taken(s) /\ s # target[a])
<1>1. target'[a] = v /\ \A b \in Accepters \ {a} : target'[b] = target[b]
  BY DEF Types
<1>2. ASSUME target[a] = NoSlot, NEW s \in Slots
      PROVE  /\ Taken(s)' <=> Taken(s) \/ s = v
             /\ TakenOnce(s) /\ (s = v => ~Taken(s)) => TakenOnce(s)'
  BY <1>1, <1>2, SlotsAssumption DEF Taken, TakenOnce
<1>3. ASSUME v = NoSlot, NEW s \in Slots, TakenOnce(s)
      PROVE  TakenOnce(s)' /\ (Taken(s)' <=> Taken(s) /\ s # target[a])
  BY <1>1, <1>3, SlotsAssumption DEF Taken, TakenOnce
<1> QED BY <1>1, <1>2, <1>3

\* Worker w moves; the others carry what they carried.
LEMMA BusySet ==
  ASSUME NEW w \in Workers, NEW s,
         \A v \in Workers \ {w} : Carries(v, s)' <=> Carries(v, s)
  PROVE  /\ BusyOnce(s) /\ Carries(w, s) /\ ~Carries(w, s)' => ~Busy(s)' /\ BusyOnce(s)'
         /\ ~Busy(s) /\ Carries(w, s)' => Busy(s)' /\ BusyOnce(s)'
         /\ BusyOnce(s) /\ (Carries(w, s)' <=> Carries(w, s)) =>
              (Busy(s)' <=> Busy(s)) /\ BusyOnce(s)'
  BY DEF Busy, BusyOnce

\* The pool gives up its first block only.
LEMMA PoolKept ==
  ASSUME ovLapPool \in Seq(Ovs), ovLapPool # <<>>, ovLapPool' = Tail(ovLapPool)
  PROVE  PoolOK => PoolOK' /\ Head(ovLapPool) \in PoolOvs
<1>1. Len(ovLapPool') = Len(ovLapPool) - 1 /\ Len(ovLapPool) \in Nat \ {0}
  OBVIOUS
<1>2. \A k \in 1..Len(ovLapPool') : ovLapPool'[k] = ovLapPool[k + 1] /\ k + 1 \in 1..Len(ovLapPool)
  BY <1>1
<1>3. Head(ovLapPool) = ovLapPool[1] /\ 1 \in 1..Len(ovLapPool)
  BY <1>1
<1> QED BY <1>2, <1>3 DEF PoolOK

LEMMA PoolGrows ==
  ASSUME ovLapPool \in Seq(Ovs), NEW x \in PoolOvs, ovLapPool' = Append(ovLapPool, x), PoolOK
  PROVE  PoolOK'
<1>1. Len(ovLapPool') = Len(ovLapPool) + 1 /\ Len(ovLapPool) \in Nat
  OBVIOUS
<1>2. /\ \A k \in 1..Len(ovLapPool) : ovLapPool'[k] = ovLapPool[k]
      /\ ovLapPool'[Len(ovLapPool) + 1] = x
  OBVIOUS
<1>3. \A k \in 1..Len(ovLapPool') : k \in 1..Len(ovLapPool) \/ k = Len(ovLapPool) + 1
  BY <1>1
<1> QED BY <1>2, <1>3 DEF PoolOK

-----------------------------------------------------------------------------
(* The client and the system.                                               *)

\* What QInv says beyond IInv, after a step.
Rest == /\ Round /\ QueueOK
        /\ \A a \in Accepters : AccepterOK(a)
        /\ \A o \in posted : OpOK(o)
        /\ \A k \in 1..Len(iocp) : CompletionOK(iocp[k])
        /\ \A w \in Workers : WorkerOK(w)
        /\ PoolOK

\* The parts of QInv about one slot, operation or thread.
LEMMA RoundFacts ==
  ASSUME QInv
  PROVE  /\ Types /\ ThreadsOK /\ Blocks
         /\ \A s \in Slots : SlotOnce(s) /\ SlotApart(s)
         /\ \A o \in posted : /\ o \in Ops /\ OpOK(o) /\ o.slot \in Slots
                            /\ Pends(o.slot) /\ Posted(o.ov)
         /\ \A k \in 1..Len(iocp) : /\ iocp[k] \in Completions /\ CompletionOK(iocp[k])
                                    /\ Comes(iocp[k].slot) /\ Queued(iocp[k].ov)
                                    /\ iocp[k].slot \in Slots
         /\ \A w \in Workers : /\ w \in Threads /\ WorkerOK(w)
                               /\ pc[w] # "idle" => job[w] \in Jobs /\ job[w].user \in Slots
         /\ \A a \in Accepters : AccepterOK(a)
<1>1. /\ Types /\ ThreadsOK /\ Blocks
      /\ \A s \in Slots : SlotOnce(s) /\ SlotApart(s)
      /\ \A w \in Workers : w \in Threads /\ WorkerOK(w)
      /\ \A a \in Accepters : AccepterOK(a)
  BY DEF QInv, IInv, Round, Threads
<1>2. ASSUME NEW o \in posted
      PROVE  o \in Ops /\ OpOK(o) /\ Pends(o.slot) /\ Posted(o.ov) /\ o.slot \in Slots
  <2>1. o \in Ops /\ OpOK(o)
    BY <1>1 DEF QInv, Types
  <2> QED BY <2>1, OpFields DEF Pends, Posted
<1>3. ASSUME NEW k \in 1..Len(iocp)
      PROVE  /\ iocp[k] \in Completions /\ CompletionOK(iocp[k])
             /\ Comes(iocp[k].slot) /\ Queued(iocp[k].ov) /\ iocp[k].slot \in Slots
  <2>1. iocp[k] \in Completions
    BY <1>1 DEF Types
  <2> QED BY <2>1, CompletionFields DEF QInv, Comes, Queued
<1>4. ASSUME NEW w \in Workers, pc[w] # "idle"
      PROVE  job[w] \in Jobs /\ job[w].user \in Slots
  <2>1. job[w] \in Jobs
    BY <1>1, <1>4 DEF ThreadsOK
  <2> QED BY <2>1, JobFields
<1> QED BY <1>1, <1>2, <1>3, <1>4

\* An operation that is posted is at most an accept or a receive.
LEMMA FinishRound ==
  ASSUME QInv, NEW o \in posted, NEW res \in {"bytes", "zero", "fail"}, Finish(o, res),
         o.op = "ACCEPT" => res = "zero",
         NEW n \in States, n # "fresh", skt' = [skt EXCEPT ![o.slot] = n]
  PROVE  Rest' /\ Keeps
<1> DEFINE c == Completion(o, res)
<1>1. c \in Completions /\ c.ov = o.ov /\ c.slot = o.slot /\ c.res = res /\ c.old = FALSE
  BY RoundFacts, CompletionType DEF Completion
<1>2. /\ posted' = posted \ {o} /\ iocp' = Append(iocp, c)
      /\ UNCHANGED <<ovMem, ovLapPool, heap, AcceptQueue, job, pc, target, buf, requests, deaf>>
  BY DEF Finish
<1> HIDE DEF c
<1>3. skt'[o.slot] # "fresh" /\ \A s \in Slots : s # o.slot => skt'[s] = skt[s]
  BY RoundFacts DEF Types
<1>4. iocp \in Seq(Completions)
  BY RoundFacts DEF Types
<1>5. Round' /\ \A s \in Slots : Somewhere(s)' <=> Somewhere(s)
  <2> SUFFICES ASSUME NEW s \in Slots
               PROVE  SlotOnce(s)' /\ SlotApart(s)' /\ (Somewhere(s)' <=> Somewhere(s))
    BY DEF Round
  <2>1. SlotOnce(s) /\ SlotApart(s) /\ Pends(o.slot)
    BY RoundFacts
  <2>2. PendsOnce(s)' /\ (Pends(s)' <=> Pends(s) /\ s # o.slot)
    BY <1>2, <2>1, PendsLess DEF SlotOnce
  <2>3. ComesOnce(s)' /\ (Comes(s)' <=> Comes(s) \/ s = o.slot)
    BY <1>1, <1>2, <1>4, <2>1, ComesPush DEF SlotOnce, SlotApart
  <2>4. /\ WaitsOnce(s)' /\ (Waits(s)' <=> Waits(s))
        /\ TakenOnce(s)' /\ (Taken(s)' <=> Taken(s))
        /\ BusyOnce(s)' /\ (Busy(s)' <=> Busy(s))
    BY <1>2, <2>1 DEF SlotOnce, WaitsOnce, Waits, TakenOnce, Taken, BusyOnce, Busy, Carries
  <2> QED BY <2>1, <2>2, <2>3, <2>4 DEF SlotOnce, SlotApart, Somewhere
<1>6. \A s \in Slots : s # o.slot => skt'[s] = skt[s]
  BY <1>3
<1>7. SlotApart(o.slot) /\ Pends(o.slot) /\ o.slot \in Slots /\ PendsOnce(o.slot)
  BY RoundFacts DEF SlotOnce
<1>8. QueueOK'
  <2> SUFFICES ASSUME NEW k \in 1..Len(AcceptQueue) PROVE skt'[AcceptQueue[k]] = "fresh"
    BY <1>2 DEF QueueOK
  <2>1. AcceptQueue[k] # o.slot
    BY <1>7 DEF SlotApart, Waits
  <2>2. AcceptQueue[k] \in Slots /\ skt[AcceptQueue[k]] = "fresh"
    BY RoundFacts DEF Types, QInv, QueueOK
  <2> QED BY <1>6, <2>1, <2>2
<1>9. ASSUME NEW a \in Accepters PROVE AccepterOK(a)'
  <2>1. AccepterOK(a) /\ target[a] # o.slot
    BY <1>7, RoundFacts DEF SlotApart, Taken
  <2> QED BY <1>2, <1>6, <2>1 DEF AccepterOK
<1>10. ASSUME NEW p \in posted' PROVE OpOK(p)'
  <2>1. p \in posted /\ p # o /\ p.slot # o.slot /\ p.slot \in Slots /\ OpOK(p)
    BY <1>2, <1>7, RoundFacts DEF PendsOnce
  <2> QED BY <1>2, <1>6, <2>1 DEF OpOK
<1>11. ASSUME NEW k \in 1..Len(iocp') PROVE CompletionOK(iocp[k])'
  <2>1. CASE iocp'[k] = c
    <3>1. OpOK(o)
      BY RoundFacts
    <3>2. \/ c.res = "zero" /\ c.ov = AcceptOv(c.slot) /\ ovMem[c.ov] = Mem("ACCEPT", c.slot)
          \/ c.ov \in PoolOvs /\ ovMem[c.ov] = Mem("RECV", c.slot)
      BY <1>1, <3>1 DEF OpOK
    <3> QED BY <1>1, <1>2, <1>3, <2>1, <3>2 DEF CompletionOK
  <2>2. ASSUME NEW j \in 1..Len(iocp), iocp'[k] = iocp[j] PROVE CompletionOK(iocp[k])'
    <3>1. CompletionOK(iocp[j]) /\ iocp[j].slot \in Slots /\ Comes(iocp[j].slot)
      BY RoundFacts
    <3>2. iocp[j].slot # o.slot
      BY <1>7, <3>1 DEF SlotApart
    <3> QED BY <1>2, <1>6, <2>2, <3>1, <3>2 DEF CompletionOK
  <2> QED BY <1>1, <1>2, <1>4, <2>1, <2>2, ComesPush
<1>12. ASSUME NEW w \in Workers PROVE WorkerOK(w)'
  <2>1. WorkerOK(w)
    BY RoundFacts
  <2>2. ASSUME pc[w] \notin {"idle", "return"}
        PROVE  job[w].user \in Slots /\ job[w].user # o.slot
    BY <1>7, <2>2, RoundFacts DEF SlotApart, Busy, Carries
  <2> QED BY <1>2, <1>6, <2>1, <2>2 DEF WorkerOK, JobOK
<1>13. PoolOK'
  BY <1>2 DEF QInv, PoolOK
<1>15. Rest'
  BY <1>5, <1>8, <1>9, <1>10, <1>11, <1>12, <1>13 DEF Rest
<1>16. Keeps
  BY <1>2, <1>5 DEF Keeps
<1> QED BY <1>15, <1>16

\* Nothing moves but that a client leaves, or nothing at all.
LEMMA LeaveRound ==
  ASSUME QInv, UNCHANGED <<ovMem, ovLapPool, AcceptQueue, posted, iocp, job, pc, target, buf, deaf>>,
         \A s \in Slots : skt'[s] = "fresh" <=> skt[s] = "fresh"
  PROVE  Rest' /\ Keeps
<1>1. Round' /\ PoolOK' /\ Keeps
  BY DEF QInv, Round, SlotOnce, SlotApart, Somewhere, WaitsOnce, TakenOnce, PendsOnce, ComesOnce,
         BusyOnce, Waits, Taken, Pends, Comes, Busy, Carries, PoolOK, Keeps
<1>2. QueueOK'
  <2>1. \A k \in 1..Len(AcceptQueue) : AcceptQueue[k] \in Slots
    BY RoundFacts DEF Types
  <2> QED BY <2>1 DEF QInv, QueueOK
<1>3. \A a \in Accepters : AccepterOK(a)'
  BY RoundFacts DEF AccepterOK
<1>4. \A o \in posted' : OpOK(o)'
  BY RoundFacts DEF OpOK
<1>5. \A k \in 1..Len(iocp') : CompletionOK(iocp[k])'
  BY RoundFacts DEF CompletionOK
<1>6. \A w \in Workers : WorkerOK(w)'
  BY RoundFacts DEF WorkerOK, JobOK
<1> QED BY <1>1, <1>2, <1>3, <1>4, <1>5, <1>6 DEF Rest

LEMMA ClientRound ==
  ASSUME QInv, ReceiveOnly, Client
  PROVE  Rest' /\ Keeps
<1>1. ASSUME NEW o \in posted, Connect(o) PROVE Rest' /\ Keeps
  <2>1. "connected" \in States /\ "connected" # "fresh"
    BY DEF States
  <2> QED BY <1>1, <2>1, FinishRound DEF Connect
<1>2. ASSUME NEW o \in posted, ConnectFails(o) PROVE FALSE
  BY <1>2 DEF ConnectFails, ReceiveOnly
<1>3. ASSUME NEW o \in posted, Data(o) PROVE Rest' /\ Keeps
  <2>1. "active" \in States /\ "active" # "fresh" /\ o.op # "ACCEPT"
    BY <1>3 DEF States, Data
  <2> QED BY <1>3, <2>1, FinishRound DEF Data
<1>4. ASSUME NEW o \in posted, Sent(o) PROVE FALSE
  BY <1>4, RoundFacts DEF Sent, OpOK
<1>5. ASSUME NEW o \in posted, Gone(o) PROVE Rest' /\ Keeps
  <2>1. PICK res \in {"zero", "fail"} : Finish(o, res)
    BY <1>5 DEF Gone
  <2>2. "gone" \in States /\ "gone" # "fresh" /\ o.op # "ACCEPT"
    BY <1>5 DEF States, Gone
  <2>3. skt' = [skt EXCEPT ![o.slot] = "gone"]
    BY <1>5, RoundFacts DEF Gone, Types
  <2> QED BY <2>1, <2>2, <2>3, FinishRound
<1>6. ASSUME NEW s \in Slots, Leave(s) PROVE Rest' /\ Keeps
  <2>1. \A x \in Slots : skt'[x] = "fresh" <=> skt[x] = "fresh"
    BY <1>6, RoundFacts DEF Leave, Types
  <2> QED BY <1>6, <2>1, LeaveRound DEF Leave
<1> QED BY <1>1, <1>2, <1>3, <1>4, <1>5, <1>6 DEF Client

-----------------------------------------------------------------------------
(* The accepters.                                                           *)

LEMMA PopAcceptRound ==
  ASSUME QInv, NEW a \in Accepters, PopAccept(a)
  PROVE  Rest' /\ Keeps
<1> DEFINE h == Head(AcceptQueue)
<1>1. /\ pc[a] = "idle" /\ AcceptQueue # <<>>
      /\ target' = [target EXCEPT ![a] = h]
      /\ AcceptQueue' = Tail(AcceptQueue)
      /\ pc' = [pc EXCEPT ![a] = "post"]
      /\ UNCHANGED <<ovMem, ovLapPool, heap, skt, posted, iocp, job, buf, requests, deaf>>
  BY DEF PopAccept, Goto
<1>2. AcceptQueue \in Seq(Slots) /\ pc \in [Threads -> PlacesOf] /\ a \in Threads /\ Types
  BY RoundFacts DEF Types, Threads
<1>3. h \in Slots /\ Waits(h) /\ skt[h] = "fresh"
  <2>1. h = AcceptQueue[1] /\ 1 \in 1..Len(AcceptQueue)
    BY <1>1, <1>2
  <2> QED BY <1>1, <1>2, <2>1, QueuePop DEF QInv, QueueOK
<1>4. target[a] = NoSlot
  BY <1>1, RoundFacts DEF AccepterOK
<1>5. pc'[a] = "post" /\ \A t \in Threads \ {a} : pc'[t] = pc[t]
  BY <1>1, <1>2
<1>6. \A w \in Workers : w \in Threads /\ w # a
  BY ThreadsAssumption DEF Threads
<1>7. /\ target'[a] = h /\ \A b \in Accepters \ {a} : target'[b] = target[b]
      /\ \A s \in Slots : /\ Taken(s)' <=> Taken(s) \/ s = h
                          /\ TakenOnce(s) /\ (s = h => ~Taken(s)) => TakenOnce(s)'
  BY <1>1, <1>2, <1>3, <1>4, TakenSet
<1>8. \A s \in Slots : WaitsOnce(s) => WaitsOnce(s)' /\ (Waits(s)' <=> Waits(s) /\ s # h)
  BY <1>1, <1>2, QueuePop
<1> HIDE DEF h
<1>9. Round' /\ \A s \in Slots : Somewhere(s)' <=> Somewhere(s)
  <2> SUFFICES ASSUME NEW s \in Slots
               PROVE  SlotOnce(s)' /\ SlotApart(s)' /\ (Somewhere(s)' <=> Somewhere(s))
    BY DEF Round
  <2>1. SlotOnce(s) /\ SlotApart(s)
    BY RoundFacts
  <2>2. /\ PendsOnce(s)' /\ (Pends(s)' <=> Pends(s))
        /\ ComesOnce(s)' /\ (Comes(s)' <=> Comes(s))
    BY <1>1, <2>1 DEF SlotOnce, PendsOnce, Pends, ComesOnce, Comes
  <2>3. \A w \in Workers : Carries(w, s)' <=> Carries(w, s)
    BY <1>1, <1>5, <1>6 DEF Carries
  <2>4. BusyOnce(s)' /\ (Busy(s)' <=> Busy(s))
    BY <2>1, <2>3 DEF SlotOnce, BusyOnce, Busy
  <2> QED BY <1>3, <1>7, <1>8, <2>1, <2>2, <2>4 DEF SlotOnce, SlotApart, Somewhere
<1>10. QueueOK'
  <2>1. \A k \in 1..Len(AcceptQueue') :
          AcceptQueue'[k] = AcceptQueue[k + 1] /\ k + 1 \in 1..Len(AcceptQueue)
    BY <1>1, <1>2
  <2> QED BY <1>1, <2>1 DEF QInv, QueueOK
<1>11. ASSUME NEW b \in Accepters PROVE AccepterOK(b)'
  <2>1. CASE b = a
    BY <1>1, <1>3, <1>5, <1>7, <2>1 DEF AccepterOK
  <2>2. CASE b # a
    BY <1>1, <1>5, <1>7, <2>2, RoundFacts DEF AccepterOK, Threads
  <2> QED BY <2>1, <2>2
<1>12. /\ \A o \in posted' : OpOK(o)'
       /\ \A k \in 1..Len(iocp') : CompletionOK(iocp[k])'
  BY <1>1, RoundFacts DEF OpOK, CompletionOK
<1>13. \A w \in Workers : WorkerOK(w)'
  BY <1>1, <1>5, <1>6, RoundFacts DEF WorkerOK, JobOK
<1>14. PoolOK'
  BY <1>1 DEF QInv, PoolOK
<1> QED BY <1>1, <1>9, <1>10, <1>11, <1>12, <1>13, <1>14 DEF Rest, Keeps

\* CanAccept holds: the accepter has the slot to itself.
LEMMA PostAcceptRound ==
  ASSUME QInv, ReceiveOnly, NEW a \in Accepters, PostAccept(a)
  PROVE  Rest' /\ Keeps
<1> DEFINE s0 == target[a]
           x == [op |-> "ACCEPT", ov |-> AcceptOv(s0), slot |-> s0]
<1>1. pc[a] = "post" /\ s0 \in Slots /\ skt[s0] = "fresh" /\ Types
  BY RoundFacts DEF PostAccept, AccepterOK
<1>2. Taken(s0) /\ SlotApart(s0) /\ SlotOnce(s0)
  BY <1>1, RoundFacts DEF Taken
<1>3. CanAccept(s0)
  BY <1>1, <1>2 DEF CanAccept, SlotApart, Pends
<1>4. /\ ovMem' = [ovMem EXCEPT ![AcceptOv(s0)] = Mem("ACCEPT", s0)]
      /\ posted' = posted \cup {x}
      /\ target' = [target EXCEPT ![a] = NoSlot]
      /\ pc' = [pc EXCEPT ![a] = "idle"]
      /\ UNCHANGED <<ovLapPool, heap, AcceptQueue, skt, iocp, job, buf, requests, deaf>>
  BY <1>3 DEF PostAccept, ReceiveOnly, Goto, Mem
<1>5. x.op = "ACCEPT" /\ x.ov = AcceptOv(s0) /\ x.slot = s0
  OBVIOUS
<1>6. /\ AcceptOv(s0) \notin PoolOvs /\ AcceptOv(s0) \in Ovs
      /\ \A s : AcceptOv(s) = AcceptOv(s0) => s = s0
  BY <1>1, OvsFacts DEF Tracked, AcceptOv
<1>7. /\ ovMem'[AcceptOv(s0)] = Mem("ACCEPT", s0)
      /\ \A b \in Ovs : b # AcceptOv(s0) => ovMem'[b] = ovMem[b]
  BY <1>1, <1>4, <1>6 DEF Types
<1>8. pc'[a] = "idle" /\ \A t \in Threads \ {a} : pc'[t] = pc[t]
  BY <1>1, <1>4 DEF Types, Threads
<1>9. \A w \in Workers : w \in Threads /\ w # a
  BY ThreadsAssumption DEF Threads
<1>10. /\ target'[a] = NoSlot /\ \A b \in Accepters \ {a} : target'[b] = target[b]
       /\ \A s \in Slots : TakenOnce(s) => TakenOnce(s)' /\ (Taken(s)' <=> Taken(s) /\ s # s0)
  BY <1>1, <1>4, TakenSet
<1>11. \A s : /\ Pends(s)' <=> Pends(s) \/ s = s0
              /\ PendsOnce(s) /\ (s = s0 => ~Pends(s)) => PendsOnce(s)'
  BY <1>4, <1>5, PendsMore
<1> HIDE DEF x, s0
<1>12. Round' /\ \A s \in Slots : Somewhere(s)' <=> Somewhere(s)
  <2> SUFFICES ASSUME NEW s \in Slots
               PROVE  SlotOnce(s)' /\ SlotApart(s)' /\ (Somewhere(s)' <=> Somewhere(s))
    BY DEF Round
  <2>1. SlotOnce(s) /\ SlotApart(s)
    BY RoundFacts
  <2>2. /\ WaitsOnce(s)' /\ (Waits(s)' <=> Waits(s))
        /\ ComesOnce(s)' /\ (Comes(s)' <=> Comes(s))
    BY <1>4, <2>1 DEF SlotOnce, WaitsOnce, Waits, ComesOnce, Comes
  <2>3. \A w \in Workers : Carries(w, s)' <=> Carries(w, s)
    BY <1>4, <1>8, <1>9 DEF Carries
  <2>4. BusyOnce(s)' /\ (Busy(s)' <=> Busy(s))
    BY <2>1, <2>3 DEF SlotOnce, BusyOnce, Busy
  <2> QED BY <1>2, <1>10, <1>11, <2>1, <2>2, <2>4 DEF SlotOnce, SlotApart, Somewhere
<1>13. QueueOK'
  BY <1>4 DEF QInv, QueueOK
<1>14. ASSUME NEW b \in Accepters PROVE AccepterOK(b)'
  <2>1. CASE b = a
    BY <1>8, <1>10, <2>1 DEF AccepterOK
  <2>2. CASE b # a
    BY <1>4, <1>8, <1>10, <2>2, RoundFacts DEF AccepterOK, Threads
  <2> QED BY <2>1, <2>2
<1>15. ASSUME NEW o \in posted' PROVE OpOK(o)'
  <2>1. CASE o = x
    BY <1>1, <1>4, <1>5, <1>7, <2>1 DEF OpOK
  <2>2. CASE o \in posted
    <3>1. OpOK(o) /\ o.slot # s0 /\ o.ov \in Ovs
      BY <1>2, <2>2, RoundFacts, OpFields DEF SlotApart
    <3>2. o.ov # AcceptOv(s0)
      BY <1>6, <3>1 DEF OpOK
    <3> QED BY <1>4, <1>7, <3>1, <3>2 DEF OpOK
  <2> QED BY <1>4, <2>1, <2>2
<1>16. ASSUME NEW k \in 1..Len(iocp') PROVE CompletionOK(iocp[k])'
  <2>1. CompletionOK(iocp[k]) /\ iocp[k].slot # s0 /\ iocp[k].ov \in Ovs
    BY <1>2, <1>4, RoundFacts, CompletionFields DEF SlotApart
  <2>2. iocp[k].ov # AcceptOv(s0)
    BY <1>6, <2>1 DEF CompletionOK
  <2> QED BY <1>4, <1>7, <2>1, <2>2 DEF CompletionOK
<1>17. ASSUME NEW w \in Workers PROVE WorkerOK(w)'
  <2>1. WorkerOK(w) /\ (pc[w] = "wsarecv" => buf[w] # AcceptOv(s0) /\ buf[w] \in Ovs)
    BY <1>6, RoundFacts DEF WorkerOK, Ovs
  <2> QED BY <1>4, <1>7, <1>8, <1>9, <2>1 DEF WorkerOK, JobOK
<1>18. PoolOK'
  BY <1>4 DEF QInv, PoolOK
<1> QED BY <1>4, <1>12, <1>13, <1>14, <1>15, <1>16, <1>17, <1>18 DEF Rest, Keeps

-----------------------------------------------------------------------------
(* The workers.                                                             *)

\* Only worker w moves.
LEMMA OnlyWorker ==
  ASSUME QInv, NEW w \in Workers, NEW l \in PlacesOf, Goto(w, l),
         NEW j, job' = [job EXCEPT ![w] = j] \/ (UNCHANGED job /\ j = job[w])
  PROVE  /\ pc'[w] = l /\ job'[w] = j
         /\ \A v \in Workers \ {w} : pc'[v] = pc[v] /\ job'[v] = job[v]
         /\ \A a \in Accepters : pc'[a] = pc[a]
         /\ \A v \in Workers \ {w}, s \in Slots : Carries(v, s)' <=> Carries(v, s)
<1>1. pc \in [Threads -> PlacesOf] /\ job \in [Workers -> Jobs \cup {NoJob}]
  BY RoundFacts DEF Types
<1>2. \A a \in Accepters : a \in Threads /\ a # w
  BY ThreadsAssumption DEF Threads
<1>3. \A v \in Workers : v \in Threads
  BY DEF Threads
<1>4. pc'[w] = l /\ \A t \in Threads \ {w} : pc'[t] = pc[t]
  BY <1>1, <1>3 DEF Goto
<1>5. job'[w] = j /\ \A v \in Workers \ {w} : job'[v] = job[v]
  BY <1>1
<1>6. \A v \in Workers \ {w} : pc'[v] = pc[v]
  BY <1>3, <1>4
<1>7. \A v \in Workers \ {w}, s \in Slots : Carries(v, s)' <=> Carries(v, s)
  BY <1>5, <1>6 DEF Carries
<1> QED BY <1>2, <1>4, <1>5, <1>6, <1>7

\* What the other workers hold is what it was.
LEMMA OtherWorkers ==
  ASSUME QInv, NEW w \in Workers, NEW v \in Workers, v # w,
         pc'[v] = pc[v], job'[v] = job[v], buf'[v] = buf[v],
         pc[v] = "wsarecv" => ovMem'[buf[v]] = ovMem[buf[v]],
         pc[v] \notin {"idle", "return"} =>
           (skt'[job[v].user] = "fresh" <=> skt[job[v].user] = "fresh")
  PROVE  WorkerOK(v)'
<1>1. WorkerOK(v)
  BY RoundFacts
<1>2. ASSUME pc[v] # "idle" PROVE JobOK(v)'
  BY <1>1, <1>2 DEF WorkerOK, JobOK
<1> QED BY <1>1, <1>2 DEF WorkerOK

LEMMA DequeueRound ==
  ASSUME QInv, NEW w \in Workers, Dequeue(w)
  PROVE  Rest' /\ Keeps
<1> DEFINE c == Head(iocp)
           m == ovMem[c.ov]
           j == [ov |-> c.ov, user |-> m.connObjNum, task |-> m.taskType, slot |-> c.slot,
                 old |-> c.old]
<1>1. /\ pc[w] = "idle" /\ iocp # <<>> /\ iocp' = Tail(iocp)
      /\ job' = [job EXCEPT ![w] = j] /\ Goto(w, Branch(c))
      /\ UNCHANGED <<ovMem, ovLapPool, heap, AcceptQueue, skt, posted, target, buf, requests, deaf>>
  BY DEF Dequeue
<1>2. iocp \in Seq(Completions)
  BY RoundFacts DEF Types
<1>3. /\ c \in Completions /\ Comes(c.slot)
      /\ \A k \in 1..Len(iocp') : \E i \in 1..Len(iocp) : iocp'[k] = iocp[i]
      /\ \A s : ComesOnce(s) => ComesOnce(s)' /\ (Comes(s)' <=> Comes(s) /\ s # c.slot)
  BY <1>1, <1>2, ComesPop
<1>4. CompletionOK(c) /\ c.slot \in Slots
  <2>1. PICK k \in 1..Len(iocp) : c = iocp[k]
    BY <1>1, <1>2, ComesPop
  <2> QED BY <2>1, RoundFacts
<1>5. /\ m.connObjNum = c.slot /\ ~c.old /\ skt[c.slot] # "fresh"
      /\ \/ c.res = "zero" /\ c.ov \notin PoolOvs /\ m.taskType = "ACCEPT"
         \/ c.ov \in PoolOvs /\ m.taskType = "RECV"
  BY <1>4, OvsFacts DEF CompletionOK, Mem, Tracked
<1>6. /\ Branch(c) \in {"recv", "disconnect"} /\ Branch(c) \in PlacesOf
      /\ m.taskType = "ACCEPT" => Branch(c) = "recv"
  BY <1>5 DEF Branch, PlacesOf
<1>7. /\ j.ov = c.ov /\ j.user = c.slot /\ j.task = m.taskType /\ j.slot = c.slot /\ j.old = c.old
  BY <1>5
<1> HIDE DEF c, m, j
<1>8. /\ pc'[w] = Branch(c) /\ job'[w] = j
      /\ \A v \in Workers \ {w} : pc'[v] = pc[v] /\ job'[v] = job[v]
      /\ \A a \in Accepters : pc'[a] = pc[a]
      /\ \A v \in Workers \ {w}, s \in Slots : Carries(v, s)' <=> Carries(v, s)
  BY <1>1, <1>6, OnlyWorker
<1>9. \A s \in Slots : ~Carries(w, s) /\ (Carries(w, s)' <=> s = c.slot)
  BY <1>1, <1>6, <1>7, <1>8 DEF Carries
<1>10. Round' /\ \A s \in Slots : Somewhere(s)' <=> Somewhere(s)
  <2> SUFFICES ASSUME NEW s \in Slots
               PROVE  SlotOnce(s)' /\ SlotApart(s)' /\ (Somewhere(s)' <=> Somewhere(s))
    BY DEF Round
  <2>1. SlotOnce(s) /\ SlotApart(s)
    BY RoundFacts
  <2>2. /\ WaitsOnce(s)' /\ (Waits(s)' <=> Waits(s))
        /\ TakenOnce(s)' /\ (Taken(s)' <=> Taken(s))
        /\ PendsOnce(s)' /\ (Pends(s)' <=> Pends(s))
    BY <1>1, <2>1 DEF SlotOnce, WaitsOnce, Waits, TakenOnce, Taken, PendsOnce, Pends
  <2>3. CASE s = c.slot
    <3>1. ~Busy(s)
      BY <1>3, <2>1, <2>3 DEF SlotApart
    <3>2. Busy(s)' /\ BusyOnce(s)'
      BY <1>8, <1>9, <2>3, <3>1, BusySet
    <3> QED BY <1>3, <2>1, <2>2, <2>3, <3>2 DEF SlotOnce, SlotApart, Somewhere
  <2>4. CASE s # c.slot
    <3>1. (Busy(s)' <=> Busy(s)) /\ BusyOnce(s)'
      BY <1>8, <1>9, <2>1, <2>4, BusySet DEF SlotOnce
    <3> QED BY <1>3, <2>1, <2>2, <2>4, <3>1 DEF SlotOnce, SlotApart, Somewhere
  <2> QED BY <2>3, <2>4
<1>11. QueueOK' /\ PoolOK'
  BY <1>1 DEF QInv, QueueOK, PoolOK
<1>12. \A a \in Accepters : AccepterOK(a)'
  BY <1>1, <1>8, RoundFacts DEF AccepterOK
<1>13. \A o \in posted' : OpOK(o)'
  BY <1>1, RoundFacts DEF OpOK
<1>14. ASSUME NEW k \in 1..Len(iocp') PROVE CompletionOK(iocp[k])'
  <2>1. PICK i \in 1..Len(iocp) : iocp'[k] = iocp[i]
    BY <1>3
  <2>2. CompletionOK(iocp[i])
    BY RoundFacts
  <2> QED BY <1>1, <2>1, <2>2 DEF CompletionOK
<1>15. ASSUME NEW v \in Workers PROVE WorkerOK(v)'
  <2>1. CASE v # w
    BY <1>1, <1>8, <2>1, OtherWorkers
  <2>2. CASE v = w
    <3>1. JobOK(w)'
      BY <1>1, <1>5, <1>6, <1>7, <1>8 DEF JobOK
    <3>2. buf'[w] = NoOv
      BY <1>1, RoundFacts DEF WorkerOK
    <3> QED BY <1>6, <1>8, <2>2, <3>1, <3>2 DEF WorkerOK
  <2> QED BY <2>1, <2>2
<1> QED BY <1>1, <1>10, <1>11, <1>12, <1>13, <1>14, <1>15 DEF Rest, Keeps

\* A block that a worker returns is nowhere else, so no other block's contents
\* are lost.
LEMMA ReturnOvLapRound ==
  ASSUME QInv, NEW w \in Workers, ReturnOvLap(w)
  PROVE  Rest' /\ Keeps
<1> DEFINE b0 == job[w].ov
           l == IF pc[w] = "disconnect" THEN "reset" ELSE "idle"
           j == IF pc[w] = "disconnect" THEN job[w] ELSE NoJob
<1>1. pc[w] \in {"return", "disconnect"} /\ job[w].task = "RECV" /\ b0 \in PoolOvs /\ JobOK(w)
  BY RoundFacts DEF ReturnOvLap, WorkerOK, JobOK
<1>2. /\ ovMem' = [ovMem EXCEPT ![b0] = ZeroMemory]
      /\ ovLapPool' = Append(ovLapPool, b0)
      /\ Goto(w, l)
      /\ job' = [job EXCEPT ![w] = j] \/ (UNCHANGED job /\ j = job[w])
      /\ UNCHANGED <<heap, AcceptQueue, skt, posted, iocp, target, buf, requests, deaf>>
  BY <1>1 DEF ReturnOvLap
<1>3. /\ l \in PlacesOf /\ (l = "idle" => pc[w] = "return" /\ j = NoJob)
      /\ l = "reset" => pc[w] = "disconnect" /\ j = job[w]
      /\ l \in {"idle", "reset"}
  BY <1>1 DEF PlacesOf
<1>4. b0 \in Ovs /\ b0 \in Tracked /\ Worked(b0)
  BY <1>1 DEF Ovs, Tracked, Worked, Uses
<1>5. ~Posted(b0) /\ ~Queued(b0) /\ ~Held(b0)
  BY <1>4, RoundFacts DEF Blocks, Apart
<1>6. \A b \in Ovs : b # b0 => ovMem'[b] = ovMem[b]
  BY <1>2, <1>4, RoundFacts DEF Types
<1> HIDE DEF b0, l, j
<1>7. /\ pc'[w] = l /\ job'[w] = j
      /\ \A v \in Workers \ {w} : pc'[v] = pc[v] /\ job'[v] = job[v]
      /\ \A a \in Accepters : pc'[a] = pc[a]
      /\ \A v \in Workers \ {w}, s \in Slots : Carries(v, s)' <=> Carries(v, s)
  BY <1>2, <1>3, OnlyWorker
<1>8. \A s \in Slots : Carries(w, s)' <=> Carries(w, s)
  BY <1>3, <1>7 DEF Carries
<1>9. Round' /\ \A s \in Slots : Somewhere(s)' <=> Somewhere(s)
  <2> SUFFICES ASSUME NEW s \in Slots
               PROVE  SlotOnce(s)' /\ SlotApart(s)' /\ (Somewhere(s)' <=> Somewhere(s))
    BY DEF Round
  <2>1. SlotOnce(s) /\ SlotApart(s)
    BY RoundFacts
  <2>2. /\ WaitsOnce(s)' /\ (Waits(s)' <=> Waits(s))
        /\ TakenOnce(s)' /\ (Taken(s)' <=> Taken(s))
        /\ PendsOnce(s)' /\ (Pends(s)' <=> Pends(s))
        /\ ComesOnce(s)' /\ (Comes(s)' <=> Comes(s))
    BY <1>2, <2>1 DEF SlotOnce, WaitsOnce, Waits, TakenOnce, Taken,
                      PendsOnce, Pends, ComesOnce, Comes
  <2>3. (Busy(s)' <=> Busy(s)) /\ BusyOnce(s)'
    BY <1>7, <1>8, <2>1, BusySet DEF SlotOnce
  <2> QED BY <2>1, <2>2, <2>3 DEF SlotOnce, SlotApart, Somewhere
<1>10. QueueOK'
  BY <1>2 DEF QInv, QueueOK
<1>11. \A a \in Accepters : AccepterOK(a)'
  BY <1>2, <1>7, RoundFacts DEF AccepterOK
<1>12. ASSUME NEW o \in posted' PROVE OpOK(o)'
  <2>1. OpOK(o) /\ o.ov # b0 /\ o.ov \in Ovs
    BY <1>2, <1>5, RoundFacts, OpFields
  <2> QED BY <1>2, <1>6, <2>1 DEF OpOK
<1>13. ASSUME NEW k \in 1..Len(iocp') PROVE CompletionOK(iocp[k])'
  <2>1. CompletionOK(iocp[k]) /\ iocp[k].ov # b0 /\ iocp[k].ov \in Ovs
    BY <1>2, <1>5, RoundFacts, CompletionFields
  <2> QED BY <1>2, <1>6, <2>1 DEF CompletionOK
<1>14. ASSUME NEW v \in Workers PROVE WorkerOK(v)'
  <2>1. CASE v # w
    <3>1. pc[v] = "wsarecv" => buf[v] \in Ovs /\ buf[v] # b0
      BY <1>5, RoundFacts DEF WorkerOK, Ovs, Held
    <3> QED BY <1>2, <1>6, <1>7, <2>1, <3>1, OtherWorkers
  <2>2. CASE v = w
    <3>1. ASSUME l = "reset" PROVE JobOK(w)'
      BY <1>1, <1>2, <1>3, <1>7, <3>1 DEF JobOK
    <3>2. buf'[w] = NoOv
      BY <1>1, <1>2, RoundFacts DEF WorkerOK
    <3> QED BY <1>3, <1>7, <2>2, <3>1, <3>2 DEF WorkerOK
  <2> QED BY <2>1, <2>2
<1>15. PoolOK'
  BY <1>1, <1>2, RoundFacts, PoolGrows DEF QInv, Types, b0
<1> QED BY <1>2, <1>9, <1>10, <1>11, <1>12, <1>13, <1>14, <1>15 DEF Rest, Keeps

\* ConnUserRecv fails, or its failure is seen: only the worker moves.
LEMMA FailureRound ==
  ASSUME QInv, NEW w \in Workers, pc[w] \in {"recv", "wsarecv", "recvFailed"},
         NEW l \in {"recvFailed", "reset", "return"}, l = "return" => job[w].task = "RECV",
         Goto(w, l), buf' = [buf EXCEPT ![w] = NoOv],
         UNCHANGED <<ovMem, ovLapPool, heap, AcceptQueue, skt, posted, iocp, job, target>>
  PROVE  /\ Rest'
         /\ \A s \in Slots : Somewhere(s)' <=> Somewhere(s) /\ (l = "return" => s # job[w].user)
<1>1. l \in PlacesOf
  BY DEF PlacesOf
<1>2. /\ pc'[w] = l /\ job' = job
      /\ \A v \in Workers \ {w} : pc'[v] = pc[v] /\ job'[v] = job[v]
      /\ \A a \in Accepters : pc'[a] = pc[a]
      /\ \A v \in Workers \ {w}, s \in Slots : Carries(v, s)' <=> Carries(v, s)
  BY <1>1, OnlyWorker
<1>3. /\ buf'[w] = NoOv /\ \A v \in (Workers \cup Senders) \ {w} : buf'[v] = buf[v]
  BY RoundFacts DEF Types
<1>4. \A s \in Slots : /\ Carries(w, s) <=> s = job[w].user
                       /\ Carries(w, s)' <=> s = job[w].user /\ l # "return"
  BY <1>2 DEF Carries
<1>5. /\ Round'
      /\ \A s \in Slots : Somewhere(s)' <=> Somewhere(s) /\ (l = "return" => s # job[w].user)
  <2> SUFFICES ASSUME NEW s \in Slots
               PROVE  /\ SlotOnce(s)' /\ SlotApart(s)'
                      /\ Somewhere(s)' <=> Somewhere(s) /\ (l = "return" => s # job[w].user)
    BY DEF Round
  <2>1. SlotOnce(s) /\ SlotApart(s)
    BY RoundFacts
  <2>2. /\ WaitsOnce(s)' /\ (Waits(s)' <=> Waits(s))
        /\ TakenOnce(s)' /\ (Taken(s)' <=> Taken(s))
        /\ PendsOnce(s)' /\ (Pends(s)' <=> Pends(s))
        /\ ComesOnce(s)' /\ (Comes(s)' <=> Comes(s))
    BY <2>1 DEF SlotOnce, WaitsOnce, Waits, TakenOnce, Taken, PendsOnce, Pends, ComesOnce, Comes
  <2>3. CASE s = job[w].user /\ l = "return"
    <3>1. Carries(w, s) /\ ~Carries(w, s)' /\ Busy(s)
      BY <1>4, <2>3 DEF Busy
    <3>2. ~Busy(s)' /\ BusyOnce(s)'
      BY <1>2, <2>1, <3>1, BusySet DEF SlotOnce
    <3> QED BY <2>1, <2>2, <2>3, <3>1, <3>2 DEF SlotOnce, SlotApart, Somewhere
  <2>4. CASE s # job[w].user \/ l # "return"
    <3>1. Carries(w, s)' <=> Carries(w, s)
      BY <1>4, <2>4
    <3>2. (Busy(s)' <=> Busy(s)) /\ BusyOnce(s)'
      BY <1>2, <2>1, <3>1, BusySet DEF SlotOnce
    <3> QED BY <2>1, <2>2, <2>4, <3>2 DEF SlotOnce, SlotApart, Somewhere
  <2> QED BY <2>3, <2>4
<1>6. QueueOK' /\ PoolOK' /\ \A a \in Accepters : AccepterOK(a)'
  BY <1>2, RoundFacts DEF QInv, QueueOK, PoolOK, AccepterOK
<1>7. /\ \A o \in posted' : OpOK(o)'
      /\ \A k \in 1..Len(iocp') : CompletionOK(iocp[k])'
  BY RoundFacts DEF OpOK, CompletionOK
<1>8. ASSUME NEW v \in Workers PROVE WorkerOK(v)'
  <2>1. CASE v # w
    BY <1>2, <1>3, <2>1, OtherWorkers
  <2>2. CASE v = w
    <3>1. JobOK(w)
      BY RoundFacts DEF WorkerOK
    <3>2. JobOK(w)'
      BY <1>2, <3>1 DEF JobOK
    <3> QED BY <1>2, <1>3, <2>2, <3>2 DEF WorkerOK
  <2> QED BY <2>1, <2>2
<1> QED BY <1>5, <1>6, <1>7, <1>8 DEF Rest

\* A worker with no block in hand may be said to lay it down.
LEMMA NoBlock ==
  ASSUME QInv, NEW w \in Workers, pc[w] # "wsarecv", UNCHANGED buf
  PROVE  buf' = [buf EXCEPT ![w] = NoOv]
<1>1. buf[w] = NoOv /\ buf \in [Workers \cup Senders -> Ovs \cup {NoOv}]
  BY RoundFacts DEF WorkerOK, Types
<1> QED BY <1>1

\* Only in a RECV branch does the failure lose the slot, and its client with it.
LEMMA RecvFailedRound ==
  ASSUME QInv, NEW w \in Workers, RecvFailed(w)
  PROVE  Rest' /\ Lost'
<1> DEFINE l == IF job[w].task = "ACCEPT" THEN "reset" ELSE "return"
<1>1. /\ pc[w] = "recvFailed" /\ Goto(w, l)
      /\ deaf' = IF job[w].task = "ACCEPT" THEN deaf ELSE deaf \cup {job[w].user}
      /\ UNCHANGED <<ovMem, ovLapPool, heap, AcceptQueue, skt, posted, iocp, job, target, buf>>
  BY DEF RecvFailed
<1>2. /\ l \in {"recvFailed", "reset", "return"} /\ (l = "return" => job[w].task = "RECV")
      /\ deaf' = IF l = "return" THEN deaf \cup {job[w].user} ELSE deaf
  BY <1>1, RoundFacts DEF WorkerOK, JobOK
<1>3. buf' = [buf EXCEPT ![w] = NoOv]
  BY <1>1, NoBlock
<1> HIDE DEF l
<1>4. /\ Rest'
      /\ \A s \in Slots : Somewhere(s)' <=> Somewhere(s) /\ (l = "return" => s # job[w].user)
  BY <1>1, <1>2, <1>3, FailureRound
<1>5. Lost'
  BY <1>2, <1>4 DEF QInv, Lost
<1> QED BY <1>4, <1>5

LEMMA BlockTakenRound ==
  ASSUME QInv, NEW w \in Workers, GetRecvOv(w), ovLapPool # <<>>
  PROVE  Rest' /\ Keeps
<1> DEFINE b0 == Head(ovLapPool)
           s0 == job[w].user
<1>1. pc[w] = "recv" /\ ovLapPool # <<>> /\ ovLapPool \in Seq(Ovs)
  BY RoundFacts DEF GetRecvOv, Types
<1>2. /\ buf' = [buf EXCEPT ![w] = b0]
      /\ ovLapPool' = Tail(ovLapPool)
      /\ ovMem' = [ovMem EXCEPT ![b0] = Mem("RECV", s0)]
      /\ Goto(w, "wsarecv")
      /\ UNCHANGED <<heap, AcceptQueue, skt, posted, iocp, job, target, requests, deaf>>
  BY <1>1 DEF GetRecvOv, Mem
<1>3. /\ PoolOK' /\ b0 \in PoolOvs /\ b0 \in Ovs /\ b0 \in Tracked
  BY <1>1, <1>2, PoolKept DEF QInv, Ovs, Tracked
<1>4. Pooled(b0) /\ ~Posted(b0) /\ ~Queued(b0) /\ ~Held(b0)
  BY <1>1, <1>2, <1>3, PoolPop, RoundFacts DEF Blocks, Apart
<1>5. ovMem'[b0] = Mem("RECV", s0) /\ \A b \in Ovs : b # b0 => ovMem'[b] = ovMem[b]
  BY <1>2, <1>3, RoundFacts DEF Types
<1>6. "wsarecv" \in PlacesOf
  BY DEF PlacesOf
<1>7. /\ pc'[w] = "wsarecv" /\ job'[w] = job[w]
      /\ \A v \in Workers \ {w} : pc'[v] = pc[v] /\ job'[v] = job[v]
      /\ \A a \in Accepters : pc'[a] = pc[a]
      /\ \A v \in Workers \ {w}, s \in Slots : Carries(v, s)' <=> Carries(v, s)
  BY <1>2, <1>6, OnlyWorker
<1>8. /\ buf'[w] = b0 /\ \A v \in (Workers \cup Senders) \ {w} : buf'[v] = buf[v]
  BY <1>2, RoundFacts DEF Types
<1>9. \A s \in Slots : Carries(w, s)' <=> Carries(w, s)
  BY <1>1, <1>7 DEF Carries
<1> HIDE DEF b0, s0
<1>10. Round' /\ \A s \in Slots : Somewhere(s)' <=> Somewhere(s)
  <2> SUFFICES ASSUME NEW s \in Slots
               PROVE  SlotOnce(s)' /\ SlotApart(s)' /\ (Somewhere(s)' <=> Somewhere(s))
    BY DEF Round
  <2>1. SlotOnce(s) /\ SlotApart(s)
    BY RoundFacts
  <2>2. /\ WaitsOnce(s)' /\ (Waits(s)' <=> Waits(s))
        /\ TakenOnce(s)' /\ (Taken(s)' <=> Taken(s))
        /\ PendsOnce(s)' /\ (Pends(s)' <=> Pends(s))
        /\ ComesOnce(s)' /\ (Comes(s)' <=> Comes(s))
    BY <1>2, <2>1 DEF SlotOnce, WaitsOnce, Waits, TakenOnce, Taken,
                      PendsOnce, Pends, ComesOnce, Comes
  <2>3. (Busy(s)' <=> Busy(s)) /\ BusyOnce(s)'
    BY <1>7, <1>9, <2>1, BusySet DEF SlotOnce
  <2> QED BY <2>1, <2>2, <2>3 DEF SlotOnce, SlotApart, Somewhere
<1>11. QueueOK'
  BY <1>2 DEF QInv, QueueOK
<1>12. \A a \in Accepters : AccepterOK(a)'
  BY <1>2, <1>7, RoundFacts DEF AccepterOK
<1>13. ASSUME NEW o \in posted' PROVE OpOK(o)'
  <2>1. OpOK(o) /\ o.ov # b0 /\ o.ov \in Ovs
    BY <1>2, <1>4, RoundFacts, OpFields
  <2> QED BY <1>2, <1>5, <2>1 DEF OpOK
<1>14. ASSUME NEW k \in 1..Len(iocp') PROVE CompletionOK(iocp[k])'
  <2>1. CompletionOK(iocp[k]) /\ iocp[k].ov # b0 /\ iocp[k].ov \in Ovs
    BY <1>2, <1>4, RoundFacts, CompletionFields
  <2> QED BY <1>2, <1>5, <2>1 DEF CompletionOK
<1>15. ASSUME NEW v \in Workers PROVE WorkerOK(v)'
  <2>1. CASE v # w
    <3>1. pc[v] = "wsarecv" => buf[v] \in Ovs /\ buf[v] # b0
      BY <1>4, RoundFacts DEF WorkerOK, Ovs, Held
    <3> QED BY <1>2, <1>5, <1>7, <1>8, <2>1, <3>1, OtherWorkers
  <2>2. CASE v = w
    <3>1. JobOK(w)
      BY <1>1, RoundFacts DEF WorkerOK
    <3>2. JobOK(w)'
      BY <1>1, <1>2, <1>7, <3>1 DEF JobOK
    <3> QED BY <1>3, <1>5, <1>7, <1>8, <2>2, <3>2 DEF WorkerOK, s0
  <2> QED BY <2>1, <2>2
<1> QED BY <1>2, <1>3, <1>10, <1>11, <1>12, <1>13, <1>14, <1>15 DEF Rest, Keeps

LEMMA GetRecvOvRound ==
  ASSUME QInv, NEW w \in Workers, GetRecvOv(w)
  PROVE  Rest' /\ Keeps
<1>1. CASE ovLapPool = <<>>
  <2>1. /\ pc[w] = "recv" /\ Goto(w, "recvFailed")
        /\ UNCHANGED <<ovMem, ovLapPool, heap, AcceptQueue, skt, posted, iocp, job, target, buf,
                       deaf>>
    BY <1>1 DEF GetRecvOv
  <2>2. buf' = [buf EXCEPT ![w] = NoOv]
    BY <2>1, NoBlock
  <2> QED BY <1>1, <2>1, <2>2, FailureRound DEF Keeps
<1>2. CASE ovLapPool # <<>>
  BY <1>2, BlockTakenRound
<1> QED BY <1>1, <1>2

\* WSARecv succeeds.
LEMMA ReceiveRound ==
  ASSUME QInv, NEW w \in Workers, WSARecv(w), pc'[w] # "recvFailed"
  PROVE  Rest' /\ Keeps
<1> DEFINE s0 == job[w].user
           b0 == buf[w]
           x == [op |-> "RECV", ov |-> b0, slot |-> s0]
           l == IF job[w].task = "ACCEPT" THEN "idle" ELSE "return"
           j == IF job[w].task = "ACCEPT" THEN NoJob ELSE job[w]
<1>1. /\ pc[w] = "wsarecv" /\ s0 \in Slots /\ skt[s0] # "fresh" /\ JobOK(w)
      /\ b0 \in PoolOvs /\ ovMem[b0] = Mem("RECV", s0)
  BY RoundFacts DEF WSARecv, WorkerOK, JobOK
<1>2. /\ posted' = posted \cup {x}
      /\ Goto(w, l)
      /\ job' = [job EXCEPT ![w] = j]
      /\ buf' = [buf EXCEPT ![w] = NoOv]
      /\ UNCHANGED <<ovMem, ovLapPool, heap, AcceptQueue, skt, iocp, target, requests, deaf>>
  <2>1. Goto(w, "recvFailed") => pc'[w] = "recvFailed"
    BY RoundFacts DEF Goto, Types
  <2> QED BY <1>1, <2>1 DEF WSARecv
<1>3. x.op = "RECV" /\ x.ov = b0 /\ x.slot = s0
  OBVIOUS
<1>4. /\ l \in PlacesOf /\ l \in {"idle", "return"}
      /\ l = "return" => j = job[w] /\ job[w].task # "ACCEPT"
      /\ l = "idle" => job[w].task = "ACCEPT"
  BY DEF PlacesOf
<1> HIDE DEF x, l, j
<1>5. /\ pc'[w] = l /\ job'[w] = j
      /\ \A v \in Workers \ {w} : pc'[v] = pc[v] /\ job'[v] = job[v]
      /\ \A a \in Accepters : pc'[a] = pc[a]
      /\ \A v \in Workers \ {w}, s \in Slots : Carries(v, s)' <=> Carries(v, s)
  BY <1>2, <1>4, OnlyWorker
<1>6. \A s \in Slots : ~Carries(w, s)' /\ (Carries(w, s) <=> s = s0)
  BY <1>1, <1>4, <1>5 DEF Carries
<1>7. /\ buf'[w] = NoOv /\ \A v \in (Workers \cup Senders) \ {w} : buf'[v] = buf[v]
  BY <1>2, RoundFacts DEF Types
<1>8. \A s : /\ Pends(s)' <=> Pends(s) \/ s = s0
             /\ PendsOnce(s) /\ (s = s0 => ~Pends(s)) => PendsOnce(s)'
  BY <1>2, <1>3, PendsMore
<1> HIDE DEF s0, b0
<1>9. Round' /\ \A s \in Slots : Somewhere(s)' <=> Somewhere(s)
  <2> SUFFICES ASSUME NEW s \in Slots
               PROVE  SlotOnce(s)' /\ SlotApart(s)' /\ (Somewhere(s)' <=> Somewhere(s))
    BY DEF Round
  <2>1. SlotOnce(s) /\ SlotApart(s)
    BY RoundFacts
  <2>2. /\ WaitsOnce(s)' /\ (Waits(s)' <=> Waits(s))
        /\ TakenOnce(s)' /\ (Taken(s)' <=> Taken(s))
        /\ ComesOnce(s)' /\ (Comes(s)' <=> Comes(s))
    BY <1>2, <2>1 DEF SlotOnce, WaitsOnce, Waits, TakenOnce, Taken, ComesOnce, Comes
  <2>3. CASE s = s0
    <3>1. Busy(s) /\ ~Busy(s)' /\ BusyOnce(s)'
      <4>1. Busy(s) /\ Carries(w, s) /\ BusyOnce(s)
        BY <1>6, <2>1, <2>3 DEF Busy, SlotOnce
      <4> QED BY <1>5, <1>6, <4>1, BusySet
    <3> QED BY <1>8, <2>1, <2>2, <2>3, <3>1 DEF SlotOnce, SlotApart, Somewhere
  <2>4. CASE s # s0
    <3>1. (Busy(s)' <=> Busy(s)) /\ BusyOnce(s)'
      BY <1>5, <1>6, <2>1, <2>4, BusySet DEF SlotOnce
    <3> QED BY <1>8, <2>1, <2>2, <2>4, <3>1 DEF SlotOnce, SlotApart, Somewhere
  <2> QED BY <2>3, <2>4
<1>10. QueueOK' /\ PoolOK'
  BY <1>2 DEF QInv, QueueOK, PoolOK
<1>11. \A a \in Accepters : AccepterOK(a)'
  BY <1>2, <1>5, RoundFacts DEF AccepterOK
<1>12. ASSUME NEW o \in posted' PROVE OpOK(o)'
  <2>1. CASE o = x
    BY <1>1, <1>2, <1>3, <2>1 DEF OpOK
  <2>2. CASE o \in posted
    BY <1>2, <2>2, RoundFacts DEF OpOK
  <2> QED BY <1>2, <2>1, <2>2
<1>13. \A k \in 1..Len(iocp') : CompletionOK(iocp[k])'
  BY <1>2, RoundFacts DEF CompletionOK
<1>14. ASSUME NEW v \in Workers PROVE WorkerOK(v)'
  <2>1. CASE v # w
    BY <1>2, <1>5, <1>7, <2>1, OtherWorkers
  <2>2. CASE v = w
    <3>1. ASSUME l = "return" PROVE JobOK(w)'
      BY <1>1, <1>2, <1>4, <1>5, <3>1 DEF JobOK
    <3> QED BY <1>4, <1>5, <1>7, <2>2, <3>1 DEF WorkerOK
  <2> QED BY <2>1, <2>2
<1> QED BY <1>2, <1>9, <1>10, <1>11, <1>12, <1>13, <1>14 DEF Rest, Keeps

LEMMA WSARecvRound ==
  ASSUME QInv, NEW w \in Workers, WSARecv(w)
  PROVE  Rest' /\ Keeps
<1>1. CASE pc'[w] # "recvFailed"
  BY <1>1, ReceiveRound
<1>2. CASE pc'[w] = "recvFailed"
  <2>1. pc[w] = "wsarecv" /\ JobOK(w)
    BY RoundFacts DEF WSARecv, WorkerOK
  <2>2. skt[job[w].user] # "fresh"
    BY <2>1 DEF JobOK
  <2>3. /\ Goto(w, "recvFailed") /\ buf' = [buf EXCEPT ![w] = NoOv]
        /\ UNCHANGED <<ovMem, ovLapPool, heap, AcceptQueue, skt, posted, iocp, job, target, deaf>>
    <3>1. \A l \in {"idle", "return"} : Goto(w, l) => pc'[w] = l
      BY RoundFacts DEF Goto, Types
    <3> QED BY <1>2, <2>1, <2>2, <3>1 DEF WSARecv
  <2> QED BY <2>1, <2>3, FailureRound DEF Keeps
<1> QED BY <1>1, <1>2

\* Nothing of the slot is pending: the reset aborts nothing.
LEMMA ResetRound ==
  ASSUME QInv, NEW w \in Workers, Reset(w)
  PROVE  Rest' /\ Keeps
<1> DEFINE s0 == job[w].user
           aborted == {o \in posted : o.slot = s0}
<1>1. pc[w] = "reset" /\ s0 \in Slots /\ Carries(w, s0) /\ JobOK(w)
  BY RoundFacts DEF Reset, Carries, WorkerOK
<1>2. Busy(s0) /\ SlotApart(s0) /\ SlotOnce(s0)
  BY <1>1, RoundFacts DEF Busy
<1>3. aborted = {}
  BY <1>2 DEF SlotApart, Pends
<1>4. iocp \in Seq(Completions)
  BY RoundFacts DEF Types
<1>5. iocp' = iocp
  <2>1. PICK q \in SetToSeqs({Completion(o, "fail") : o \in aborted}) :
          iocp' = [i \in DOMAIN (iocp \o q) |-> Outdate((iocp \o q)[i], s0)]
    BY DEF Reset
  <2>2. {Completion(o, "fail") : o \in aborted} = {}
    BY <1>3
  <2>3. q \in Seq({}) /\ Len(q) = Cardinality({})
    BY <2>1, <2>2, FS_EmptySet, Arrangement
  <2>4. q = <<>>
    BY <2>3, FS_EmptySet
  <2>5. iocp \o q = iocp
    BY <1>4, <2>4
  <2>6. iocp' = [i \in 1..Len(iocp) |-> Outdate(iocp[i], s0)]
    BY <1>4, <2>1, <2>5
  <2>7. \A i \in 1..Len(iocp) : Outdate(iocp[i], s0) = iocp[i]
    BY <1>2, RoundFacts DEF SlotApart, Outdate
  <2>8. iocp' = [i \in 1..Len(iocp) |-> iocp[i]]
    BY <2>6, <2>7
  <2> QED BY <1>4, <2>8
<1>6. /\ skt' = [skt EXCEPT ![s0] = "fresh"] /\ posted' = posted
      /\ job' = [v \in Workers |-> IF v = w \/ job[v] = NoJob THEN job[v] ELSE Outdate(job[v], s0)]
      /\ pc' = [pc EXCEPT ![w] = "requeue"]
      /\ UNCHANGED <<ovMem, ovLapPool, heap, AcceptQueue, target, buf, requests>>
      /\ deaf' = deaf \ {s0}
  BY <1>3 DEF Reset, Goto
<1>7. skt'[s0] = "fresh" /\ \A s \in Slots : s # s0 => skt'[s] = skt[s]
  BY <1>1, <1>6, RoundFacts DEF Types
<1>8. /\ pc'[w] = "requeue" /\ \A v \in Workers \ {w} : pc'[v] = pc[v]
      /\ \A a \in Accepters : pc'[a] = pc[a]
  <2>1. \A a \in Accepters : a \in Threads /\ a # w
    BY ThreadsAssumption DEF Threads
  <2>2. \A v \in Workers : v \in Threads
    BY DEF Threads
  <2> QED BY <1>6, <2>1, <2>2, RoundFacts DEF Types
<1>9. job'[w] = job[w]
  BY <1>6
<1>10. ASSUME NEW v \in Workers, v # w, pc[v] # "idle"
       PROVE  /\ job'[v].ov = job[v].ov /\ job'[v].task = job[v].task
              /\ job'[v].user = job[v].user /\ job'[v].slot = job[v].slot
              /\ pc[v] # "return" => job'[v] = job[v] /\ job[v].user # s0
  <2>1. job[v] \in Jobs /\ JobOK(v)
    BY <1>10, RoundFacts DEF WorkerOK
  <2>2. job'[v] = job[v] \/ job'[v] = Outdate(job[v], s0)
    BY <1>6
  <2>3. ASSUME pc[v] # "return" PROVE job[v].user # s0 /\ job[v].slot # s0
    BY <1>1, <1>2, <1>10, <2>1, <2>3 DEF SlotOnce, BusyOnce, Carries, JobOK
  <2>4. /\ Outdate(job[v], s0).ov = job[v].ov /\ Outdate(job[v], s0).task = job[v].task
        /\ Outdate(job[v], s0).user = job[v].user /\ Outdate(job[v], s0).slot = job[v].slot
        /\ job[v].slot # s0 => Outdate(job[v], s0) = job[v]
    BY <2>1 DEF Outdate, Jobs
  <2> QED BY <2>2, <2>3, <2>4
<1> HIDE DEF s0, aborted
<1>11. \A v \in Workers, s \in Slots : Carries(v, s)' <=> Carries(v, s)
  BY <1>1, <1>8, <1>9, <1>10 DEF Carries
<1>12. Round' /\ \A s \in Slots : Somewhere(s)' <=> Somewhere(s)
  <2> SUFFICES ASSUME NEW s \in Slots
               PROVE  SlotOnce(s)' /\ SlotApart(s)' /\ (Somewhere(s)' <=> Somewhere(s))
    BY DEF Round
  <2>1. SlotOnce(s) /\ SlotApart(s)
    BY RoundFacts
  <2>2. /\ WaitsOnce(s)' /\ (Waits(s)' <=> Waits(s))
        /\ TakenOnce(s)' /\ (Taken(s)' <=> Taken(s))
        /\ PendsOnce(s)' /\ (Pends(s)' <=> Pends(s))
        /\ ComesOnce(s)' /\ (Comes(s)' <=> Comes(s))
    BY <1>5, <1>6, <2>1 DEF SlotOnce, WaitsOnce, Waits, TakenOnce, Taken,
                            PendsOnce, Pends, ComesOnce, Comes
  <2>3. (Busy(s)' <=> Busy(s)) /\ BusyOnce(s)'
    BY <1>11, <2>1 DEF SlotOnce, Busy, BusyOnce
  <2> QED BY <2>1, <2>2, <2>3 DEF SlotOnce, SlotApart, Somewhere
<1>13. QueueOK' /\ PoolOK'
  <2>1. \A k \in 1..Len(AcceptQueue) : AcceptQueue[k] \in Slots
    BY RoundFacts DEF Types
  <2> QED BY <1>6, <1>7, <2>1 DEF QInv, QueueOK, PoolOK
<1>14. \A a \in Accepters : AccepterOK(a)'
  BY <1>6, <1>7, <1>8, RoundFacts DEF AccepterOK
<1>15. ASSUME NEW o \in posted' PROVE OpOK(o)'
  <2>1. OpOK(o) /\ o.slot # s0 /\ o.slot \in Slots
    BY <1>2, <1>6, RoundFacts DEF SlotApart
  <2> QED BY <1>6, <1>7, <2>1 DEF OpOK
<1>16. ASSUME NEW k \in 1..Len(iocp') PROVE CompletionOK(iocp[k])'
  <2>1. CompletionOK(iocp[k]) /\ iocp[k].slot # s0 /\ iocp[k].slot \in Slots
    BY <1>2, <1>5, RoundFacts DEF SlotApart
  <2> QED BY <1>5, <1>6, <1>7, <2>1 DEF CompletionOK
<1>17. ASSUME NEW v \in Workers PROVE WorkerOK(v)'
  <2>1. WorkerOK(v)
    BY RoundFacts
  <2>2. CASE v = w
    <3>1. JobOK(w)'
      BY <1>1, <1>7, <1>8, <1>9 DEF JobOK, s0
    <3> QED BY <1>1, <1>6, <1>8, <2>1, <2>2, <3>1 DEF WorkerOK
  <2>3. CASE v # w /\ pc[v] # "idle"
    <3>1. job[v].user \in Slots
      BY <2>3, RoundFacts
    <3>2. JobOK(v)'
      BY <1>7, <1>8, <1>10, <2>1, <2>3, <3>1 DEF WorkerOK, JobOK
    <3> QED BY <1>6, <1>8, <1>10, <2>1, <2>3, <3>2 DEF WorkerOK
  <2>4. CASE v # w /\ pc[v] = "idle"
    BY <1>6, <1>8, <2>1, <2>4 DEF WorkerOK
  <2> QED BY <2>2, <2>3, <2>4
<1>18. deaf' = deaf
  BY <1>1, <1>2, <1>6 DEF QInv, Lost, Somewhere
<1> QED BY <1>12, <1>13, <1>14, <1>15, <1>16, <1>17, <1>18 DEF Rest, Keeps

LEMMA RequeueRound ==
  ASSUME QInv, NEW w \in Workers, Requeue(w)
  PROVE  Rest' /\ Keeps
<1> DEFINE s0 == job[w].user
<1>1. /\ pc[w] = "requeue" /\ s0 \in Slots /\ skt[s0] = "fresh"
  BY RoundFacts DEF Requeue, WorkerOK, JobOK
<1>2. /\ AcceptQueue' = Append(AcceptQueue, s0) /\ job' = [job EXCEPT ![w] = NoJob]
      /\ Goto(w, "idle")
      /\ UNCHANGED <<ovMem, ovLapPool, heap, skt, posted, iocp, target, buf, requests, deaf>>
  BY DEF Requeue
<1>3. "idle" \in PlacesOf /\ AcceptQueue \in Seq(Slots)
  BY RoundFacts DEF PlacesOf, Types
<1>4. /\ pc'[w] = "idle"
      /\ \A v \in Workers \ {w} : pc'[v] = pc[v] /\ job'[v] = job[v]
      /\ \A a \in Accepters : pc'[a] = pc[a]
      /\ \A v \in Workers \ {w}, s \in Slots : Carries(v, s)' <=> Carries(v, s)
  BY <1>2, <1>3, OnlyWorker
<1>5. \A s \in Slots : ~Carries(w, s)' /\ (Carries(w, s) <=> s = s0)
  BY <1>1, <1>4 DEF Carries
<1>6. \A s : /\ Waits(s)' <=> Waits(s) \/ s = s0
             /\ WaitsOnce(s) /\ (s = s0 => ~Waits(s)) => WaitsOnce(s)'
  BY <1>1, <1>2, <1>3, QueuePush
<1> HIDE DEF s0
<1>7. Round' /\ \A s \in Slots : Somewhere(s)' <=> Somewhere(s)
  <2> SUFFICES ASSUME NEW s \in Slots
               PROVE  SlotOnce(s)' /\ SlotApart(s)' /\ (Somewhere(s)' <=> Somewhere(s))
    BY DEF Round
  <2>1. SlotOnce(s) /\ SlotApart(s)
    BY RoundFacts
  <2>2. /\ PendsOnce(s)' /\ (Pends(s)' <=> Pends(s))
        /\ TakenOnce(s)' /\ (Taken(s)' <=> Taken(s))
        /\ ComesOnce(s)' /\ (Comes(s)' <=> Comes(s))
    BY <1>2, <2>1 DEF SlotOnce, PendsOnce, Pends, TakenOnce, Taken, ComesOnce, Comes
  <2>3. CASE s = s0
    <3>1. Busy(s) /\ ~Busy(s)' /\ BusyOnce(s)'
      <4>1. Busy(s) /\ Carries(w, s) /\ BusyOnce(s)
        BY <1>5, <2>1, <2>3 DEF Busy, SlotOnce
      <4> QED BY <1>4, <1>5, <4>1, BusySet
    <3> QED BY <1>6, <2>1, <2>2, <2>3, <3>1 DEF SlotOnce, SlotApart, Somewhere
  <2>4. CASE s # s0
    <3>1. (Busy(s)' <=> Busy(s)) /\ BusyOnce(s)'
      BY <1>4, <1>5, <2>1, <2>4, BusySet DEF SlotOnce
    <3> QED BY <1>6, <2>1, <2>2, <2>4, <3>1 DEF SlotOnce, SlotApart, Somewhere
  <2> QED BY <2>3, <2>4
<1>8. QueueOK'
  <2>1. \A k \in 1..Len(AcceptQueue') :
          \/ k \in 1..Len(AcceptQueue) /\ AcceptQueue'[k] = AcceptQueue[k]
          \/ AcceptQueue'[k] = s0
    BY <1>2, <1>3
  <2> QED BY <1>1, <1>2, <2>1 DEF QInv, QueueOK
<1>9. PoolOK' /\ \A a \in Accepters : AccepterOK(a)'
  BY <1>2, <1>4, RoundFacts DEF QInv, PoolOK, AccepterOK
<1>10. /\ \A o \in posted' : OpOK(o)'
       /\ \A k \in 1..Len(iocp') : CompletionOK(iocp[k])'
  BY <1>2, RoundFacts DEF OpOK, CompletionOK
<1>11. ASSUME NEW v \in Workers PROVE WorkerOK(v)'
  <2>1. CASE v # w
    BY <1>2, <1>4, <2>1, OtherWorkers
  <2>2. CASE v = w
    <3>1. buf[w] = NoOv
      BY <1>1, RoundFacts DEF WorkerOK
    <3> QED BY <1>2, <1>4, <2>2, <3>1 DEF WorkerOK
  <2> QED BY <2>1, <2>2
<1> QED BY <1>2, <1>7, <1>8, <1>9, <1>10, <1>11 DEF Rest, Keeps

-----------------------------------------------------------------------------
(* The invariant.                                                           *)

\* An arrangement leaves nothing out.
LEMMA AllArranged ==
  ASSUME NEW S, IsFiniteSet(S), NEW q \in SetToSeqs(S), NEW x \in S
  PROVE  \E k \in 1..Len(q) : q[k] = x
<1>1. /\ q \in Seq(S) /\ Len(q) = Cardinality(S) /\ Cardinality(S) \in Nat
      /\ \A i, j \in 1..Len(q) : q[i] = q[j] => i = j
  BY Arrangement, FS_CardinalityType
<1>2. q \in [1..Len(q) -> S] /\ DOMAIN q = 1..Len(q)
  BY <1>1
<1>3. q \in Injection(1..Len(q), S)
  BY <1>1, <1>2 DEF Injection, IsInjective
<1>4. Cardinality(1..Len(q)) = Cardinality(S)
  <2>1. 1 \in Int /\ Len(q) \in Int
    BY <1>1
  <2>2. Cardinality(1..Len(q)) = IF 1 > Len(q) THEN 0 ELSE Len(q) - 1 + 1
    BY <2>1, FS_Interval
  <2> QED BY <1>1, <2>2
<1>5. q \in Surjection(1..Len(q), S)
  BY <1>3, <1>4, FS_Injection
<1> QED BY <1>5 DEF Surjection

LEMMA InitRound == Init => QInv
<1> SUFFICES ASSUME Init PROVE QInv
  OBVIOUS
<1>1. /\ IInv /\ IsFiniteSet(Slots) /\ IsFiniteSet(PoolOvs)
      /\ AcceptQueue \in SetToSeqs(Slots) /\ ovLapPool \in SetToSeqs(PoolOvs)
  BY InitIInv, SlotsAssumption, OvsAssumption DEF Init
<1>2. /\ \A w \in Workers : pc[w] = "idle" /\ buf[w] = NoOv
      /\ \A a \in Accepters : pc[a] = "idle" /\ target[a] = NoSlot
      /\ posted = {} /\ iocp = <<>> /\ skt = [s \in Slots |-> "fresh"]
  BY DEF Init, Threads
<1>3. /\ AcceptQueue \in Seq(Slots)
      /\ \A i, j \in 1..Len(AcceptQueue) : AcceptQueue[i] = AcceptQueue[j] => i = j
  BY <1>1, Arrangement
<1>4. Round /\ \A s \in Slots : Somewhere(s)
  <2> SUFFICES ASSUME NEW s \in Slots PROVE SlotOnce(s) /\ SlotApart(s) /\ Somewhere(s)
    BY DEF Round
  <2>1. ~Taken(s) /\ ~Pends(s) /\ ~Comes(s) /\ ~Busy(s)
    BY <1>2, SlotsAssumption DEF Taken, Pends, Comes, Busy, Carries
  <2>2. Waits(s) /\ WaitsOnce(s)
    BY <1>1, <1>3, AllArranged DEF Waits, WaitsOnce
  <2> QED BY <2>1, <2>2 DEF SlotOnce, SlotApart, Somewhere, TakenOnce, PendsOnce, ComesOnce, BusyOnce,
                            Taken, Pends, Comes, Busy
<1>5. QueueOK
  BY <1>2, <1>3 DEF QueueOK
<1>6. PoolOK
  BY <1>1, Arrangement DEF PoolOK
<1>7. Lost
  BY <1>4 DEF Init, Lost
<1>8. \A w \in Workers : WorkerOK(w)
  BY <1>2 DEF WorkerOK
<1>9. \A a \in Accepters : AccepterOK(a)
  BY <1>2 DEF AccepterOK
<1> QED BY <1>1, <1>2, <1>4, <1>5, <1>6, <1>7, <1>8, <1>9 DEF QInv

LEMMA StepRound ==
  ASSUME QInv, ReceiveOnly, [Next]_vars
  PROVE  QInv'
<1>1. Keeps => Lost'
  BY DEF QInv, Lost, Keeps
<1>2. ASSUME NEW a \in Accepters, AccepterStep(a) PROVE Rest' /\ Lost'
  <2>1. ~PushBack(a)
    BY RoundFacts DEF PushBack, AccepterOK
  <2> QED BY <1>1, <1>2, <2>1, PopAcceptRound, PostAcceptRound DEF AccepterStep
<1>3. ASSUME NEW w \in Workers, Dequeue(w) \/ WorkerStep(w) PROVE Rest' /\ Lost'
  BY <1>1, <1>3, DequeueRound, ReturnOvLapRound, GetRecvOvRound, WSARecvRound, RecvFailedRound,
     ResetRound, RequeueRound DEF WorkerStep
<1>4. ASSUME Client PROVE Rest' /\ Lost'
  BY <1>1, <1>4, ClientRound
<1>5. ASSUME UNCHANGED vars PROVE Rest' /\ Lost'
  BY <1>1, <1>5, LeaveRound DEF vars
<1>6. Rest' /\ Lost'
  BY <1>2, <1>3, <1>4, <1>5 DEF Next, ReceiveOnly
<1>7. IInv'
  BY StepIInv DEF QInv
<1> QED BY <1>6, <1>7 DEF QInv, Rest

LEMMA RoundInvariance == ASSUME ReceiveOnly PROVE Spec => []QInv
<1>1. QInv /\ [Next]_vars => QInv'
  BY StepRound
<1> QED BY <1>1, InitRound, PTL DEF Spec

-----------------------------------------------------------------------------
(* The theorems.                                                            *)

\* What carries slot s is in one place, and nowhere else.
LEMMA OneCarrier ==
  ASSUME QInv, NEW s \in Slots
  PROVE  /\ \A p, r \in Carriers(s) : p = r
         /\ Somewhere(s) <=> Carriers(s) # {}
<1>1. /\ SlotOnce(s) /\ SlotApart(s)
      /\ DOMAIN AcceptQueue = 1..Len(AcceptQueue) /\ DOMAIN iocp = 1..Len(iocp)
  BY RoundFacts DEF Types
<1>2. ASSUME NEW p \in Carriers(s)
      PROVE  \/ \E k \in 1..Len(AcceptQueue) :
                  Waits(s) /\ p = <<"queue", k>> /\ AcceptQueue[k] = s
             \/ \E a \in Accepters : Taken(s) /\ p = <<"accepter", a>> /\ target[a] = s
             \/ \E o \in posted : Pends(s) /\ p = <<"posted", o>> /\ o.slot = s
             \/ \E k \in 1..Len(iocp) : Comes(s) /\ p = <<"iocp", k>> /\ iocp[k].slot = s
             \/ \E w \in Workers : Busy(s) /\ p = <<"worker", w>> /\ Carries(w, s)
  BY <1>1, <1>2 DEF Carriers, Waits, Taken, Pends, Comes, Busy, Carries
<1>3. ASSUME NEW p \in Carriers(s), NEW r \in Carriers(s) PROVE p = r
  <2>1. CASE Waits(s)
    BY <1>1, <1>2, <2>1 DEF SlotApart, SlotOnce, WaitsOnce
  <2>2. CASE Taken(s)
    BY <1>1, <1>2, <2>2 DEF SlotApart, SlotOnce, TakenOnce
  <2>3. CASE Pends(s)
    BY <1>1, <1>2, <2>3 DEF SlotApart, SlotOnce, PendsOnce
  <2>4. CASE Comes(s)
    BY <1>1, <1>2, <2>4 DEF SlotApart, SlotOnce, ComesOnce
  <2>5. CASE Busy(s)
    BY <1>1, <1>2, <2>5 DEF SlotApart, SlotOnce, BusyOnce
  <2> QED BY <1>2, <2>1, <2>2, <2>3, <2>4, <2>5
<1>4. Carriers(s) # {} => Somewhere(s)
  BY <1>2 DEF Somewhere
<1>5. ASSUME Somewhere(s) PROVE \E p : p \in Carriers(s)
  <2>1. ASSUME NEW o \in posted, o.slot = s PROVE o.op # "SEND"
    BY RoundFacts DEF OpOK
  <2>2. CASE Waits(s)
    BY <1>1, <2>2 DEF Waits, Carriers
  <2>3. CASE Taken(s)
    BY <2>3 DEF Taken, Carriers
  <2>4. CASE Pends(s)
    BY <2>1, <2>4 DEF Pends, Carriers
  <2>5. CASE Comes(s)
    BY <1>1, <2>5 DEF Comes, Carriers
  <2>6. CASE Busy(s)
    BY <2>6 DEF Busy, Carries, Carriers
  <2> QED BY <1>5, <2>2, <2>3, <2>4, <2>5, <2>6 DEF Somewhere
<1> QED BY <1>3, <1>4, <1>5

NeverTwice == \A s \in Slots : Cardinality(Carriers(s)) <= 1

\* No slot is doubled on its way, however small the pool and though receives
\* fail: never do two accepters, operations or workers have the same slot.
THEOREM SlotsNeverDoubled == ASSUME ReceiveOnly PROVE Spec => []NeverTwice
<1>1. QInv => NeverTwice
  <2> SUFFICES ASSUME QInv, NEW s \in Slots PROVE Cardinality(Carriers(s)) <= 1
    BY DEF NeverTwice
  <2>1. CASE Carriers(s) = {}
    BY <2>1, FS_EmptySet
  <2>2. CASE Carriers(s) # {}
    <3>1. PICK p : Carriers(s) = {p}
      BY <2>2, OneCarrier
    <3>2. Cardinality(Carriers(s)) = 1
      BY <3>1, FS_Singleton
    <3> QED BY <3>2
  <2> QED BY <2>1, <2>2
<1> QED BY <1>1, RoundInvariance, PTL

\* A slot is on its way to its next accept, in one place and in one thread's
\* hands, unless ConnUserRecv failed for its client in a RECV branch; and that is
\* the only way in which one is lost (AcceptQueue, AccepterThread, WorkThread).
THEOREM SlotsGoRound == ASSUME ReceiveOnly PROVE Spec => []EachSlotOnce
<1>1. QInv => EachSlotOnce
  <2> SUFFICES ASSUME QInv, NEW s \in Slots
               PROVE  Cardinality(Carriers(s)) = IF s \in deaf THEN 0 ELSE 1
    BY DEF EachSlotOnce
  <2>1. s \in deaf <=> Carriers(s) = {}
    BY OneCarrier DEF QInv, Lost
  <2>2. CASE Carriers(s) = {}
    BY <2>1, <2>2, FS_EmptySet
  <2>3. CASE Carriers(s) # {}
    <3>1. PICK p : Carriers(s) = {p}
      BY <2>3, OneCarrier
    <3> QED BY <2>1, <2>3, <3>1, FS_Singleton
  <2> QED BY <2>2, <2>3
<1> QED BY <1>1, RoundInvariance, PTL

\* A connected client has a receive under way, or a worker about to post one or
\* to reset its slot, unless ConnUserRecv failed for it in a RECV branch; no
\* interleaving of workers leaves a client unheard in another way (ConnUserRecv).
THEOREM ClientsHeard == ASSUME ReceiveOnly PROVE Spec => []UnheardOnlyDeaf
<1>1. QInv => UnheardOnlyDeaf
  <2> SUFFICES ASSUME QInv, NEW s \in Slots, skt[s] # "fresh", s \notin deaf
               PROVE  \/ \E o \in posted : o.slot = s /\ o.op = "RECV"
                      \/ \E k \in DOMAIN iocp : iocp[k].slot = s
                      \/ \E w \in Workers :
                           /\ pc[w] \in {"recv", "wsarecv", "recvFailed", "disconnect", "reset"}
                           /\ job[w].user = s
    BY DEF UnheardOnlyDeaf
  <2>1. Somewhere(s) /\ DOMAIN iocp = 1..Len(iocp)
    BY RoundFacts DEF Types, QInv, Lost
  <2>2. ~Waits(s)
    BY DEF QInv, QueueOK, Waits
  <2>3. ~Taken(s)
    BY SlotsAssumption, RoundFacts DEF AccepterOK, Taken
  <2>4. CASE Pends(s)
    BY <2>4, RoundFacts DEF Pends, OpOK
  <2>5. CASE Comes(s)
    BY <2>1, <2>5 DEF Comes
  <2>6. CASE Busy(s)
    BY <2>6, RoundFacts DEF Busy, Carries, WorkerOK, JobOK
  <2> QED BY <2>1, <2>2, <2>3, <2>4, <2>5, <2>6 DEF Somewhere
<1> QED BY <1>1, RoundInvariance, PTL
=============================================================================

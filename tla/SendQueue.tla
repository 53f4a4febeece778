------------------------------ MODULE SendQueue ------------------------------
(***************************************************************************)
(* The send path of one ConnUser: PushSendMsg, run by the Redis threads     *)
(* that process the login requests of its client, SendComplete, run by the  *)
(* worker threads that dequeue the completions of its sends, and ProcSend,  *)
(* run by both.  sendQueue is lock-free and sendQueueSize is an atomic of   *)
(* its own: every access to either is a step, and the steps of all threads  *)
(* interleave.                                                              *)
(*                                                                          *)
(* A message is the position of its sendQueue.push among all of them; what  *)
(* it carries is not modelled.  A slot serves one client after another      *)
(* (sessions); Reset() gives it a new socket but keeps sendQueue and         *)
(* sendQueueSize.  That a session's end may be noticed twice is the subject *)
(* of Connections; here it is one step.                                     *)
(***************************************************************************)
EXTENDS Integers, Sequences, FiniteSets, SequencesExt

CONSTANTS Pushers,      \* Redis threads
          Workers,      \* IOCP worker threads
          Answers,      \* possible numbers of messages of a login's answer
          Pipelined,    \* may the client send a request before the last answer?
          MaxLogins,    \* bound: requests processed in all
          MaxSessions,  \* bound: clients served by the slot
          NoMsg

\* ProcessLogin pushes the response alone, or the response, the inventory and
\* the friend list.
Failure == 1
Success == 3

ASSUME ThreadsAssumption == /\ Pushers \cap Workers = {}
                            /\ IsFiniteSet(Pushers) /\ IsFiniteSet(Workers)
ASSUME AnswersAssumption == Answers \subseteq {Failure, Success}
ASSUME BoundsAssumption == /\ Pipelined \in BOOLEAN
                           /\ MaxLogins \in Nat /\ MaxSessions \in Nat \ {0}
                           /\ NoMsg \notin Nat

Threads == Pushers \cup Workers

SizeModulus == 65536    \* sendQueueSize is an std::atomic<uint16_t>

VARIABLES sendQueue,      \* messages in the lock-free queue, oldest first
          sendQueueSize,
          pc,             \* next step of each thread
          held,           \* message a thread popped and has not passed to WSASend
          todo,           \* messages a Redis thread has still to push
          session,        \* the client now served, 1, 2, ...
          connected,      \* is the slot's socket connected to that client?
          pending,        \* sends the socket accepted, not yet completed
          wire,           \* messages sent to the client of this session
          pushed,         \* history: for each message, the session it answers
          lost,           \* history: messages popped whose send has failed
          overtaken,      \* history: pairs of which the newer was sent to this session's
                          \* client while a thread had the older in hands
          logins          \* history: requests processed

vars == <<sendQueue, sendQueueSize, pc, held, todo, session, connected, pending,
          wire, pushed, lost, overtaken, logins>>

Init == /\ sendQueue = <<>>
        /\ sendQueueSize = 0
        /\ pc = [t \in Threads |-> "idle"]
        /\ held = [t \in Threads |-> NoMsg]
        /\ todo = [p \in Pushers |-> <<>>]
        /\ session = 1
        /\ connected = TRUE
        /\ pending = {}
        /\ wire = <<>>
        /\ pushed = <<>>
        /\ lost = {}
        /\ overtaken = {}
        /\ logins = 0

\* Where a thread goes when its PushSendMsg or SendComplete returns.
Return(t) == IF t \in Pushers /\ todo[t] # <<>> THEN "push" ELSE "idle"

-----------------------------------------------------------------------------
(* PushSendMsg.                                                             *)

\* The client has been sent the whole answers to its requests so far.
Answered == /\ \A p \in Pushers : session \notin Range(todo[p])
            /\ \A n \in DOMAIN pushed : pushed[n] = session => n \in Range(wire)

\* A Redis thread has processed a request of the client and answers it.
Login(p) ==
  /\ pc[p] = "idle" /\ connected
  /\ logins < MaxLogins /\ (Pipelined \/ Answered)
  /\ logins' = logins + 1
  /\ \E k \in Answers : todo' = [todo EXCEPT ![p] = [i \in 1..k |-> session]]
  /\ pc' = [pc EXCEPT ![p] = "push"]
  /\ UNCHANGED <<sendQueue, sendQueueSize, held, session, connected, pending, wire, pushed,
                 lost, overtaken>>

\* sendQueue.push
Push(p) ==
  /\ pc[p] = "push"
  /\ pushed' = Append(pushed, Head(todo[p]))
  /\ sendQueue' = Append(sendQueue, Len(pushed) + 1)
  /\ todo' = [todo EXCEPT ![p] = Tail(@)]
  /\ pc' = [pc EXCEPT ![p] = "add"]
  /\ UNCHANGED <<sendQueueSize, held, session, connected, pending, wire, lost, overtaken, logins>>

\* sendQueueSize.fetch_add(1)
Add(p) ==
  /\ pc[p] = "add"
  /\ sendQueueSize' = (sendQueueSize + 1) % SizeModulus
  /\ pc' = [pc EXCEPT ![p] = "load"]
  /\ UNCHANGED <<sendQueue, held, todo, session, connected, pending, wire, pushed, lost,
                 overtaken, logins>>

-----------------------------------------------------------------------------
(* SendComplete.                                                            *)

\* A worker dequeues the successful completion of a send.
Complete(w) ==
  /\ pc[w] = "idle"
  /\ \E m \in pending : pending' = pending \ {m}
  /\ pc' = [pc EXCEPT ![w] = "sub"]
  /\ UNCHANGED <<sendQueue, sendQueueSize, held, todo, session, connected, wire, pushed, lost,
                 overtaken, logins>>

\* Mutants: a counter wider than the code's; a decrement that stops at zero.
SubWide(w) ==
  /\ pc[w] = "sub"
  /\ sendQueueSize' = sendQueueSize - 1
  /\ pc' = [pc EXCEPT ![w] = "load"]
  /\ UNCHANGED <<sendQueue, held, todo, session, connected, pending, wire, pushed, lost,
                 overtaken, logins>>

SubToZero(w) ==
  /\ pc[w] = "sub"
  /\ sendQueueSize' = IF sendQueueSize = 0 THEN 0 ELSE sendQueueSize - 1
  /\ pc' = [pc EXCEPT ![w] = "load"]
  /\ UNCHANGED <<sendQueue, held, todo, session, connected, pending, wire, pushed, lost,
                 overtaken, logins>>

\* sendQueueSize.fetch_sub(1)
Sub(w) ==
  /\ pc[w] = "sub"
  /\ sendQueueSize' = (sendQueueSize - 1) % SizeModulus
  /\ pc' = [pc EXCEPT ![w] = "load"]
  /\ UNCHANGED <<sendQueue, held, todo, session, connected, pending, wire, pushed, lost,
                 overtaken, logins>>

-----------------------------------------------------------------------------
(* The end of both: if (sendQueueSize.load() == 1) ProcSend().              *)

\* Mutant: no ProcSend in SendComplete.
LoadOfPusher(t) ==
  /\ pc[t] = "load"
  /\ pc' = [pc EXCEPT ![t] = IF sendQueueSize = 1 /\ t \in Pushers THEN "pop" ELSE Return(t)]
  /\ UNCHANGED <<sendQueue, sendQueueSize, held, todo, session, connected, pending, wire,
                 pushed, lost, overtaken, logins>>

Load(t) ==
  /\ pc[t] = "load"
  /\ pc' = [pc EXCEPT ![t] = IF sendQueueSize = 1 THEN "pop" ELSE Return(t)]
  /\ UNCHANGED <<sendQueue, sendQueueSize, held, todo, session, connected, pending, wire,
                 pushed, lost, overtaken, logins>>

\* Messages popped and not yet passed to WSASend.
InHands == {m \in Range(held) : m # NoMsg}

\* Mutants: the message is read and not popped; the newest message is popped.
Peek(t) ==
  /\ pc[t] = "pop"
  /\ IF sendQueue = <<>>
     THEN pc' = [pc EXCEPT ![t] = Return(t)] /\ UNCHANGED held
     ELSE held' = [held EXCEPT ![t] = Head(sendQueue)] /\ pc' = [pc EXCEPT ![t] = "send"]
  /\ UNCHANGED <<sendQueue, sendQueueSize, todo, session, connected, pending, wire, pushed,
                 lost, overtaken, logins>>

PopNewest(t) ==
  /\ pc[t] = "pop"
  /\ IF sendQueue = <<>>
     THEN /\ pc' = [pc EXCEPT ![t] = Return(t)]
          /\ UNCHANGED <<sendQueue, held>>
     ELSE /\ held' = [held EXCEPT ![t] = Last(sendQueue)]
          /\ sendQueue' = Front(sendQueue)
          /\ pc' = [pc EXCEPT ![t] = "send"]
  /\ UNCHANGED <<sendQueueSize, todo, session, connected, pending, wire, pushed, lost,
                 overtaken, logins>>

Pop(t) ==
  /\ pc[t] = "pop"
  /\ IF sendQueue = <<>>
     THEN /\ pc' = [pc EXCEPT ![t] = Return(t)]
          /\ UNCHANGED <<sendQueue, held>>
     ELSE /\ held' = [held EXCEPT ![t] = Head(sendQueue)]
          /\ sendQueue' = Tail(sendQueue)
          /\ pc' = [pc EXCEPT ![t] = "send"]
  /\ UNCHANGED <<sendQueueSize, todo, session, connected, pending, wire, pushed, lost,
                 overtaken, logins>>

\* WSASend on the socket the slot has now.  Its result is ignored: without a
\* connection the message is gone and no completion will come.
WSASend(t) ==
  /\ pc[t] = "send"
  /\ IF connected
     THEN /\ wire' = Append(wire, held[t])
          /\ pending' = pending \cup {held[t]}
          /\ overtaken' = overtaken \cup {{held[t], m} : m \in {k \in InHands : k < held[t]}}
          /\ UNCHANGED lost
     ELSE lost' = lost \cup {held[t]} /\ UNCHANGED <<wire, pending, overtaken>>
  /\ held' = [held EXCEPT ![t] = NoMsg]
  /\ pc' = [pc EXCEPT ![t] = Return(t)]
  /\ UNCHANGED <<sendQueue, sendQueueSize, todo, session, connected, pushed, logins>>

-----------------------------------------------------------------------------
(* The slot's clients.                                                      *)

\* The client disconnects and a worker runs Reset().  A send that is not done
\* completes with an error, which takes the "User Disconnected" branch of
\* WorkThread: SendComplete is not called for it.
Reset ==
  /\ connected /\ session < MaxSessions
  /\ connected' = FALSE
  /\ \E failed \in SUBSET pending :
       pending' = pending \ failed /\ lost' = lost \cup failed
  /\ UNCHANGED <<sendQueue, sendQueueSize, pc, held, todo, session, wire, pushed, overtaken,
                 logins>>

\* AcceptEx completes: the slot serves another client.
Accept ==
  /\ ~connected
  /\ connected' = TRUE
  /\ session' = session + 1
  /\ wire' = <<>> /\ overtaken' = {}
  /\ UNCHANGED <<sendQueue, sendQueueSize, pc, held, todo, pending, pushed, lost, logins>>

PushStep(p) == Push(p) \/ Add(p)
CompleteStep(w) == Complete(w) \/ Sub(w)
SendStep(t) == Load(t) \/ Pop(t) \/ WSASend(t)

Next == \/ \E p \in Pushers : Login(p) \/ PushStep(p)
        \/ \E w \in Workers : CompleteStep(w)
        \/ \E t \in Threads : SendStep(t)
        \/ Reset \/ Accept

Spec == Init /\ [][Next]_vars

\* Threads inside a call run on, and a completion is dequeued in the end: some
\* worker is waiting in GetQueuedCompletionStatus and the peer acknowledges.
\* Requests, disconnects and new clients are up to the environment.
Fairness == /\ \A p \in Pushers : WF_vars(PushStep(p) \/ SendStep(p))
            /\ \A w \in Workers : WF_vars(Sub(w) \/ SendStep(w))
            /\ WF_vars(\E w \in Workers : Complete(w))

FairSpec == Spec /\ Fairness

-----------------------------------------------------------------------------
(* Properties.                                                              *)

Messages == DOMAIN pushed

TypeOK == /\ sendQueue \in Seq(Messages)
          /\ sendQueueSize \in 0..(SizeModulus - 1)
          /\ pc \in [Threads -> {"idle", "push", "add", "sub", "load", "pop", "send"}]
          /\ held \in [Threads -> Messages \cup {NoMsg}]
          /\ todo \in [Pushers -> Seq(1..session)]
          /\ session \in 1..MaxSessions
          /\ connected \in BOOLEAN
          /\ pending \subseteq Messages
          /\ wire \in Seq(Messages)
          /\ pushed \in Seq(1..session)
          /\ lost \subseteq Messages
          /\ overtaken \subseteq SUBSET Messages
          /\ logins \in 0..MaxLogins

At(l) == {t \in Threads : pc[t] = l}

\* sendQueueSize counts the messages whose send has not completed, those whose
\* send failed included for ever, up to the threads between a change of the
\* queue and the change of the counter, and modulo its width (it may wrap below
\* zero for a moment): no update is lost, whatever the threads do.
SizeCounts ==
  (sendQueueSize + Cardinality(At("add"))
     - Len(sendQueue) - Cardinality(At("send")) - Cardinality(pending)
     - Cardinality(lost) - Cardinality(At("sub"))) % SizeModulus = 0

\* How many messages have been popped.
Popped == Len(pushed) - Len(sendQueue)

\* A message is in one place: it waits in the queue behind the older ones, is
\* in the hands of one thread, is being sent, or is lost.  Two threads in
\* ProcSend never send the same message, and a message completes once.
OnePlace ==
  /\ \A i \in DOMAIN sendQueue : sendQueue[i] = Popped + i
  /\ \A t \in Threads : held[t] # NoMsg =>
       held[t] \in (1..Popped) \ (pending \cup lost) /\ \A u \in Threads \ {t} : held[u] # held[t]
  /\ pending \cup lost \subseteq 1..Popped
  /\ pending \cap lost = {}

\* ProcSend calls WSASend after its pop, with no lock.  A message gets ahead of
\* an older one on the wire only if it is sent while another thread has the older
\* one between its pop and its WSASend: it never passes one that is queued.  None
\* is skipped: what was pushed for the client of this session is in the queue, in
\* a thread's hands, or was sent.
InOrder ==
  /\ \A i, j \in DOMAIN wire : i < j /\ wire[i] > wire[j] => {wire[i], wire[j]} \in overtaken
  /\ \A n \in 1..Popped : connected /\ pushed[n] = session => n \in Range(wire) \cup InHands

\* The client of this session has not been sent message n, pushed for it.
Owed(n) == connected /\ n \in Messages \ Range(wire) /\ pushed[n] = session

\* A message pushed for a client is sent to it while the client stays:
\* "loginRes + inventoryRes + friendRes are sent in sequence on success"
\* (development-note.md:222), "only loginRes is sent on failure" (:223).
AllSent == \A n \in 1..(Success * MaxLogins) : []<>~Owed(n)
=============================================================================

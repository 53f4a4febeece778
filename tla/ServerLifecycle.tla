--------------------------- MODULE ServerLifecycle ---------------------------
(***************************************************************************)
(* Start-up and shutdown: main(), init(), StartWork() and ServerEnd() on    *)
(* the main thread, the worker and accepter threads it starts and joins,    *)
(* and, of the singletons that are destroyed after main(), RedisManager     *)
(* with its threads.  Clients connect and leave meanwhile; what workers do  *)
(* for them otherwise is in Connections, what Redis threads do in           *)
(* ReceiveQueue.  RedisManager::Init has no caller: it is taken to be       *)
(* called where init() connects to Redis.                                   *)
(***************************************************************************)
EXTENDS Naturals, Sequences, FiniteSets

CONSTANTS Workers, Accepters, RedisThreads,
          maxClientCount,
          Skipped,        \* numbers StartWork leaves out (11)
          InitMayFail,    \* can a call of init() fail?
          ThreadsMayFail, \* can the start of a thread throw?
          Null            \* the completion ServerEnd posts

Numbers == 0..maxClientCount - 1

ASSUME CountsAssumption == /\ maxClientCount \in Nat /\ Skipped \subseteq Nat
                           /\ Null \notin Numbers \X {"ACCEPT", "RECV"}
ASSUME FlagsAssumption == {InitMayFail, ThreadsMayFail} \subseteq BOOLEAN
ASSUME ThreadsAssumption == /\ Workers \cap Accepters = {} /\ Workers \cap RedisThreads = {}
                            /\ Accepters \cap RedisThreads = {}
                            /\ IsFiniteSet(Workers) /\ IsFiniteSet(Accepters)

VARIABLES mainPc,      \* next step of the main thread
          i,           \* its loop variable in StartWork
          port,        \* sIOCPHandle
          bound,       \* is serverSkt associated with the port?
          workThreads, \* threads in the vector: accepters too
          WorkRun, AccepterRun, redisRun,
          connUsersManager, \* does it exist?
          ConnUsers,   \* slots inserted
          AcceptQueue, \* slots waiting for an accepter
          pc,          \* next step of each thread
          work,        \* completion a worker or slot an accepter works on
          listening,   \* slots with an accept pending
          connected,   \* slots with a client
          iocp,        \* the completion queue
          ended        \* "no", or why the process ended before its time

vars == <<mainPc, i, port, bound, workThreads, WorkRun, AccepterRun, redisRun, connUsersManager,
          ConnUsers, AcceptQueue, pc, work, listening, connected, iocp, ended>>

Threads == Workers \cup Accepters \cup RedisThreads

Init == /\ mainPc = "init" /\ i = 0
        /\ port = "invalid" /\ bound = FALSE
        /\ workThreads = {}
        /\ WorkRun = FALSE /\ AccepterRun = FALSE /\ redisRun = FALSE
        /\ connUsersManager = FALSE /\ ConnUsers = {} /\ AcceptQueue = <<>>
        /\ pc = [t \in Threads |-> "none"]
        /\ work = [t \in Threads |-> Null]
        /\ listening = {} /\ connected = {} /\ iocp = <<>>
        /\ ended = "no"

Goto(t, l) == pc' = [pc EXCEPT ![t] = l]
users == <<connUsersManager, ConnUsers>>
traffic == <<AcceptQueue, work, listening, connected, iocp>>
flags == <<WorkRun, AccepterRun, redisRun>>

-----------------------------------------------------------------------------
(* main(): init().  Its result is ignored.                                  *)

\* WSAStartup to listen, the completion port, its association with the server
\* socket; then Redis, without which the process ends by an exception.
InitServer ==
  /\ mainPc = "init"
  /\ \/ /\ port' = "open" /\ bound' = TRUE
        /\ mainPc' = "RedisRun"
        /\ UNCHANGED ended
     \/ /\ InitMayFail
        /\ \/ UNCHANGED <<port, ended>> /\ mainPc' = "CreateWorkThread"
           \/ port' = "open" /\ mainPc' = "CreateWorkThread" /\ UNCHANGED ended
           \/ port' = "open" /\ ended' = "noRedis" /\ UNCHANGED mainPc
        /\ UNCHANGED bound
  /\ UNCHANGED <<i, workThreads, flags, users, traffic, pc>>

\* RedisRun and CreateRedisThread: an exception leaves the threads begun so far.
RedisRun ==
  /\ mainPc = "RedisRun"
  /\ redisRun' = TRUE
  /\ \E begun \in SUBSET RedisThreads :
       /\ begun # RedisThreads => ThreadsMayFail
       /\ pc' = [t \in Threads |-> IF t \in begun THEN "test" ELSE pc[t]]
  /\ mainPc' = "CreateWorkThread"
  /\ UNCHANGED <<i, port, bound, workThreads, WorkRun, AccepterRun, users, traffic, ended>>

-----------------------------------------------------------------------------
(* main(): StartWork().  If a thread does not start it returns, and main()  *)
(* waits for the end all the same.                                          *)

\* Starts the threads of one kind, into workThreads.  (One step for all: until
\* the first slot is pushed there is nothing for those begun first to do.)
Create(kind, next) ==
  \E begun \in SUBSET kind :
    /\ begun # kind => ThreadsMayFail
    /\ workThreads' = workThreads \cup begun
    /\ pc' = [t \in Threads |-> IF t \in begun THEN "test" ELSE pc[t]]
    /\ mainPc' = IF begun = kind THEN next ELSE "wait"

CreateWorkThread ==
  /\ mainPc = "CreateWorkThread"
  /\ WorkRun' = TRUE
  /\ Create(Workers, "CreateAccepterThread")
  /\ UNCHANGED <<i, port, bound, AccepterRun, redisRun, users, traffic, ended>>

CreateAccepterThread ==
  /\ mainPc = "CreateAccepterThread"
  /\ AccepterRun' = TRUE
  /\ Create(Accepters, "ConnUsersManager")
  /\ UNCHANGED <<i, port, bound, WorkRun, redisRun, users, traffic, ended>>

NewConnUsersManager ==
  /\ mainPc = "ConnUsersManager"
  /\ connUsersManager' = TRUE
  /\ mainPc' = "loop"
  /\ UNCHANGED <<i, port, bound, workThreads, flags, ConnUsers, traffic, pc, ended>>

\* Mutant: a skipped number is pushed and not inserted.
PushAll ==
  /\ mainPc = "loop"
  /\ IF i = maxClientCount THEN mainPc' = "wait" /\ UNCHANGED <<i, AcceptQueue>>
     ELSE /\ AcceptQueue' = Append(AcceptQueue, i)
          /\ IF i \in Skipped THEN i' = i + 1 /\ UNCHANGED mainPc
             ELSE mainPc' = "insert" /\ UNCHANGED i
  /\ UNCHANGED <<port, bound, workThreads, flags, users, work, listening, connected, iocp, pc,
                 ended>>

\* new ConnUser and AcceptQueue.push.
PushUser ==
  /\ mainPc = "loop"
  /\ IF i = maxClientCount THEN mainPc' = "wait" /\ UNCHANGED <<i, AcceptQueue>>
     ELSE IF i \in Skipped THEN i' = i + 1 /\ UNCHANGED <<mainPc, AcceptQueue>>
     ELSE AcceptQueue' = Append(AcceptQueue, i) /\ mainPc' = "insert" /\ UNCHANGED i
  /\ UNCHANGED <<port, bound, workThreads, flags, users, work, listening, connected, iocp, pc,
                 ended>>

\* Mutant: a number too far.
InsertNext ==
  /\ mainPc = "insert"
  /\ ConnUsers' = ConnUsers \cup {i + 1}
  /\ i' = i + 1 /\ mainPc' = "loop"
  /\ UNCHANGED <<port, bound, workThreads, flags, connUsersManager, traffic, pc, ended>>

InsertUser ==
  /\ mainPc = "insert"
  /\ ConnUsers' = ConnUsers \cup {i}
  /\ i' = i + 1 /\ mainPc' = "loop"
  /\ UNCHANGED <<port, bound, workThreads, flags, connUsersManager, traffic, pc, ended>>

-----------------------------------------------------------------------------
(* main(): ServerEnd(), once "Login" is typed, and the end of the process.  *)

Typed == /\ mainPc = "wait" /\ mainPc' = "end"
         /\ UNCHANGED <<i, port, bound, workThreads, flags, users, traffic, pc, ended>>

\* Mutant: one null completion.
EndOne ==
  /\ mainPc = "end"
  /\ WorkRun' = FALSE /\ AccepterRun' = FALSE
  /\ iocp' = IF port = "open" THEN Append(iocp, Null) ELSE iocp
  /\ mainPc' = "join"
  /\ UNCHANGED <<i, port, bound, workThreads, redisRun, users, AcceptQueue, work, listening,
                 connected, pc, ended>>

\* Both flags, and a null completion for each thread of the vector.
End ==
  /\ mainPc = "end"
  /\ WorkRun' = FALSE /\ AccepterRun' = FALSE
  /\ iocp' = IF port = "open" THEN iocp \o [n \in 1..Cardinality(workThreads) |-> Null] ELSE iocp
  /\ mainPc' = "join"
  /\ UNCHANGED <<i, port, bound, workThreads, redisRun, users, AcceptQueue, work, listening,
                 connected, pc, ended>>

\* Mutant: the first MaxThreadCnt threads are joined.
JoinWorkers ==
  /\ mainPc = "join" /\ \A t \in workThreads \cap Workers : pc[t] = "done"
  /\ port' = "closed"
  /\ mainPc' = "redisEnd"
  /\ UNCHANGED <<i, bound, workThreads, flags, users, traffic, pc, ended>>

\* Joins all, then closes the port and the socket.
JoinAndClose ==
  /\ mainPc = "join" /\ \A t \in workThreads : pc[t] = "done"
  /\ port' = "closed"
  /\ mainPc' = "redisEnd"
  /\ UNCHANGED <<i, bound, workThreads, flags, users, traffic, pc, ended>>

\* ~RedisManager.
RedisEnd ==
  /\ mainPc = "redisEnd"
  /\ redisRun' = FALSE
  /\ mainPc' = "redisJoin"
  /\ UNCHANGED <<i, port, bound, workThreads, WorkRun, AccepterRun, users, traffic, pc, ended>>

RedisJoin ==
  /\ mainPc = "redisJoin" /\ \A t \in RedisThreads : pc[t] \in {"none", "done"}
  /\ mainPc' = "exit"
  /\ UNCHANGED <<i, port, bound, workThreads, flags, users, traffic, pc, ended>>

Main == InitServer \/ RedisRun \/ CreateWorkThread \/ CreateAccepterThread \/ NewConnUsersManager
          \/ PushUser \/ InsertUser \/ End \/ JoinAndClose \/ RedisEnd \/ RedisJoin

-----------------------------------------------------------------------------
(* The threads.                                                             *)

\* while (WorkRun), while (AccepterRun), while (redisRun).
Test(t) ==
  /\ pc[t] = "test"
  /\ LET run == IF t \in Workers THEN WorkRun ELSE IF t \in Accepters THEN AccepterRun ELSE redisRun
     IN Goto(t, IF run THEN "take" ELSE "done")
  /\ UNCHANGED <<mainPc, i, port, bound, workThreads, flags, users, traffic, ended>>

\* Mutant: any completion of zero bytes ends the loop.
DequeueZero(w) ==
  /\ pc[w] = "take" /\ iocp # <<>> /\ port = "open"
  /\ iocp' = Tail(iocp)
  /\ IF Head(iocp) = Null \/ Head(iocp)[2] = "RECV"
     THEN WorkRun' = FALSE /\ Goto(w, "test") /\ UNCHANGED <<work, ended>>
     ELSE /\ work' = [work EXCEPT ![w] = Head(iocp)] /\ Goto(w, "find")
          /\ UNCHANGED <<WorkRun, ended>>
  /\ UNCHANGED <<mainPc, i, port, bound, workThreads, AccepterRun, redisRun, users, AcceptQueue,
                 listening, connected>>

\* GetQueuedCompletionStatus.  Without a port it fails and leaves lpOverlapped
\* null, which is not the null completion and is dereferenced.
Dequeue(w) ==
  /\ pc[w] = "take"
  /\ \/ /\ port = "open" /\ iocp # <<>>
        /\ iocp' = Tail(iocp)
        /\ IF Head(iocp) = Null
           THEN WorkRun' = FALSE /\ Goto(w, "test") /\ UNCHANGED work
           ELSE /\ work' = [work EXCEPT ![w] = Head(iocp)] /\ Goto(w, "find")
                /\ UNCHANGED WorkRun
        /\ UNCHANGED ended
     \/ /\ port # "open"
        /\ ended' = "noPort"
        /\ UNCHANGED <<pc, work, iocp, WorkRun>>
  /\ UNCHANGED <<mainPc, i, port, bound, workThreads, AccepterRun, redisRun, users, AcceptQueue,
                 listening, connected>>

\* FindUser, and the branch of the completion: a client that connected is heard,
\* the slot of one that left is reset and pushed.
Handle(w) ==
  LET s == work[w][1] IN
  /\ pc[w] = "find"
  /\ IF ~connUsersManager THEN ended' = "noManager" /\ UNCHANGED <<connected, AcceptQueue>>
     ELSE IF s \notin ConnUsers THEN ended' = "noUser" /\ UNCHANGED <<connected, AcceptQueue>>
     ELSE /\ IF work[w][2] = "ACCEPT"
             THEN connected' = connected \cup {s} /\ UNCHANGED AcceptQueue
             ELSE AcceptQueue' = Append(AcceptQueue, s) /\ UNCHANGED connected
          /\ UNCHANGED ended
  /\ work' = [work EXCEPT ![w] = Null]
  /\ Goto(w, "test")
  /\ UNCHANGED <<mainPc, i, port, bound, workThreads, flags, users, listening, iocp>>

\* AccepterThread: pop and PostAccept, or sleep.
Accept(a) ==
  /\ pc[a] = "take"
  /\ IF AcceptQueue = <<>> THEN UNCHANGED <<AcceptQueue, listening>>
     ELSE /\ AcceptQueue' = Tail(AcceptQueue)
          /\ listening' = listening \cup {Head(AcceptQueue)}
  /\ Goto(a, "test")
  /\ UNCHANGED <<mainPc, i, port, bound, workThreads, flags, users, work, connected, iocp, ended>>

\* RedisThread: a packet, or sleep.  For a login it may have to wait for a MySQL
\* permit, for good if those that are out were leaked.
Serve(t) ==
  /\ pc[t] = "take" /\ (Goto(t, "test") \/ Goto(t, "acquire"))
  /\ UNCHANGED <<mainPc, i, port, bound, workThreads, flags, users, traffic, ended>>

PermitReturned(t) ==
  /\ pc[t] = "acquire" /\ Goto(t, "test")
  /\ UNCHANGED <<mainPc, i, port, bound, workThreads, flags, users, traffic, ended>>

Step(t) == /\ ended = "no"
           /\ \/ Test(t)
              \/ t \in Workers /\ (Dequeue(t) \/ Handle(t))
              \/ t \in Accepters /\ Accept(t)
              \/ t \in RedisThreads /\ Serve(t)

\* A client connects (the accept completes on the port of the server socket) or
\* leaves.
Client ==
  /\ port = "open"
  /\ \/ \E s \in listening : /\ bound
                             /\ listening' = listening \ {s}
                             /\ iocp' = Append(iocp, <<s, "ACCEPT">>)
                             /\ UNCHANGED connected
     \/ \E s \in connected : /\ connected' = connected \ {s}
                             /\ iocp' = Append(iocp, <<s, "RECV">>)
                             /\ UNCHANGED listening
  /\ UNCHANGED <<mainPc, i, port, bound, workThreads, flags, users, AcceptQueue, work, pc, ended>>

Next == \/ ended = "no" /\ (Main \/ Typed \/ Client \/ \E t \in RedisThreads : PermitReturned(t))
        \/ \E t \in Threads : Step(t)

Spec == Init /\ [][Next]_vars

\* The main thread and the others run; nobody need type or connect, and a permit
\* need not come back.
Fairness == WF_vars(ended = "no" /\ Main) /\ \A t \in Threads : WF_vars(Step(t))

FairSpec == Spec /\ Fairness

-----------------------------------------------------------------------------
(* Properties.                                                              *)

TypeOK == /\ mainPc \in {"init", "RedisRun", "CreateWorkThread", "CreateAccepterThread",
                         "ConnUsersManager", "loop", "insert", "wait", "end", "join", "redisEnd",
                         "redisJoin", "exit"}
          /\ i \in 0..maxClientCount
          /\ port \in {"invalid", "open", "closed"}
          /\ workThreads \subseteq Workers \cup Accepters
          /\ {bound, WorkRun, AccepterRun, redisRun, connUsersManager} \subseteq BOOLEAN
          /\ ConnUsers \subseteq Numbers \ Skipped
          /\ AcceptQueue \in Seq(Numbers)
          /\ pc \in [Threads -> {"none", "test", "take", "find", "acquire", "done"}]
          /\ work \in [Threads -> {Null} \cup Numbers \X {"ACCEPT", "RECV"}]
          /\ listening \subseteq Numbers /\ connected \subseteq Numbers
          /\ iocp \in Seq({Null} \cup Numbers \X {"ACCEPT", "RECV"})
          /\ ended \in {"no", "noRedis", "noPort", "noManager", "noUser"}

\* Threads run before their data exist, and yet the only user a worker looks up
\* in vain is the one StartWork has pushed and is about to insert; if init()
\* has opened the port nothing else ends the process (StartWork, WorkThread).
OnlyStartUpEnds ==
  /\ ended # "noManager"
  /\ ended = "noUser" => mainPc = "insert"
  /\ ended = "noPort" => port = "invalid"

\* The port and the server socket are closed when no worker or accepter is left to
\* use them (ServerEnd joins the accepters too: they are in workThreads).  The
\* Redis threads still run then.
ClosedLast == port = "closed" => \A t \in Workers \cup Accepters : pc[t] \in {"none", "done"}

\* What ends a worker's loop is ServerEnd: no client's connecting or leaving,
\* both completions of zero bytes, is taken for the null completion.
RunsUntilEnd ==
  mainPc \in {"CreateAccepterThread", "ConnUsersManager", "loop", "insert", "wait"} => WorkRun

\* ServerEnd is never held up: every worker is woken, however the completions of
\* clients lie between the null ones.  The end of the process is held up only in
\* ~RedisManager, by a Redis thread that waits for a permit nobody returns.
EndReached ==
  (mainPc = "end") ~>
    \/ mainPc = "exit" \/ ended # "no"
    \/ [](mainPc = "redisJoin" /\ \E t \in RedisThreads : pc[t] = "acquire")
=============================================================================

------------------------------ MODULE MySQLPool ------------------------------
(***************************************************************************)
(* MySQLManager: a counting semaphore of dbConnectionCount permits, a queue *)
(* dbPool of idle MYSQL* connections guarded by dbPoolMutex, and the six    *)
(* query functions, which all start with semaphore.acquire(),               *)
(* GetConnection() and an AutoConn guard.                                   *)
(*                                                                          *)
(* The permits are meant to count the connections.  They do only if init()  *)
(* established every connection: init() stops at the first failure, its     *)
(* result is ignored by OutGameLoginServer::init(), and a query function    *)
(* that finds dbPool empty returns before the AutoConn exists.              *)
(***************************************************************************)
EXTENDS Naturals, Sequences, FiniteSets

CONSTANTS Threads,         \* the Redis threads, which run the query functions
          Conns,           \* the connections init() asks for (dbConnectionCount)
          ConnectMayFail,  \* can mysql_real_connect fail in init()?
          NoConn, NoThread, Closed

ASSUME ThreadsAssumption == /\ IsFiniteSet(Threads)
                            /\ NoThread \notin Threads
                            /\ Closed \notin Threads /\ Closed # NoThread
ASSUME ConnsAssumption == IsFiniteSet(Conns) /\ NoConn \notin Conns
ASSUME FailAssumption == ConnectMayFail \in BOOLEAN

dbConnectionCount == Cardinality(Conns)

VARIABLES initDone,     \* init() has returned, with true or with false
          connected,    \* connections established by init()
          dbPool,       \* the queue of idle connections
          dbPoolMutex,  \* the thread that holds the mutex, or NoThread
          semaphore,    \* permits left
          pc,           \* where each thread is in a query function
          conn,         \* tempConn of the thread's AutoConn, or NoConn
          refused       \* history: calls answered "dbPool is empty"

vars == <<initDone, connected, dbPool, dbPoolMutex, semaphore, pc, conn, refused>>

Init == /\ initDone = FALSE
        /\ connected = {}
        /\ dbPool = <<>>
        /\ dbPoolMutex = NoThread
        /\ semaphore = dbConnectionCount
        /\ pc = [t \in Threads |-> "idle"]
        /\ conn = [t \in Threads |-> NoConn]
        /\ refused = 0

-----------------------------------------------------------------------------
(* init(), on the main thread, before any packet can reach a Redis thread.  *)

InitConnect(c) ==
  /\ ~initDone /\ c \notin connected
  /\ connected' = connected \cup {c}
  /\ dbPool' = Append(dbPool, c)
  /\ UNCHANGED <<initDone, dbPoolMutex, semaphore, pc, conn, refused>>

\* The loop ends, or mysql_init / mysql_real_connect fails and init() returns
\* false; OutGameLoginServer::init() goes on in both cases.
InitReturn ==
  /\ ~initDone /\ (connected = Conns \/ ConnectMayFail)
  /\ initDone' = TRUE
  /\ UNCHANGED <<connected, dbPool, dbPoolMutex, semaphore, pc, conn, refused>>

-----------------------------------------------------------------------------
(* A query function, on a Redis thread.                                     *)

Call(t) ==
  /\ initDone /\ pc[t] = "idle"
  /\ pc' = [pc EXCEPT ![t] = "acquire"]
  /\ UNCHANGED <<initDone, connected, dbPool, dbPoolMutex, semaphore, conn, refused>>

\* Mutant: the permit is taken without waiting for one.
AcquireAtOnce(t) ==
  /\ pc[t] = "acquire"
  /\ semaphore' = IF semaphore > 0 THEN semaphore - 1 ELSE 0
  /\ pc' = [pc EXCEPT ![t] = "get"]
  /\ UNCHANGED <<initDone, connected, dbPool, dbPoolMutex, conn, refused>>

Acquire(t) ==
  /\ pc[t] = "acquire" /\ semaphore > 0
  /\ semaphore' = semaphore - 1
  /\ pc' = [pc EXCEPT ![t] = "get"]
  /\ UNCHANGED <<initDone, connected, dbPool, dbPoolMutex, conn, refused>>

\* Mutant: front() without pop().
GetFront(t) ==
  /\ pc[t] = "get" /\ dbPoolMutex = NoThread
  /\ dbPool # <<>>
  /\ conn' = [conn EXCEPT ![t] = Head(dbPool)]
  /\ pc' = [pc EXCEPT ![t] = "query"]
  /\ UNCHANGED <<initDone, connected, dbPool, dbPoolMutex, semaphore, refused>>

\* One critical section of dbPoolMutex: look at dbPool and pop its front.
GetConnection(t) ==
  /\ pc[t] = "get" /\ dbPoolMutex = NoThread
  /\ dbPool # <<>>
  /\ conn' = [conn EXCEPT ![t] = Head(dbPool)]
  /\ dbPool' = Tail(dbPool)
  /\ pc' = [pc EXCEPT ![t] = "query"]
  /\ UNCHANGED <<initDone, connected, dbPoolMutex, semaphore, refused>>

\* GetConnection returned nullptr: the function returns nullopt at once, and
\* no AutoConn exists that would release the permit.
GetNothing(t) ==
  /\ pc[t] = "get" /\ dbPoolMutex = NoThread
  /\ dbPool = <<>>
  /\ pc' = [pc EXCEPT ![t] = "idle"]
  /\ refused' = refused + 1
  /\ UNCHANGED <<initDone, connected, dbPool, dbPoolMutex, semaphore, conn>>

\* Mutants: a connection is not pushed back; its permit is released by the
\* function as well as by the guard.
ReturnNothing(t) ==
  /\ pc[t] = "query" /\ dbPoolMutex = NoThread
  /\ dbPoolMutex' = t
  /\ conn' = [conn EXCEPT ![t] = NoConn]
  /\ pc' = [pc EXCEPT ![t] = "release"]
  /\ UNCHANGED <<initDone, connected, dbPool, semaphore, refused>>

ReturnAndRelease(t) ==
  /\ pc[t] = "query" /\ dbPoolMutex = NoThread
  /\ dbPoolMutex' = t
  /\ dbPool' = Append(dbPool, conn[t])
  /\ conn' = [conn EXCEPT ![t] = NoConn]
  /\ semaphore' = semaphore + 1
  /\ pc' = [pc EXCEPT ![t] = "release"]
  /\ UNCHANGED <<initDone, connected, refused>>

\* ~AutoConn, at every return of the function body: lock and push ...
ReturnConnection(t) ==
  /\ pc[t] = "query" /\ dbPoolMutex = NoThread
  /\ dbPoolMutex' = t
  /\ dbPool' = Append(dbPool, conn[t])
  /\ conn' = [conn EXCEPT ![t] = NoConn]
  /\ pc' = [pc EXCEPT ![t] = "release"]
  /\ UNCHANGED <<initDone, connected, semaphore, refused>>

\* Mutant: no release().
KeepPermit(t) ==
  /\ pc[t] = "release"
  /\ dbPoolMutex' = NoThread
  /\ pc' = [pc EXCEPT ![t] = "idle"]
  /\ UNCHANGED <<initDone, connected, dbPool, semaphore, conn, refused>>

\* ... then release the permit, still holding the lock, and unlock.
ReleasePermit(t) ==
  /\ pc[t] = "release"
  /\ semaphore' = semaphore + 1
  /\ dbPoolMutex' = NoThread
  /\ pc' = [pc EXCEPT ![t] = "idle"]
  /\ UNCHANGED <<initDone, connected, dbPool, conn, refused>>

InCall(t) == Acquire(t) \/ GetConnection(t) \/ GetNothing(t)
               \/ ReturnConnection(t) \/ ReleasePermit(t)

Next == \/ \E c \in Conns : InitConnect(c)
        \/ InitReturn
        \/ \E t \in Threads : Call(t) \/ InCall(t)

Spec == Init /\ [][Next]_vars

\* A thread inside a query function keeps running: queries return (the client
\* library reports an error in the worst case) and critical sections end.
\* Whether a thread makes another call is up to the clients, and neither the
\* semaphore nor the mutex is fair: weak fairness only.
Fairness == \A t \in Threads : WF_vars(InCall(t))

FairSpec == Spec /\ Fairness

-----------------------------------------------------------------------------
(* Properties.                                                              *)

TypeOK == /\ initDone \in BOOLEAN
          /\ connected \in SUBSET Conns
          /\ dbPool \in Seq(Conns)
          /\ dbPoolMutex \in Threads \cup {NoThread}
          /\ semaphore \in 0..dbConnectionCount
          /\ pc \in [Threads -> {"idle", "acquire", "get", "query", "release"}]
          /\ conn \in [Threads -> Conns \cup {NoConn}]
          /\ refused \in 0..dbConnectionCount

PermitHolders == {t \in Threads : pc[t] \in {"get", "query", "release"}}
Users == {t \in Threads : pc[t] = "query"}

\* The queries of a MYSQL* are never run by two threads at once: a connection
\* has one user, or one place in dbPool, never both or twice (GetConnection,
\* ~AutoConn).
ExclusiveConnection ==
  /\ \A t, u \in Users : t # u => conn[t] # conn[u]
  /\ \A t \in Users : \A i \in 1..Len(dbPool) : dbPool[i] # conn[t]
  /\ \A i, j \in 1..Len(dbPool) : i # j => dbPool[i] # dbPool[j]

\* No connection init() established is ever lost: it is in dbPool or with a
\* thread that is running a query.
NoConnectionLost ==
  Len(dbPool) + Cardinality(Users) = Cardinality(connected)

\* If init() established every connection, a thread with a permit finds
\* dbPool non-empty: the "dbPool is empty" branches are dead code.
NoRefusal ==
  (initDone /\ connected = Conns) => refused = 0 /\ \A t \in Threads : pc[t] = "get" => dbPool # <<>>

\* Every permit is free, held by a running call, or was leaked by a refused
\* call; so at most dbConnectionCount calls are ever refused.  (By the comment at
\* DBConfig.h:22 permits are returned automatically: `refused' should not count.)
PermitAccounting ==
  semaphore + Cardinality(PermitHolders) + refused = dbConnectionCount

\* When all permits are taken, one is given back in the end: no call, whatever
\* its queries answer, keeps its permit.
PermitsFlow == (semaphore = 0 /\ connected = Conns) ~> (semaphore > 0)

-----------------------------------------------------------------------------
(* The refinement of ConnectionPool.                                        *)

Owner == [c \in Conns |->
            IF c \notin connected THEN Closed
            ELSE IF \E t \in Users : conn[t] = c
                 THEN CHOOSE t \in Users : conn[t] = c
                 ELSE NoThread]

Abstract == INSTANCE ConnectionPool WITH owner <- Owner, Idle <- NoThread

\* Callers see a pool in which each connection passes from one exclusive user
\* to the next, whatever init() established.
ImplementsPool == Abstract!Spec
=============================================================================

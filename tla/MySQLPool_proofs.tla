-------------------------- MODULE MySQLPool_proofs --------------------------
(***************************************************************************)
(* Theorems about MySQLPool, for any finite sets of threads and             *)
(* connections and whether or not init() establishes them all.              *)
(***************************************************************************)
EXTENDS MySQLPool, FiniteSetTheorems, SequenceTheorems, TLAPS

(* The inductive invariant: besides the properties themselves, who holds    *)
(* the mutex and a connection, and that no thread calls before init()       *)
(* returned.                                                                *)

ConnOfUser == \A t \in Threads : pc[t] = "query" <=> conn[t] # NoConn

MutexHolder == \A t \in Threads : dbPoolMutex = t <=> pc[t] = "release"

OnlyConnected == /\ \A t \in Users : conn[t] \in connected
                 /\ \A i \in 1..Len(dbPool) : dbPool[i] \in connected

QuietInit == ~initDone => /\ \A t \in Threads : pc[t] = "idle"
                          /\ refused = 0

IInv == /\ TypeOK
        /\ ConnOfUser
        /\ MutexHolder
        /\ OnlyConnected
        /\ QuietInit
        /\ ExclusiveConnection
        /\ NoConnectionLost
        /\ PermitAccounting
        /\ NoRefusal

-----------------------------------------------------------------------------
(* Cardinalities.                                                           *)

LEMMA CountType == dbConnectionCount \in Nat
  BY ConnsAssumption, FS_CardinalityType DEF dbConnectionCount

LEMMA FiniteThreadSets ==
  ASSUME NEW S, S \subseteq Threads
  PROVE  IsFiniteSet(S) /\ Cardinality(S) \in Nat
  BY ThreadsAssumption, FS_Subset, FS_CardinalityType

LEMMA FiniteConnSets ==
  ASSUME NEW S, S \subseteq Conns
  PROVE  IsFiniteSet(S) /\ Cardinality(S) \in Nat
  BY ConnsAssumption, FS_Subset, FS_CardinalityType

\* A thread that enters a set of threads makes it one larger, a thread that
\* leaves it makes it one smaller.
LEMMA Enter ==
  ASSUME NEW S, S \subseteq Threads, NEW t \in Threads, t \notin S
  PROVE  Cardinality(S \cup {t}) = Cardinality(S) + 1
  BY FiniteThreadSets, FS_AddElement

LEMMA Leave ==
  ASSUME NEW S, S \subseteq Threads, NEW t \in S
  PROVE  Cardinality(S \ {t}) = Cardinality(S) - 1 /\ Cardinality(S) > 0
<1>1. IsFiniteSet(S) /\ Cardinality(S) \in Nat
  BY FiniteThreadSets
<1>2. Cardinality(S \ {t}) = Cardinality(S) - 1
  BY <1>1, FS_RemoveElement
<1>3. IsFiniteSet(S \ {t}) /\ Cardinality(S \ {t}) \in Nat
  BY FiniteThreadSets
<1> QED BY <1>1, <1>2, <1>3

-----------------------------------------------------------------------------
(* A thread with a permit that is about to look at dbPool finds a           *)
(* connection there if all are established: it holds a permit and no        *)
(* connection, so the users are fewer than the permits, hence than the      *)
(* connections.  This is the heart of NoRefusal.  H and U stand for          *)
(* PermitHolders and Users, in this state or in the next.                   *)

LEMMA PoolNotEmpty ==
  ASSUME NEW H, H \subseteq Threads, NEW t \in H,
         NEW U, U \subseteq H \ {t},
         NEW pool \in Seq(Conns), NEW permits \in Nat, NEW leaked \in Nat,
         permits + Cardinality(H) + leaked = dbConnectionCount,
         Len(pool) + Cardinality(U) = dbConnectionCount
  PROVE  pool # <<>>
<1>1. Cardinality(H \ {t}) = Cardinality(H) - 1 /\ Cardinality(H) \in Nat
  BY Leave, FiniteThreadSets
<1>2. Cardinality(U) \in Nat /\ Cardinality(U) <= Cardinality(H \ {t})
  BY FiniteThreadSets, FS_Subset
<1>3. dbConnectionCount \in Nat
  BY CountType
<1>4. Cardinality(U) < dbConnectionCount
  BY <1>1, <1>2, <1>3
<1>5. Len(pool) # 0
  BY <1>2, <1>3, <1>4
<1> QED BY <1>5

-----------------------------------------------------------------------------
LEMMA InitIInv == Init => IInv
<1> SUFFICES ASSUME Init PROVE IInv
  OBVIOUS
<1> USE DEF Init
<1>1. PermitHolders = {} /\ Users = {}
  BY DEF PermitHolders, Users
<1>2. Cardinality({}) = 0 /\ dbConnectionCount \in Nat
  BY FS_EmptySet, CountType
<1>3. dbPool \in Seq(Conns) /\ Len(dbPool) = 0
  BY EmptySeq
<1>4. TypeOK
  <2>1. pc \in [Threads -> {"idle", "acquire", "get", "query", "release"}]
    OBVIOUS
  <2>2. conn \in [Threads -> Conns \cup {NoConn}]
    OBVIOUS
  <2>3. initDone \in BOOLEAN /\ connected \in SUBSET Conns
    OBVIOUS
  <2>4. semaphore \in 0..dbConnectionCount /\ refused \in 0..dbConnectionCount
    BY <1>2
  <2>5. dbPoolMutex \in Threads \cup {NoThread} /\ dbPool \in Seq(Conns)
    BY <1>3
  <2> QED BY <2>1, <2>2, <2>3, <2>4, <2>5 DEF TypeOK
<1>5. ExclusiveConnection /\ OnlyConnected
  BY <1>1, <1>3 DEF ExclusiveConnection, OnlyConnected
<1>6. NoConnectionLost /\ PermitAccounting
  BY <1>1, <1>2, <1>3 DEF NoConnectionLost, PermitAccounting
<1>7. ConnOfUser /\ MutexHolder /\ QuietInit /\ NoRefusal
  BY ThreadsAssumption DEF ConnOfUser, MutexHolder, QuietInit, NoRefusal
<1> QED BY <1>4, <1>5, <1>6, <1>7 DEF IInv

LEMMA NextIInv == IInv /\ [Next]_vars => IInv'
<1> SUFFICES ASSUME IInv, [Next]_vars PROVE IInv'
  OBVIOUS
<1> USE DEF IInv
<1> dbConnectionCount \in Nat
  BY CountType
<1>t. TypeOK /\ dbPool \in Seq(Conns) /\ Len(dbPool) \in Nat
  BY LenProperties DEF TypeOK
<1>c. /\ PermitHolders \subseteq Threads /\ Cardinality(PermitHolders) \in Nat
      /\ Users \subseteq Threads /\ Cardinality(Users) \in Nat
  BY FiniteThreadSets DEF PermitHolders, Users
<1>1. ASSUME NEW c \in Conns, InitConnect(c) PROVE IInv'
  <2> USE <1>1 DEF InitConnect
  <2>1. /\ Append(dbPool, c) \in Seq(Conns) /\ Len(Append(dbPool, c)) = Len(dbPool) + 1
        /\ \A i \in 1..Len(dbPool) : Append(dbPool, c)[i] = dbPool[i]
        /\ Append(dbPool, c)[Len(dbPool) + 1] = c
    BY <1>t, AppendProperties
  <2>2. Users = {} /\ Users' = {} /\ PermitHolders' = PermitHolders
    BY DEF QuietInit, Users, PermitHolders
  <2>3. TypeOK'
    BY <1>t, <2>1 DEF TypeOK
  <2>4. Cardinality(connected') = Cardinality(connected) + 1
    BY <1>t, FiniteConnSets, FS_AddElement DEF TypeOK
  <2>5. NoConnectionLost' /\ PermitAccounting'
    BY <1>t, <1>c, <2>1, <2>2, <2>4, FiniteConnSets DEF TypeOK, NoConnectionLost, PermitAccounting
  <2>6. OnlyConnected' /\ ExclusiveConnection'
    BY <1>t, <2>1, <2>2 DEF OnlyConnected, ExclusiveConnection
  <2>7. ConnOfUser' /\ MutexHolder' /\ QuietInit' /\ NoRefusal'
    BY DEF ConnOfUser, MutexHolder, QuietInit, NoRefusal
  <2> QED BY <2>3, <2>5, <2>6, <2>7
<1>2. CASE InitReturn
  <2> USE <1>2 DEF InitReturn
  <2>1. TypeOK'
    BY <1>t DEF TypeOK
  <2>2. PermitHolders' = PermitHolders /\ Users' = Users
    BY DEF PermitHolders, Users
  <2>3. ConnOfUser' /\ MutexHolder' /\ QuietInit' /\ OnlyConnected' /\ ExclusiveConnection'
    BY <2>2 DEF ConnOfUser, MutexHolder, QuietInit, OnlyConnected, ExclusiveConnection
  <2>4. NoConnectionLost' /\ PermitAccounting'
    BY <2>2 DEF NoConnectionLost, PermitAccounting
  <2>5. NoRefusal'
    BY DEF QuietInit, NoRefusal
  <2> QED BY <2>1, <2>3, <2>4, <2>5
<1>3. ASSUME NEW t \in Threads, Call(t) PROVE IInv'
  <2> USE <1>3 DEF Call
  <2>1. TypeOK'
    BY <1>t DEF TypeOK
  <2>2. PermitHolders' = PermitHolders /\ Users' = Users
    BY <1>t DEF PermitHolders, Users, TypeOK
  <2>3. ConnOfUser' /\ MutexHolder' /\ QuietInit' /\ OnlyConnected' /\ ExclusiveConnection'
    BY <1>t, <2>2 DEF ConnOfUser, MutexHolder, QuietInit, OnlyConnected, ExclusiveConnection, TypeOK
  <2>4. NoConnectionLost' /\ PermitAccounting'
    BY <2>2 DEF NoConnectionLost, PermitAccounting
  <2>5. NoRefusal'
    BY <1>t DEF NoRefusal, TypeOK
  <2> QED BY <2>1, <2>3, <2>4, <2>5
<1>4. ASSUME NEW t \in Threads, Acquire(t) PROVE IInv'
  <2> USE <1>4 DEF Acquire
  <2>1. TypeOK'
    BY <1>t DEF TypeOK
  <2>2. Users' = Users /\ PermitHolders' = PermitHolders \cup {t} /\ t \notin PermitHolders
    BY <1>t DEF PermitHolders, Users, TypeOK
  <2>3. ConnOfUser' /\ MutexHolder' /\ QuietInit' /\ OnlyConnected' /\ ExclusiveConnection'
    BY <1>t, <2>2 DEF ConnOfUser, MutexHolder, QuietInit, OnlyConnected, ExclusiveConnection, TypeOK
  <2>4. NoConnectionLost' /\ PermitAccounting'
    BY <1>t, <1>c, <2>2, Enter DEF NoConnectionLost, PermitAccounting, TypeOK
  <2>5. NoRefusal'
    <3>1. ASSUME connected = Conns, NEW u \in Threads, pc'[u] = "get" PROVE dbPool' # <<>>
      <4>1. u \in PermitHolders' /\ Users' \subseteq PermitHolders' \ {u}
        BY <1>4, <3>1 DEF PermitHolders, Users
      <4>2. PermitHolders' \subseteq Threads /\ dbPool' \in Seq(Conns)
              /\ semaphore' \in Nat /\ refused' \in Nat
        BY <2>1 DEF TypeOK, PermitHolders
      <4>3. /\ semaphore' + Cardinality(PermitHolders') + refused' = dbConnectionCount
            /\ Len(dbPool') + Cardinality(Users') = dbConnectionCount
        BY <2>1, <2>4, <3>1 DEF NoConnectionLost, PermitAccounting, dbConnectionCount
      <4> QED BY ONLY <4>1, <4>2, <4>3, PoolNotEmpty
    <3> QED BY <3>1 DEF NoRefusal
  <2> QED BY <2>1, <2>3, <2>4, <2>5
<1>5. ASSUME NEW t \in Threads, GetConnection(t) PROVE IInv'
  <2> USE <1>5 DEF GetConnection
  <2>1. /\ Head(dbPool) \in Conns /\ Head(dbPool) = dbPool[1] /\ Len(dbPool) > 0
        /\ Tail(dbPool) \in Seq(Conns) /\ Len(Tail(dbPool)) = Len(dbPool) - 1
        /\ \A i \in 1..Len(Tail(dbPool)) : Tail(dbPool)[i] = dbPool[i + 1]
    BY <1>t, HeadTailProperties, EmptySeq
  <2>2. TypeOK'
    BY <1>t, <2>1 DEF TypeOK
  <2>3. PermitHolders' = PermitHolders /\ Users' = Users \cup {t} /\ t \notin Users
    BY <1>t DEF PermitHolders, Users, TypeOK
  <2>4. ConnOfUser' /\ MutexHolder' /\ QuietInit'
    BY <1>t, <2>1, ConnsAssumption DEF ConnOfUser, MutexHolder, QuietInit, TypeOK
  <2>5. OnlyConnected'
    BY <1>t, <1>c, <2>1, <2>3 DEF OnlyConnected, TypeOK
  <2>6. ExclusiveConnection'
    <3>1. \A u \in Users : conn'[u] = conn[u] /\ conn[u] # conn'[t]
      BY <1>t, <1>c, <2>1, <2>3 DEF ExclusiveConnection, TypeOK
    <3>2. \A i \in 1..Len(dbPool') : i + 1 \in 1..Len(dbPool) /\ dbPool'[i] = dbPool[i + 1]
      BY <1>t, <2>1
    <3>3. \A i \in 1..Len(dbPool') : dbPool'[i] # conn'[t]
      BY <1>t, <2>1, <3>2 DEF ExclusiveConnection, TypeOK
    <3>4. \A u, v \in Users' : u # v => conn'[u] # conn'[v]
      BY <2>3, <3>1 DEF ExclusiveConnection
    <3>5. \A u \in Users' : \A i \in 1..Len(dbPool') : dbPool'[i] # conn'[u]
      BY <2>3, <3>1, <3>2, <3>3 DEF ExclusiveConnection
    <3>6. \A i, j \in 1..Len(dbPool') : i # j => dbPool'[i] # dbPool'[j]
      BY <1>t, <2>1, <3>2 DEF ExclusiveConnection
    <3> QED BY <3>4, <3>5, <3>6 DEF ExclusiveConnection
  <2>7. NoConnectionLost' /\ PermitAccounting'
    BY <1>t, <1>c, <2>1, <2>3, Enter DEF NoConnectionLost, PermitAccounting, TypeOK
  <2>8. NoRefusal'
    <3>1. ASSUME connected = Conns, NEW u \in Threads, pc'[u] = "get" PROVE dbPool' # <<>>
      <4>1. u \in PermitHolders' /\ Users' \subseteq PermitHolders' \ {u}
        BY <1>5, <3>1 DEF PermitHolders, Users
      <4>2. PermitHolders' \subseteq Threads /\ dbPool' \in Seq(Conns)
              /\ semaphore' \in Nat /\ refused' \in Nat
        BY <2>2 DEF TypeOK, PermitHolders
      <4>3. /\ semaphore' + Cardinality(PermitHolders') + refused' = dbConnectionCount
            /\ Len(dbPool') + Cardinality(Users') = dbConnectionCount
        BY <2>2, <2>7, <3>1 DEF NoConnectionLost, PermitAccounting, dbConnectionCount
      <4> QED BY ONLY <4>1, <4>2, <4>3, PoolNotEmpty
    <3> QED BY <3>1 DEF NoRefusal
  <2> QED BY <2>2, <2>4, <2>5, <2>6, <2>7, <2>8
<1>6. ASSUME NEW t \in Threads, GetNothing(t) PROVE IInv'
  <2> USE <1>6 DEF GetNothing
  <2>1. PermitHolders' = PermitHolders \ {t} /\ t \in PermitHolders /\ Users' = Users
    BY <1>t DEF PermitHolders, Users, TypeOK
  <2>2. Cardinality(PermitHolders') = Cardinality(PermitHolders) - 1 /\ Cardinality(PermitHolders) > 0
    BY <1>c, <2>1, Leave
  <2>3. PermitAccounting' /\ NoConnectionLost'
    BY <1>t, <1>c, <2>1, <2>2 DEF PermitAccounting, NoConnectionLost, TypeOK
  <2>4. TypeOK'
    BY <1>t, <1>c, <2>2 DEF PermitAccounting, TypeOK
  <2>5. ConnOfUser' /\ MutexHolder' /\ QuietInit' /\ OnlyConnected' /\ ExclusiveConnection'
    BY <1>t, <2>1 DEF ConnOfUser, MutexHolder, QuietInit, OnlyConnected, ExclusiveConnection, TypeOK
  <2>6. connected # Conns
    <3>1. Users \subseteq PermitHolders \ {t}
      BY DEF PermitHolders, Users
    <3>2. /\ semaphore \in Nat /\ refused \in Nat
          /\ semaphore + Cardinality(PermitHolders) + refused = dbConnectionCount
      BY <1>t DEF TypeOK, PermitAccounting
    <3>3. connected = Conns => Len(dbPool) + Cardinality(Users) = dbConnectionCount
      BY DEF NoConnectionLost, dbConnectionCount
    <3>4. connected = Conns => dbPool # <<>>
      BY ONLY <1>t, <1>c, <2>1, <3>1, <3>2, <3>3, PoolNotEmpty
    <3> QED BY <3>4
  <2>7. NoRefusal'
    BY <2>6 DEF NoRefusal
  <2> QED BY <2>3, <2>4, <2>5, <2>7
<1>7. ASSUME NEW t \in Threads, ReturnConnection(t) PROVE IInv'
  <2> USE <1>7 DEF ReturnConnection
  <2>0. t \in Users /\ conn[t] \in Conns
    BY <1>t DEF Users, ConnOfUser, TypeOK
  <2>1. /\ dbPool' \in Seq(Conns) /\ Len(dbPool') = Len(dbPool) + 1
        /\ \A i \in 1..Len(dbPool) : dbPool'[i] = dbPool[i]
        /\ dbPool'[Len(dbPool) + 1] = conn[t]
        /\ dbPool' # <<>>
    BY <1>t, <2>0, AppendProperties
  <2>2. TypeOK'
    BY <1>t, <2>1 DEF TypeOK
  <2>3. PermitHolders' = PermitHolders /\ Users' = Users \ {t}
    BY <1>t DEF PermitHolders, Users, TypeOK
  <2>4. ConnOfUser' /\ MutexHolder' /\ QuietInit'
    BY <1>t, ThreadsAssumption DEF ConnOfUser, MutexHolder, QuietInit, TypeOK
  <2>5. \A u \in Users' : u \in Users /\ u # t /\ conn'[u] = conn[u]
    BY <1>t, <1>c, <2>3 DEF TypeOK
  <2>6. OnlyConnected'
    BY <1>t, <2>0, <2>1, <2>5 DEF OnlyConnected
  <2>7. ExclusiveConnection'
    BY <1>t, <2>0, <2>1, <2>5 DEF ExclusiveConnection
  <2>8. NoConnectionLost' /\ PermitAccounting'
    <3>1. Cardinality(Users') = Cardinality(Users) - 1
      BY <1>c, <2>0, <2>3, Leave
    <3>2. Cardinality(connected) \in Nat
      BY <1>t, FiniteConnSets DEF TypeOK
    <3> QED BY <1>t, <1>c, <2>1, <2>3, <3>1, <3>2 DEF NoConnectionLost, PermitAccounting
  <2>9. NoRefusal'
    BY <1>t, <2>1 DEF NoRefusal
  <2> QED BY <2>2, <2>4, <2>6, <2>7, <2>8, <2>9
<1>8. ASSUME NEW t \in Threads, ReleasePermit(t) PROVE IInv'
  <2> USE <1>8 DEF ReleasePermit
  <2>1. PermitHolders' = PermitHolders \ {t} /\ t \in PermitHolders /\ Users' = Users
    BY <1>t DEF PermitHolders, Users, TypeOK
  <2>2. Cardinality(PermitHolders') = Cardinality(PermitHolders) - 1 /\ Cardinality(PermitHolders) > 0
    BY <1>c, <2>1, Leave
  <2>3. PermitAccounting' /\ NoConnectionLost'
    BY <1>t, <1>c, <2>1, <2>2 DEF PermitAccounting, NoConnectionLost, TypeOK
  <2>4. TypeOK'
    BY <1>t, <1>c, <2>2 DEF PermitAccounting, TypeOK
  <2>5. MutexHolder'
    BY <1>t, ThreadsAssumption DEF MutexHolder, TypeOK
  <2>6. ConnOfUser' /\ QuietInit' /\ OnlyConnected' /\ ExclusiveConnection'
    BY <1>t, <2>1 DEF ConnOfUser, QuietInit, OnlyConnected, ExclusiveConnection, TypeOK
  <2>7. NoRefusal'
    BY <1>t DEF NoRefusal, TypeOK
  <2> QED BY <2>3, <2>4, <2>5, <2>6, <2>7
<1>9. CASE UNCHANGED vars
  <2> USE <1>9 DEF vars
  <2>1. PermitHolders' = PermitHolders /\ Users' = Users
    BY DEF PermitHolders, Users
  <2> QED BY <2>1 DEF TypeOK, ConnOfUser, MutexHolder, OnlyConnected, QuietInit,
          ExclusiveConnection, NoConnectionLost, PermitAccounting, NoRefusal
<1> QED BY <1>1, <1>2, <1>3, <1>4, <1>5, <1>6, <1>7, <1>8, <1>9 DEF Next, InCall

LEMMA Invariance == Spec => []IInv
  BY InitIInv, NextIInv, PTL DEF Spec

(* Each variable keeps its type; in particular semaphore never exceeds the  *)
(* least_max_value of its std::counting_semaphore<dbConnectionCount>.       *)
THEOREM TypeCorrect == Spec => []TypeOK
  BY Invariance, PTL DEF IInv

(* No two threads ever use one MYSQL* at the same time (GetConnection and   *)
(* ~AutoConn), whether or not init() succeeded.                             *)
THEOREM Exclusive == Spec => []ExclusiveConnection
  BY Invariance, PTL DEF IInv

(* No established connection is lost by any interleaving of the calls.      *)
THEOREM ConnectionsKept == Spec => []NoConnectionLost
  BY Invariance, PTL DEF IInv

(* The permits that are missing are exactly those of refused calls.         *)
THEOREM PermitsAccounted == Spec => []PermitAccounting
  BY Invariance, PTL DEF IInv

(* If init() established every connection no call is refused, so no permit  *)
(* leaks: the semaphore does count the connections.                         *)
THEOREM NeverRefused == Spec => []NoRefusal
  BY Invariance, PTL DEF IInv

-----------------------------------------------------------------------------
(* The refinement.                                                          *)

\* The mapping is well defined: a connection's owner is its one user.
LEMMA OwnerOfUser ==
  ASSUME ExclusiveConnection, OnlyConnected, NEW t \in Users, conn[t] \in Conns
  PROVE  Owner[conn[t]] = t
<1>1. \A u \in Users : conn[u] = conn[t] => u = t
  BY DEF ExclusiveConnection
<1>2. (CHOOSE u \in Users : conn[u] = conn[t]) = t
  BY <1>1
<1> QED BY <1>2 DEF Owner, OnlyConnected

\* A function that differs from Owner at one place only.
LEMMA OneOwnerChanges ==
  ASSUME NEW h \in Conns, NEW v, Owner'[h] = v,
         \A d \in Conns : d # h => Owner'[d] = Owner[d]
  PROVE  Owner' = [Owner EXCEPT ![h] = v]
<1>1. Owner = [d \in Conns |-> Owner[d]] /\ Owner' = [d \in Conns |-> Owner'[d]]
  BY DEF Owner
<1>2. ASSUME NEW f, NEW g, f = [d \in Conns |-> f[d]], g = [d \in Conns |-> g[d]],
             g[h] = v, \A d \in Conns : d # h => g[d] = f[d]
      PROVE  g = [f EXCEPT ![h] = v]
  BY <1>2
<1> QED BY <1>1, <1>2

LEMMA SameOwner == Users' = Users /\ conn' = conn /\ connected' = connected => Owner' = Owner
  BY DEF Owner

LEMMA InitMapped == Init => Abstract!Init
  BY DEF Init, Abstract!Init, Owner

LEMMA StepMapped == IInv /\ IInv' /\ [Next]_vars => [Abstract!Next]_Owner
<1> SUFFICES ASSUME IInv, IInv', [Next]_vars PROVE Abstract!Next \/ Owner' = Owner
  OBVIOUS
<1> USE DEF IInv
<1>1. ASSUME NEW c \in Conns, InitConnect(c) PROVE Abstract!Open(c)
  <2>1. Users = {} /\ Users' = {}
    BY <1>1 DEF InitConnect, QuietInit, Users
  <2>2. \A d \in Conns : Owner'[d] = IF d = c THEN NoThread ELSE Owner[d]
    BY <1>1, <2>1 DEF InitConnect, Owner
  <2>3. Owner[c] = Closed
    BY <1>1 DEF InitConnect, Owner
  <2>4. Owner' = [Owner EXCEPT ![c] = NoThread]
    BY <2>2 DEF Owner
  <2> QED BY <2>3, <2>4 DEF Abstract!Open
<1>2. ASSUME NEW t \in Threads, GetConnection(t)
      PROVE  Abstract!Take(t, Head(dbPool)) /\ Head(dbPool) \in Conns
  <2> DEFINE h == Head(dbPool)
  <2>1. h \in Conns /\ h = dbPool[1] /\ 1 \in 1..Len(dbPool)
    BY <1>2, HeadTailProperties, EmptySeq, LenProperties DEF GetConnection, TypeOK
  <2>2. h \in connected /\ \A u \in Users : conn[u] # h
    BY <2>1 DEF OnlyConnected, ExclusiveConnection
  <2>3. Owner[h] = NoThread
    BY <2>1, <2>2 DEF Owner
  <2>4. Users' = Users \cup {t} /\ t \notin Users /\ conn' = [conn EXCEPT ![t] = h]
        /\ connected' = connected
    BY <1>2 DEF GetConnection, Users, TypeOK
  <2>5. conn'[t] = h /\ \A u \in Users : conn'[u] = conn[u]
    BY <2>4 DEF TypeOK, Users
  <2>6. Owner'[h] = t
    <3>1. \A u \in Users' : conn'[u] = h => u = t
      BY <2>2, <2>4, <2>5
    <3>2. (CHOOSE u \in Users' : conn'[u] = h) = t
      BY <2>4, <2>5, <3>1
    <3> QED BY <2>1, <2>2, <2>4, <2>5, <3>2 DEF Owner
  <2>7. ASSUME NEW d \in Conns, d # h PROVE Owner'[d] = Owner[d]
    <3>1. {u \in Users' : conn'[u] = d} = {u \in Users : conn[u] = d}
      BY <2>4, <2>5, <2>7
    <3>2. (CHOOSE u \in Users' : conn'[u] = d) = (CHOOSE u \in Users : conn[u] = d)
      BY <2>4, <2>5, <2>7
    <3>3. (\E u \in Users' : conn'[u] = d) <=> (\E u \in Users : conn[u] = d)
      BY <3>1
    <3> QED BY <2>4, <3>2, <3>3 DEF Owner
  <2>8. Owner' = [Owner EXCEPT ![h] = t]
    BY <2>1, <2>6, <2>7, OneOwnerChanges
  <2> QED BY <2>1, <2>3, <2>8 DEF Abstract!Take
<1>3. ASSUME NEW t \in Threads, ReturnConnection(t)
      PROVE  Abstract!Give(t, conn[t]) /\ conn[t] \in Conns
  <2> DEFINE h == conn[t]
  <2>1. t \in Users /\ h \in Conns /\ h \in connected
    BY <1>3 DEF ReturnConnection, Users, ConnOfUser, TypeOK, OnlyConnected
  <2>2. Owner[h] = t
    BY <2>1, OwnerOfUser
  <2>3. Users' = Users \ {t} /\ connected' = connected
        /\ \A u \in Users' : conn'[u] = conn[u]
    BY <1>3 DEF ReturnConnection, Users, TypeOK
  <2>4. \A u \in Users' : conn'[u] # h
    BY <2>1, <2>3 DEF ExclusiveConnection
  <2>5. Owner'[h] = NoThread
    BY <2>1, <2>3, <2>4 DEF Owner
  <2>6. ASSUME NEW d \in Conns, d # h PROVE Owner'[d] = Owner[d]
    <3>1. \A u : (u \in Users' /\ conn'[u] = d) <=> (u \in Users /\ conn[u] = d)
      BY <2>1, <2>3, <2>6
    <3>2. (CHOOSE u \in Users' : conn'[u] = d) = (CHOOSE u \in Users : conn[u] = d)
      BY <3>1
    <3> QED BY <2>3, <3>1, <3>2 DEF Owner
  <2>7. Owner' = [Owner EXCEPT ![h] = NoThread]
    BY <2>1, <2>5, <2>6, OneOwnerChanges
  <2> QED BY <2>1, <2>2, <2>7 DEF Abstract!Give
<1>4. CASE UNCHANGED vars \/ InitReturn
  BY <1>4, SameOwner DEF vars, InitReturn, Users
<1>5. ASSUME NEW t \in Threads,
             Call(t) \/ Acquire(t) \/ GetNothing(t) \/ ReleasePermit(t)
      PROVE  Owner' = Owner
  <2>1. Users' = Users /\ conn' = conn /\ connected' = connected
    BY <1>5 DEF Call, Acquire, GetNothing, ReleasePermit, Users, TypeOK
  <2> QED BY <2>1, SameOwner
<1>6. CASE \E c \in Conns : InitConnect(c)
  BY <1>1, <1>6 DEF Abstract!Next
<1>7. CASE \E t \in Threads : GetConnection(t) \/ ReturnConnection(t)
  BY <1>2, <1>3, <1>7 DEF Abstract!Next
<1> QED BY <1>4, <1>5, <1>6, <1>7 DEF Next, InCall

(* MySQLManager's pool implements ConnectionPool: whatever happens, each    *)
(* connection passes from one exclusive user, through idle, to the next.    *)
THEOREM PoolRefinement == Spec => ImplementsPool
<1>1. IInv /\ IInv' /\ [Next]_vars => [Abstract!Next]_Owner
  BY StepMapped
<1> QED BY <1>1, InitMapped, Invariance, PTL DEF Spec, ImplementsPool, Abstract!Spec
=============================================================================

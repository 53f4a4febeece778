------------------------ MODULE ServerLifecycle_proofs ------------------------
(***************************************************************************)
(* Theorems about ServerLifecycle, for every number of threads and slots,   *)
(* whatever fails at the start.                                             *)
(***************************************************************************)
EXTENDS ServerLifecycle, FiniteSetTheorems, TLAPS

Kinds == {"ACCEPT", "RECV"}
Ending == {"join", "redisEnd", "redisJoin", "exit"}

\* The slots StartWork has pushed: those inserted, and the one it is about to.
Pushed == ConnUsers \cup (IF mainPc = "insert" THEN {i} ELSE {})

\* Whatever slot is anywhere was pushed, and no null completion is posted before
\* ServerEnd.
SlotsOK ==
  /\ AcceptQueue \in Seq(Pushed)
  /\ listening \subseteq Pushed /\ connected \subseteq Pushed
  /\ work \in [Threads -> {Null} \cup (Pushed \X Kinds)]
  /\ iocp \in Seq({Null} \cup (Pushed \X Kinds))
  /\ mainPc \notin Ending => iocp \in Seq(Pushed \X Kinds)

MainOK ==
  /\ mainPc \in {"loop", "insert"} => connUsersManager
  /\ ~connUsersManager => Pushed = {}
  /\ mainPc = "insert" => i \in Numbers \ Skipped
  /\ port = "closed" => mainPc \in {"redisEnd", "redisJoin", "exit"}

ThreadsOK ==
  /\ \A t \in Threads : pc[t] = "find" => work[t] # Null
  /\ \A t \in (Workers \cup Accepters) \ workThreads : pc[t] = "none"

IInv == TypeOK /\ SlotsOK /\ MainOK /\ ThreadsOK /\ OnlyStartUpEnds /\ ClosedLast /\ RunsUntilEnd

-----------------------------------------------------------------------------
(* Sequences.                                                               *)

LEMMA SeqOfLarger ==
  ASSUME NEW S, NEW T, S \subseteq T, NEW s \in Seq(S)
  PROVE  s \in Seq(T)
<1>1. Len(s) \in Nat /\ s \in [1..Len(s) -> S]
  OBVIOUS
<1> QED BY <1>1

LEMMA AppendType ==
  ASSUME NEW S, NEW s \in Seq(S), NEW e \in S
  PROVE  Append(s, e) \in Seq(S)
  OBVIOUS

LEMMA HeadTailType ==
  ASSUME NEW S, NEW s \in Seq(S), s # <<>>
  PROVE  Head(s) \in S /\ Tail(s) \in Seq(S)
  OBVIOUS

LEMMA ConcatType ==
  ASSUME NEW S, NEW s \in Seq(S), NEW r \in Seq(S)
  PROVE  s \o r \in Seq(S)
  OBVIOUS

-----------------------------------------------------------------------------
(* Slots.                                                                   *)

\* The sets of slots and completions are typed by where their slots come from.
LEMMA SlotsTyped ==
  ASSUME SlotsOK, Pushed \subseteq Numbers
  PROVE  /\ AcceptQueue \in Seq(Numbers)
         /\ listening \subseteq Numbers /\ connected \subseteq Numbers
         /\ work \in [Threads -> {Null} \cup Numbers \X Kinds]
         /\ iocp \in Seq({Null} \cup Numbers \X Kinds)
<1>1. {Null} \cup (Pushed \X Kinds) \subseteq {Null} \cup Numbers \X Kinds
  OBVIOUS
<1>2. AcceptQueue \in Seq(Numbers) /\ iocp \in Seq({Null} \cup Numbers \X Kinds)
  BY <1>1, SeqOfLarger DEF SlotsOK
<1> QED BY <1>1, <1>2 DEF SlotsOK

\* They stay as they are while more slots are pushed.
LEMMA SlotsStay ==
  ASSUME SlotsOK, UNCHANGED traffic, Pushed \subseteq Pushed',
         mainPc' \notin Ending => mainPc \notin Ending
  PROVE  SlotsOK'
<1>1. /\ {Null} \cup (Pushed \X Kinds) \subseteq {Null} \cup (Pushed' \X Kinds)
      /\ Pushed \X Kinds \subseteq Pushed' \X Kinds
  OBVIOUS
<1>2. AcceptQueue' \in Seq(Pushed') /\ iocp' \in Seq({Null} \cup (Pushed' \X Kinds))
  BY <1>1, SeqOfLarger DEF SlotsOK, traffic
<1>3. mainPc' \notin Ending => iocp' \in Seq(Pushed' \X Kinds)
  BY <1>1, SeqOfLarger DEF SlotsOK, traffic
<1>4. work' \in [Threads -> {Null} \cup (Pushed' \X Kinds)]
  BY <1>1 DEF SlotsOK, traffic
<1> QED BY <1>2, <1>3, <1>4 DEF SlotsOK, traffic

LEMMA PushedNumbers ==
  ASSUME IInv
  PROVE  Pushed \subseteq Numbers \ Skipped
  BY DEF IInv, TypeOK, MainOK, Pushed

\* A step that moves no slot.
LEMMA NoTraffic ==
  ASSUME IInv, UNCHANGED traffic, mainPc' \notin Ending => mainPc \notin Ending,
         Pushed \subseteq Pushed', Pushed' \subseteq Numbers
  PROVE  /\ SlotsOK'
         /\ AcceptQueue' \in Seq(Numbers)
         /\ listening' \subseteq Numbers /\ connected' \subseteq Numbers
         /\ work' \in [Threads -> {Null} \cup Numbers \X {"ACCEPT", "RECV"}]
         /\ iocp' \in Seq({Null} \cup Numbers \X {"ACCEPT", "RECV"})
<1>1. SlotsOK'
  BY SlotsStay DEF IInv
<1> QED BY <1>1 DEF IInv, TypeOK, traffic

-----------------------------------------------------------------------------
(* The main thread.                                                         *)

LEMMA InitIInv == Init => IInv
<1> SUFFICES ASSUME Init PROVE IInv
  OBVIOUS
<1>1. Pushed = {}
  BY DEF Init, Pushed
<1>2. SlotsOK
  BY <1>1 DEF Init, SlotsOK
<1>3. 0 \in 0..maxClientCount
  BY CountsAssumption
<1>4. /\ pc \in [Threads -> {"none", "test", "take", "find", "acquire", "done"}]
      /\ work \in [Threads -> {Null} \cup Numbers \X {"ACCEPT", "RECV"}]
  BY DEF Init
<1>5. /\ AcceptQueue \in Seq(Numbers) /\ iocp \in Seq({Null} \cup Numbers \X {"ACCEPT", "RECV"})
  BY DEF Init
<1>6. TypeOK
  BY <1>3, <1>4, <1>5 DEF Init, TypeOK
<1>7. MainOK /\ ThreadsOK /\ OnlyStartUpEnds /\ ClosedLast /\ RunsUntilEnd
  BY <1>1 DEF Init, MainOK, ThreadsOK, OnlyStartUpEnds, ClosedLast, RunsUntilEnd, Threads
<1> QED BY <1>2, <1>6, <1>7 DEF IInv

LEMMA InitServerOK ==
  ASSUME IInv, ended = "no", InitServer
  PROVE  IInv'
<1> USE DEF InitServer, users, flags
<1>1. Pushed' = Pushed /\ Pushed \subseteq Numbers
  BY PushedNumbers DEF Pushed
<1>2. SlotsOK'
  BY <1>1, NoTraffic DEF Ending
<1>3. TypeOK'
  BY DEF IInv, TypeOK, traffic
<1>4. MainOK' /\ ThreadsOK'
  BY <1>1 DEF IInv, MainOK, ThreadsOK, traffic
<1>5. OnlyStartUpEnds' /\ ClosedLast' /\ RunsUntilEnd'
  BY DEF IInv, OnlyStartUpEnds, ClosedLast, RunsUntilEnd, MainOK
<1> QED BY <1>2, <1>3, <1>4, <1>5 DEF IInv

LEMMA RedisRunOK ==
  ASSUME IInv, ended = "no", RedisRun
  PROVE  IInv'
<1> USE DEF RedisRun, users, flags
<1>1. Pushed' = Pushed /\ Pushed \subseteq Numbers
  BY PushedNumbers DEF Pushed
<1>2. SlotsOK'
  BY <1>1, NoTraffic DEF Ending
<1>3. PICK begun \in SUBSET RedisThreads :
        pc' = [t \in Threads |-> IF t \in begun THEN "test" ELSE pc[t]]
  OBVIOUS
<1>4. pc' \in [Threads -> {"none", "test", "take", "find", "acquire", "done"}]
  BY <1>3 DEF IInv, TypeOK
<1>5. TypeOK'
  BY <1>4 DEF IInv, TypeOK, traffic
<1>6. /\ \A t \in Workers \cup Accepters : pc'[t] = pc[t]
      /\ \A t \in Threads : pc'[t] = "find" => pc[t] = "find"
  BY <1>3, ThreadsAssumption DEF Threads
<1>7. MainOK' /\ ThreadsOK'
  BY <1>1, <1>6 DEF IInv, MainOK, ThreadsOK, traffic
<1>8. OnlyStartUpEnds' /\ ClosedLast' /\ RunsUntilEnd'
  BY <1>6 DEF IInv, OnlyStartUpEnds, ClosedLast, RunsUntilEnd, MainOK
<1> QED BY <1>2, <1>5, <1>7, <1>8 DEF IInv

\* Threads of one kind are begun, all or not.
LEMMA CreateOK ==
  ASSUME IInv, ended = "no", NEW kind, kind = Workers \/ kind = Accepters, NEW next,
         Create(kind, next),
         mainPc \in {"CreateWorkThread", "CreateAccepterThread"},
         next \in {"CreateAccepterThread", "ConnUsersManager"},
         WorkRun' = TRUE, AccepterRun' \in BOOLEAN,
         UNCHANGED <<i, port, bound, redisRun, users, traffic, ended>>
  PROVE  IInv'
<1> USE DEF users
<1>1. PICK begun \in SUBSET kind :
        /\ workThreads' = workThreads \cup begun
        /\ pc' = [t \in Threads |-> IF t \in begun THEN "test" ELSE pc[t]]
        /\ mainPc' = IF begun = kind THEN next ELSE "wait"
  BY DEF Create
<1>2. mainPc' \in {next, "wait"}
  BY <1>1
<1>3. Pushed' = Pushed /\ Pushed \subseteq Numbers
  BY <1>2, PushedNumbers DEF Pushed
<1>4. SlotsOK'
  BY <1>3, NoTraffic DEF Ending
<1>5. pc' \in [Threads -> {"none", "test", "take", "find", "acquire", "done"}]
  BY <1>1 DEF IInv, TypeOK
<1>6. TypeOK'
  BY <1>1, <1>2, <1>5 DEF IInv, TypeOK, traffic
<1>7. /\ \A t \in (Workers \cup Accepters) \ workThreads' : pc'[t] = pc[t]
      /\ \A t \in Threads : pc'[t] = "find" => pc[t] = "find"
  BY <1>1 DEF Threads
<1>8. MainOK' /\ ThreadsOK'
  BY <1>1, <1>2, <1>3, <1>7 DEF IInv, MainOK, ThreadsOK, traffic
<1>9. OnlyStartUpEnds' /\ ClosedLast' /\ RunsUntilEnd'
  BY <1>2 DEF IInv, OnlyStartUpEnds, ClosedLast, RunsUntilEnd, MainOK
<1> QED BY <1>4, <1>6, <1>8, <1>9 DEF IInv

LEMMA CreateWorkThreadOK ==
  ASSUME IInv, ended = "no", CreateWorkThread
  PROVE  IInv'
<1>1. AccepterRun' \in BOOLEAN
  BY DEF CreateWorkThread, IInv, TypeOK
<1> QED BY <1>1, CreateOK DEF CreateWorkThread

LEMMA CreateAccepterThreadOK ==
  ASSUME IInv, ended = "no", CreateAccepterThread
  PROVE  IInv'
<1>1. WorkRun' = TRUE
  BY DEF CreateAccepterThread, IInv, TypeOK, RunsUntilEnd
<1> QED BY <1>1, CreateOK DEF CreateAccepterThread

LEMMA NewConnUsersManagerOK ==
  ASSUME IInv, ended = "no", NewConnUsersManager
  PROVE  IInv'
<1> USE DEF NewConnUsersManager, users, flags
<1>1. Pushed' = Pushed /\ Pushed \subseteq Numbers
  BY PushedNumbers DEF Pushed
<1>2. SlotsOK'
  BY <1>1, NoTraffic DEF Ending
<1>3. TypeOK'
  BY DEF IInv, TypeOK, traffic
<1>4. MainOK' /\ ThreadsOK'
  BY <1>1 DEF IInv, MainOK, ThreadsOK, traffic
<1>5. OnlyStartUpEnds' /\ ClosedLast' /\ RunsUntilEnd'
  BY DEF IInv, OnlyStartUpEnds, ClosedLast, RunsUntilEnd, MainOK
<1> QED BY <1>2, <1>3, <1>4, <1>5 DEF IInv

LEMMA PushUserOK ==
  ASSUME IInv, ended = "no", PushUser
  PROVE  IInv'
<1> USE DEF users, flags
<1>1. /\ mainPc = "loop" /\ i \in 0..maxClientCount /\ maxClientCount \in Nat
      /\ UNCHANGED <<port, bound, workThreads, flags, users, work, listening, connected, iocp, pc,
                     ended>>
  BY CountsAssumption DEF PushUser, IInv, TypeOK
<1>2. Pushed = ConnUsers /\ ConnUsers \subseteq Numbers \ Skipped
  BY <1>1 DEF Pushed, IInv, TypeOK
<1>3. CASE AcceptQueue' = AcceptQueue /\ mainPc' \in {"loop", "wait"} /\ i' \in 0..maxClientCount
  <2>1. Pushed' = Pushed
    BY <1>1, <1>3 DEF Pushed
  <2>2. SlotsOK'
    BY <1>1, <1>2, <1>3, <2>1, NoTraffic DEF Ending, traffic
  <2>3. TypeOK'
    BY <1>1, <1>3 DEF IInv, TypeOK
  <2>4. MainOK' /\ ThreadsOK'
    BY <1>1, <1>3, <2>1 DEF IInv, MainOK, ThreadsOK
  <2>5. OnlyStartUpEnds' /\ ClosedLast' /\ RunsUntilEnd'
    BY <1>1, <1>3 DEF IInv, OnlyStartUpEnds, ClosedLast, RunsUntilEnd, MainOK
  <2> QED BY <2>2, <2>3, <2>4, <2>5 DEF IInv
<1>4. CASE /\ AcceptQueue' = Append(AcceptQueue, i) /\ mainPc' = "insert" /\ i' = i
           /\ i # maxClientCount /\ i \notin Skipped
  <2>1. i \in Numbers \ Skipped
    BY <1>1, <1>4 DEF Numbers
  <2>2. Pushed' = Pushed \cup {i}
    BY <1>1, <1>2, <1>4 DEF Pushed
  <2>3. AcceptQueue' \in Seq(Pushed')
    <3>1. AcceptQueue \in Seq(Pushed')
      BY <2>2, SeqOfLarger DEF IInv, SlotsOK
    <3> QED BY <1>4, <2>2, <3>1, AppendType
  <2>4. SlotsOK'
    <3>1. /\ {Null} \cup (Pushed \X Kinds) \subseteq {Null} \cup (Pushed' \X Kinds)
          /\ Pushed \X Kinds \subseteq Pushed' \X Kinds
      BY <2>2
    <3>2. iocp' \in Seq({Null} \cup (Pushed' \X Kinds)) /\ iocp' \in Seq(Pushed' \X Kinds)
      BY <1>1, <3>1, SeqOfLarger DEF IInv, SlotsOK, Ending
    <3>3. /\ work' \in [Threads -> {Null} \cup (Pushed' \X Kinds)]
          /\ listening' \subseteq Pushed' /\ connected' \subseteq Pushed'
      BY <1>1, <2>2, <3>1 DEF IInv, SlotsOK
    <3> QED BY <2>3, <3>2, <3>3 DEF SlotsOK
  <2>5. AcceptQueue' \in Seq(Numbers)
    BY <1>4, <2>1, AppendType DEF IInv, TypeOK
  <2>6. TypeOK'
    BY <1>1, <1>4, <2>5 DEF IInv, TypeOK
  <2>7. MainOK' /\ ThreadsOK'
    BY <1>1, <1>4, <2>1 DEF IInv, MainOK, ThreadsOK
  <2>8. OnlyStartUpEnds' /\ ClosedLast' /\ RunsUntilEnd'
    BY <1>1, <1>4 DEF IInv, OnlyStartUpEnds, ClosedLast, RunsUntilEnd, MainOK
  <2> QED BY <2>4, <2>6, <2>7, <2>8 DEF IInv
<1>5. CASE i = maxClientCount
  BY <1>1, <1>3, <1>5 DEF PushUser
<1>6. CASE i # maxClientCount /\ i \in Skipped
  <2>1. i + 1 \in 0..maxClientCount
    BY <1>1, <1>6
  <2> QED BY <1>1, <1>3, <1>6, <2>1 DEF PushUser
<1>7. CASE i # maxClientCount /\ i \notin Skipped
  BY <1>4, <1>7 DEF PushUser
<1> QED BY <1>5, <1>6, <1>7

LEMMA InsertUserOK ==
  ASSUME IInv, ended = "no", InsertUser
  PROVE  IInv'
<1> USE DEF InsertUser, users, flags
<1>1. i \in Numbers \ Skipped /\ i + 1 \in 0..maxClientCount
  BY CountsAssumption DEF IInv, MainOK, TypeOK, Numbers
<1>2. Pushed' = Pushed /\ Pushed \subseteq Numbers
  BY PushedNumbers DEF Pushed
<1>3. SlotsOK'
  BY <1>2, NoTraffic DEF Ending
<1>4. TypeOK'
  BY <1>1 DEF IInv, TypeOK, traffic
<1>5. MainOK' /\ ThreadsOK'
  BY <1>2 DEF IInv, MainOK, ThreadsOK, traffic
<1>6. OnlyStartUpEnds' /\ ClosedLast' /\ RunsUntilEnd'
  BY DEF IInv, OnlyStartUpEnds, ClosedLast, RunsUntilEnd, MainOK
<1> QED BY <1>3, <1>4, <1>5, <1>6 DEF IInv

LEMMA TypedOK ==
  ASSUME IInv, ended = "no", Typed
  PROVE  IInv'
<1> USE DEF Typed, users, flags
<1>1. Pushed' = Pushed /\ Pushed \subseteq Numbers
  BY PushedNumbers DEF Pushed
<1>2. SlotsOK'
  BY <1>1, NoTraffic DEF Ending
<1>3. TypeOK'
  BY DEF IInv, TypeOK, traffic
<1>4. MainOK' /\ ThreadsOK'
  BY <1>1 DEF IInv, MainOK, ThreadsOK, traffic
<1>5. OnlyStartUpEnds' /\ ClosedLast' /\ RunsUntilEnd'
  BY DEF IInv, OnlyStartUpEnds, ClosedLast, RunsUntilEnd, MainOK
<1> QED BY <1>2, <1>3, <1>4, <1>5 DEF IInv

LEMMA EndOK ==
  ASSUME IInv, ended = "no", End
  PROVE  IInv'
<1> USE DEF End, users
<1>1. Pushed' = Pushed /\ Pushed \subseteq Numbers
  BY PushedNumbers DEF Pushed
<1>2. Cardinality(workThreads) \in Nat
  <2>1. IsFiniteSet(Workers \cup Accepters)
    BY ThreadsAssumption, FS_Union
  <2>2. IsFiniteSet(workThreads)
    BY <2>1, FS_Subset DEF IInv, TypeOK
  <2> QED BY <2>2, FS_CardinalityType
<1>3. ASSUME NEW S PROVE iocp \in Seq({Null} \cup S) => iocp' \in Seq({Null} \cup S)
  <2> DEFINE nulls == [n \in 1..Cardinality(workThreads) |-> Null]
  <2>1. nulls \in Seq({Null} \cup S)
    BY <1>2
  <2>2. iocp' = iocp \/ iocp' = iocp \o nulls
    OBVIOUS
  <2> HIDE DEF nulls
  <2> QED BY <2>1, <2>2, ConcatType
<1>4. SlotsOK'
  BY <1>1, <1>3 DEF IInv, SlotsOK, Ending
<1>5. TypeOK'
  BY <1>3 DEF IInv, TypeOK
<1>6. MainOK' /\ ThreadsOK'
  BY <1>1 DEF IInv, MainOK, ThreadsOK
<1>7. OnlyStartUpEnds' /\ ClosedLast' /\ RunsUntilEnd'
  BY DEF IInv, OnlyStartUpEnds, ClosedLast, RunsUntilEnd
<1> QED BY <1>4, <1>5, <1>6, <1>7 DEF IInv

LEMMA JoinAndCloseOK ==
  ASSUME IInv, ended = "no", JoinAndClose
  PROVE  IInv'
<1> USE DEF JoinAndClose, users, flags
<1>1. Pushed' = Pushed /\ Pushed \subseteq Numbers
  BY PushedNumbers DEF Pushed
<1>2. SlotsOK'
  BY <1>1, NoTraffic DEF Ending
<1>3. TypeOK'
  BY DEF IInv, TypeOK, traffic
<1>4. MainOK' /\ ThreadsOK'
  BY <1>1 DEF IInv, MainOK, ThreadsOK, traffic
<1>5. OnlyStartUpEnds' /\ ClosedLast' /\ RunsUntilEnd'
  BY DEF IInv, OnlyStartUpEnds, ClosedLast, RunsUntilEnd, ThreadsOK
<1> QED BY <1>2, <1>3, <1>4, <1>5 DEF IInv

LEMMA RedisEndOK ==
  ASSUME IInv, ended = "no", RedisEnd
  PROVE  IInv'
<1> USE DEF RedisEnd, users, flags
<1>1. Pushed' = Pushed /\ Pushed \subseteq Numbers
  BY PushedNumbers DEF Pushed
<1>2. SlotsOK'
  BY <1>1, NoTraffic DEF Ending
<1>3. TypeOK'
  BY DEF IInv, TypeOK, traffic
<1>4. MainOK' /\ ThreadsOK'
  BY <1>1 DEF IInv, MainOK, ThreadsOK, traffic
<1>5. OnlyStartUpEnds' /\ ClosedLast' /\ RunsUntilEnd'
  BY DEF IInv, OnlyStartUpEnds, ClosedLast, RunsUntilEnd, MainOK
<1> QED BY <1>2, <1>3, <1>4, <1>5 DEF IInv

LEMMA RedisJoinOK ==
  ASSUME IInv, ended = "no", RedisJoin
  PROVE  IInv'
<1> USE DEF RedisJoin, users, flags
<1>1. Pushed' = Pushed /\ Pushed \subseteq Numbers
  BY PushedNumbers DEF Pushed
<1>2. SlotsOK'
  BY <1>1, NoTraffic DEF Ending
<1>3. TypeOK'
  BY DEF IInv, TypeOK, traffic
<1>4. MainOK' /\ ThreadsOK'
  BY <1>1 DEF IInv, MainOK, ThreadsOK, traffic
<1>5. OnlyStartUpEnds' /\ ClosedLast' /\ RunsUntilEnd'
  BY DEF IInv, OnlyStartUpEnds, ClosedLast, RunsUntilEnd, MainOK
<1> QED BY <1>2, <1>3, <1>4, <1>5 DEF IInv

-----------------------------------------------------------------------------
(* The other threads and the clients.                                       *)

\* A step of thread t that leaves the main thread's state alone.
LEMMA ThreadStep ==
  ASSUME IInv, ended = "no", NEW t \in Threads, pc[t] \in {"test", "take", "find", "acquire"},
         NEW l \in {"test", "take", "find", "acquire", "done"}, Goto(t, l),
         l = "find" => work'[t] # Null,
         \A v \in Threads \ {t} : work'[v] = work[v],
         SlotsOK', WorkRun' = WorkRun,
         ended' \in {"no", "noPort", "noManager", "noUser"}, OnlyStartUpEnds',
         UNCHANGED <<mainPc, i, port, bound, workThreads, AccepterRun, redisRun, users>>
  PROVE  IInv'
<1>1. Pushed' = Pushed /\ Pushed \subseteq Numbers
  BY PushedNumbers DEF Pushed, users
<1>2. /\ AcceptQueue' \in Seq(Numbers)
      /\ listening' \subseteq Numbers /\ connected' \subseteq Numbers
      /\ work' \in [Threads -> {Null} \cup Numbers \X {"ACCEPT", "RECV"}]
      /\ iocp' \in Seq({Null} \cup Numbers \X {"ACCEPT", "RECV"})
  <2>1. /\ AcceptQueue' \in Seq(Pushed') /\ Pushed' \subseteq Numbers
        /\ iocp' \in Seq({Null} \cup (Pushed' \X Kinds))
        /\ {Null} \cup (Pushed' \X Kinds) \subseteq {Null} \cup Numbers \X {"ACCEPT", "RECV"}
    BY <1>1 DEF SlotsOK, Kinds
  <2>2. /\ AcceptQueue' \in Seq(Numbers)
        /\ iocp' \in Seq({Null} \cup Numbers \X {"ACCEPT", "RECV"})
    BY <2>1, SeqOfLarger
  <2> QED BY <2>1, <2>2 DEF SlotsOK
<1>3. /\ pc' \in [Threads -> {"none", "test", "take", "find", "acquire", "done"}]
      /\ pc'[t] = l /\ \A v \in Threads \ {t} : pc'[v] = pc[v]
  BY DEF IInv, TypeOK, Goto
<1>4. TypeOK'
  BY <1>2, <1>3 DEF IInv, TypeOK, users
<1>5. MainOK' /\ RunsUntilEnd'
  BY <1>1 DEF IInv, MainOK, RunsUntilEnd, users
<1>6. ThreadsOK'
  <2>1. \A v \in Threads : pc'[v] = "find" => work'[v] # Null
    BY <1>3 DEF IInv, ThreadsOK
  <2>2. \A v \in (Workers \cup Accepters) \ workThreads' : pc'[v] = "none"
    BY <1>3 DEF IInv, ThreadsOK, Threads
  <2> QED BY <2>1, <2>2 DEF ThreadsOK
<1>7. ClosedLast'
  BY <1>3 DEF IInv, ClosedLast, Threads
<1> QED BY <1>4, <1>5, <1>6, <1>7 DEF IInv

LEMMA TestOK ==
  ASSUME IInv, ended = "no", NEW t \in Threads, Test(t)
  PROVE  IInv'
<1>1. PICK l \in {"take", "done"} : Goto(t, l)
  BY DEF Test
<1>2. SlotsOK'
  BY NoTraffic, PushedNumbers DEF Test, Pushed, users
<1> QED BY <1>1, <1>2, ThreadStep DEF Test, flags, traffic, IInv, OnlyStartUpEnds

LEMMA ServeOK ==
  ASSUME IInv, ended = "no", NEW t \in Threads, Serve(t)
  PROVE  IInv'
<1>1. PICK l \in {"test", "acquire"} : Goto(t, l)
  BY DEF Serve
<1>2. SlotsOK'
  BY NoTraffic, PushedNumbers DEF Serve, Pushed, users
<1> QED BY <1>1, <1>2, ThreadStep DEF Serve, flags, traffic, IInv, OnlyStartUpEnds

LEMMA PermitReturnedOK ==
  ASSUME IInv, ended = "no", NEW t \in Threads, PermitReturned(t)
  PROVE  IInv'
<1>1. SlotsOK'
  BY NoTraffic, PushedNumbers DEF PermitReturned, Pushed, users
<1> QED BY <1>1, ThreadStep DEF PermitReturned, flags, traffic, IInv, OnlyStartUpEnds

LEMMA AcceptOK ==
  ASSUME IInv, ended = "no", NEW a \in Threads, Accept(a)
  PROVE  IInv'
<1>1. Pushed' = Pushed /\ UNCHANGED <<mainPc, work, connected, iocp>>
  BY DEF Accept, Pushed, users
<1>2. AcceptQueue' \in Seq(Pushed) /\ listening' \subseteq Pushed
  <2>1. CASE AcceptQueue = <<>>
    BY <2>1 DEF Accept, IInv, SlotsOK
  <2>2. CASE AcceptQueue # <<>>
    <3>1. Head(AcceptQueue) \in Pushed /\ Tail(AcceptQueue) \in Seq(Pushed)
      BY <2>2, HeadTailType DEF IInv, SlotsOK
    <3>2. /\ AcceptQueue' = Tail(AcceptQueue)
          /\ listening' = listening \cup {Head(AcceptQueue)}
      BY <2>2 DEF Accept
    <3> QED BY <3>1, <3>2 DEF IInv, SlotsOK
  <2> QED BY <2>1, <2>2
<1>3. SlotsOK'
  BY <1>1, <1>2 DEF IInv, SlotsOK
<1> QED BY <1>3, ThreadStep DEF Accept, flags, IInv, OnlyStartUpEnds

LEMMA DequeueOK ==
  ASSUME IInv, ended = "no", NEW w \in Threads, w \in Workers, Dequeue(w)
  PROVE  IInv'
<1> DEFINE Completions == Pushed \X Kinds
<1>1. /\ pc[w] = "take"
      /\ UNCHANGED <<mainPc, i, port, bound, workThreads, AccepterRun, redisRun, users,
                     AcceptQueue, listening, connected>>
  BY DEF Dequeue
<1>2. Pushed' = Pushed /\ Pushed \subseteq Numbers
  BY <1>1, PushedNumbers DEF Pushed, users
<1>3. Null \notin Completions
  BY <1>2, CountsAssumption DEF Kinds
<1>4. /\ work \in [Threads -> {Null} \cup Completions]
      /\ iocp \in Seq({Null} \cup Completions)
      /\ mainPc \notin Ending => iocp \in Seq(Completions)
  BY DEF IInv, SlotsOK
<1> HIDE DEF Completions
<1>5. ASSUME iocp # <<>>, iocp' = Tail(iocp)
      PROVE  /\ Head(iocp) \in {Null} \cup Completions
             /\ iocp' \in Seq({Null} \cup Completions)
             /\ mainPc \notin Ending => iocp' \in Seq(Completions) /\ Head(iocp) # Null
  BY <1>3, <1>4, <1>5, HeadTailType
<1>6. CASE port = "open" /\ Head(iocp) = Null
  <2>1. iocp # <<>> /\ iocp' = Tail(iocp) /\ WorkRun' = FALSE /\ Goto(w, "test")
        /\ UNCHANGED <<work, ended>>
    BY <1>6 DEF Dequeue
  <2>2. mainPc \in Ending /\ iocp' \in Seq({Null} \cup Completions)
    BY <1>5, <1>6, <2>1
  <2>3. SlotsOK'
    BY <1>1, <1>2, <2>1, <2>2 DEF IInv, SlotsOK, Completions
  <2>4. TypeOK'
    <3>1. pc' \in [Threads -> {"none", "test", "take", "find", "acquire", "done"}]
      BY <2>1 DEF IInv, TypeOK, Goto
    <3>2. iocp' \in Seq({Null} \cup Numbers \X {"ACCEPT", "RECV"})
      BY <2>1, HeadTailType DEF IInv, TypeOK
    <3> QED BY <1>1, <2>1, <3>1, <3>2 DEF IInv, TypeOK, users
  <2>5. MainOK' /\ OnlyStartUpEnds'
    BY <1>1, <1>2, <2>1 DEF IInv, MainOK, OnlyStartUpEnds, users
  <2>6. ThreadsOK' /\ ClosedLast' /\ RunsUntilEnd'
    BY <1>1, <1>6, <2>1, <2>2
       DEF Goto, IInv, TypeOK, ThreadsOK, ClosedLast, RunsUntilEnd, Ending
  <2> QED BY <2>3, <2>4, <2>5, <2>6 DEF IInv
<1>7. CASE port = "open" /\ Head(iocp) # Null
  <2>1. /\ iocp # <<>> /\ iocp' = Tail(iocp) /\ WorkRun' = WorkRun /\ Goto(w, "find")
        /\ work' = [work EXCEPT ![w] = Head(iocp)] /\ UNCHANGED ended
    BY <1>7 DEF Dequeue
  <2>2. /\ work' \in [Threads -> {Null} \cup Completions] /\ work'[w] # Null
        /\ \A v \in Threads \ {w} : work'[v] = work[v]
    BY <1>4, <1>5, <1>7, <2>1
  <2>3. SlotsOK'
    BY <1>1, <1>2, <1>5, <2>1, <2>2 DEF IInv, SlotsOK, Completions
  <2> QED BY <1>1, <2>1, <2>2, <2>3, ThreadStep DEF IInv, OnlyStartUpEnds
<1>8. CASE port # "open"
  <2>1. ended' = "noPort" /\ UNCHANGED <<pc, work, iocp, WorkRun>>
    BY <1>8 DEF Dequeue
  <2>2. port = "invalid"
    BY <1>1, <1>8 DEF IInv, TypeOK, ClosedLast
  <2>3. SlotsOK' /\ TypeOK' /\ MainOK'
    BY <1>1, <1>2, <2>1 DEF IInv, SlotsOK, TypeOK, MainOK, users
  <2>4. ThreadsOK' /\ OnlyStartUpEnds' /\ ClosedLast' /\ RunsUntilEnd'
    BY <1>1, <2>1, <2>2 DEF IInv, ThreadsOK, OnlyStartUpEnds, ClosedLast, RunsUntilEnd
  <2> QED BY <2>3, <2>4 DEF IInv
<1> QED BY <1>6, <1>7, <1>8

\* The one user that is pushed and not inserted is looked up in vain.
LEMMA HandleOK ==
  ASSUME IInv, ended = "no", NEW w \in Threads, w \in Workers, Handle(w)
  PROVE  IInv'
<1>1. /\ pc[w] = "find" /\ Goto(w, "test") /\ work' = [work EXCEPT ![w] = Null]
      /\ UNCHANGED <<mainPc, i, port, bound, workThreads, flags, users, listening, iocp>>
  BY DEF Handle
<1>2. Pushed' = Pushed
  BY <1>1 DEF Pushed, users
<1>3. PICK s : s = work[w][1]
  OBVIOUS
<1>4. s \in Pushed
  BY <1>1, <1>3 DEF IInv, SlotsOK, ThreadsOK
<1>5. connUsersManager
  BY <1>4 DEF IInv, MainOK
<1>6. s \notin ConnUsers => mainPc = "insert"
  BY <1>4 DEF Pushed
<1>7. \/ ended' = "noUser" /\ s \notin ConnUsers /\ UNCHANGED <<connected, AcceptQueue>>
      \/ connected' = connected \cup {s} /\ UNCHANGED <<AcceptQueue, ended>>
      \/ AcceptQueue' = Append(AcceptQueue, s) /\ UNCHANGED <<connected, ended>>
  BY <1>3, <1>5 DEF Handle
<1>8. OnlyStartUpEnds' /\ ended' \in {"no", "noUser"}
  BY <1>1, <1>6, <1>7 DEF IInv, OnlyStartUpEnds
<1>9. /\ work' \in [Threads -> {Null} \cup (Pushed \X Kinds)]
      /\ \A v \in Threads \ {w} : work'[v] = work[v]
  BY <1>1 DEF IInv, SlotsOK
<1>10. AcceptQueue' \in Seq(Pushed) /\ connected' \subseteq Pushed
  BY <1>4, <1>7, AppendType DEF IInv, SlotsOK
<1>11. SlotsOK'
  BY <1>1, <1>2, <1>9, <1>10 DEF IInv, SlotsOK
<1> QED BY <1>1, <1>8, <1>9, <1>11, ThreadStep DEF flags

LEMMA ClientOK ==
  ASSUME IInv, ended = "no", Client
  PROVE  IInv'
<1>1. /\ port = "open"
      /\ UNCHANGED <<mainPc, i, port, bound, workThreads, flags, users, AcceptQueue, work, pc,
                     ended>>
  BY DEF Client
<1>2. Pushed' = Pushed /\ Pushed \subseteq Numbers
  BY <1>1, PushedNumbers DEF Pushed, users
<1>3. PICK s \in Pushed, k \in Kinds : iocp' = Append(iocp, <<s, k>>)
  BY DEF Client, Kinds, IInv, SlotsOK
<1>4. listening' \subseteq Pushed /\ connected' \subseteq Pushed
  BY DEF Client, IInv, SlotsOK
<1>5. <<s, k>> \in Pushed \X Kinds
  OBVIOUS
<1>6. /\ iocp' \in Seq({Null} \cup (Pushed \X Kinds))
      /\ mainPc \notin Ending => iocp' \in Seq(Pushed \X Kinds)
  <2> DEFINE c == <<s, k>>
             Completions == Pushed \X Kinds
  <2>1. iocp' = Append(iocp, c) /\ c \in Completions
    BY <1>3, <1>5
  <2> HIDE DEF c
  <2>2. /\ iocp \in Seq({Null} \cup Completions)
        /\ mainPc \notin Ending => iocp \in Seq(Completions)
    BY DEF IInv, SlotsOK
  <2> HIDE DEF Completions
  <2>3. /\ iocp' \in Seq({Null} \cup Completions)
        /\ mainPc \notin Ending => iocp' \in Seq(Completions)
    BY <2>1, <2>2, AppendType
  <2> QED BY <2>3 DEF Completions
<1>7. SlotsOK'
  BY <1>1, <1>2, <1>4, <1>6 DEF IInv, SlotsOK
<1>8. TypeOK'
  <2>1. iocp' \in Seq({Null} \cup Numbers \X {"ACCEPT", "RECV"})
    <3>1. {Null} \cup (Pushed \X Kinds) \subseteq {Null} \cup Numbers \X {"ACCEPT", "RECV"}
      BY <1>2 DEF Kinds
    <3> QED BY <1>6, <3>1, SeqOfLarger
  <2> QED BY <1>1, <1>2, <1>4, <2>1 DEF IInv, TypeOK, flags, users
<1>9. MainOK' /\ ThreadsOK'
  BY <1>1, <1>2 DEF IInv, MainOK, ThreadsOK, users
<1>10. OnlyStartUpEnds' /\ ClosedLast' /\ RunsUntilEnd'
  BY <1>1 DEF IInv, OnlyStartUpEnds, ClosedLast, RunsUntilEnd, flags
<1> QED BY <1>7, <1>8, <1>9, <1>10 DEF IInv

LEMMA StepIInv ==
  ASSUME IInv, [Next]_vars
  PROVE  IInv'
<1>1. CASE ended = "no" /\ Main
  BY <1>1, InitServerOK, RedisRunOK, CreateWorkThreadOK, CreateAccepterThreadOK,
     NewConnUsersManagerOK, PushUserOK, InsertUserOK, EndOK, JoinAndCloseOK, RedisEndOK,
     RedisJoinOK DEF Main
<1>2. CASE ended = "no" /\ (Typed \/ Client \/ \E t \in RedisThreads : PermitReturned(t))
  BY <1>2, TypedOK, ClientOK, PermitReturnedOK DEF Threads
<1>3. CASE \E t \in Threads : Step(t)
  BY <1>3, TestOK, DequeueOK, HandleOK, AcceptOK, ServeOK DEF Step
<1>4. CASE UNCHANGED vars
  <2>1. Pushed' = Pushed
    BY <1>4 DEF vars, Pushed
  <2> QED BY <1>4, <2>1 DEF vars, IInv, TypeOK, SlotsOK, MainOK, ThreadsOK, OnlyStartUpEnds,
                            ClosedLast, RunsUntilEnd
<1> QED BY <1>1, <1>2, <1>3, <1>4 DEF Next

LEMMA Invariance == Spec => []IInv
  BY InitIInv, StepIInv, PTL DEF Spec

-----------------------------------------------------------------------------
(* Theorems.                                                                *)

\* Types: every slot in the queue of the accepters, in the completion port or in
\* a worker's hands is one that StartWork has created and does not leave out.
THEOREM TypeCorrect == Spec => []TypeOK
<1>1. IInv => TypeOK
  BY DEF IInv
<1> QED BY <1>1, Invariance, PTL

\* Once init() has opened the port, nothing but a client served between push and
\* insert of its slot ends the process before its time (StartWork, WorkThread).
THEOREM StartUpEnds == Spec => []OnlyStartUpEnds
<1>1. IInv => OnlyStartUpEnds
  BY DEF IInv
<1> QED BY <1>1, Invariance, PTL

\* The port is closed after the last worker and accepter has left its loop,
\* however many of them were begun (ServerEnd).
THEOREM PortClosedLast == Spec => []ClosedLast
<1>1. IInv => ClosedLast
  BY DEF IInv
<1> QED BY <1>1, Invariance, PTL

\* Until ServerEnd no completion ends the workers' loop (WorkThread).
THEOREM WorkersRunUntilEnd == Spec => []RunsUntilEnd
<1>1. IInv => RunsUntilEnd
  BY DEF IInv
<1> QED BY <1>1, Invariance, PTL
=============================================================================

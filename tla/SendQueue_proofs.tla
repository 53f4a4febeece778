-------------------------- MODULE SendQueue_proofs --------------------------
(***************************************************************************)
(* Theorems about SendQueue, for any finite sets of Redis threads and       *)
(* workers, any number of logins, and any number of clients of the slot.    *)
(***************************************************************************)
EXTENDS SendQueue, FiniteSetTheorems, SequenceTheorems, TLAPS

(* The inductive invariant: besides the properties themselves, what a       *)
(* thread has at its next step, and that a disconnected slot is not the     *)
(* last client's.                                                           *)

Labels == {"idle", "push", "add", "sub", "load", "pop", "send"}

HoldsWhileSending == \A t \in Threads : pc[t] = "send" <=> held[t] # NoMsg

HasToPush == \A t \in Threads : pc[t] = "push" => t \in Pushers /\ todo[t] # <<>>

NotLastSession == ~connected => session < MaxSessions

IInv == /\ TypeOK
        /\ HoldsWhileSending
        /\ HasToPush
        /\ NotLastSession
        /\ OnePlace
        /\ SizeCounts

-----------------------------------------------------------------------------
(* Counting threads.                                                        *)

LEMMA FiniteThreadSets ==
  ASSUME NEW S, S \subseteq Threads
  PROVE  IsFiniteSet(S) /\ Cardinality(S) \in Nat
<1>1. IsFiniteSet(Threads)
  BY ThreadsAssumption, FS_Union DEF Threads
<1> QED BY <1>1, FS_Subset, FS_CardinalityType

LEMMA AtFinite ==
  ASSUME NEW l
  PROVE  At(l) \subseteq Threads /\ Cardinality(At(l)) \in Nat
  BY FiniteThreadSets DEF At

\* A thread that moves leaves the set of threads at its old place and enters
\* that at its new one.
LEMMA AtMoves ==
  ASSUME pc \in [Threads -> Labels],
         NEW t \in Threads, NEW to, pc[t] # to, pc' = [pc EXCEPT ![t] = to], NEW l
  PROVE  Cardinality(At(l)') = IF l = to THEN Cardinality(At(l)) + 1
                               ELSE IF l = pc[t] THEN Cardinality(At(l)) - 1
                               ELSE Cardinality(At(l))
<1>1. IsFiniteSet(At(l)) /\ Cardinality(At(l)) \in Nat
  BY FiniteThreadSets DEF At
<1>2. CASE l = to
  <2>1. At(l)' = At(l) \cup {t} /\ t \notin At(l)
    BY <1>2 DEF At
  <2> QED BY <1>1, <1>2, <2>1, FS_AddElement
<1>3. CASE l # to /\ l = pc[t]
  <2>1. At(l)' = At(l) \ {t} /\ t \in At(l)
    BY <1>3 DEF At
  <2> QED BY <1>1, <1>3, <2>1, FS_RemoveElement
<1>4. CASE l # to /\ l # pc[t]
  <2>1. At(l)' = At(l)
    BY <1>4 DEF At
  <2> QED BY <1>4, <2>1
<1> QED BY <1>2, <1>3, <1>4

\* Sets of numbers up to n are finite.
LEMMA FiniteUpTo ==
  ASSUME NEW n \in Int, NEW S, S \subseteq 1..n
  PROVE  IsFiniteSet(S) /\ Cardinality(S) \in Nat
<1>1. IsFiniteSet(1..n)
  BY FS_Interval
<1> QED BY <1>1, FS_Subset, FS_CardinalityType

-----------------------------------------------------------------------------
(* The counter, modulo its width: adding to it, or subtracting from it, and *)
(* the opposite to what it is compared with.                                *)

LEMMA SizeRange ==
  ASSUME NEW s \in Int
  PROVE  s % SizeModulus \in Int /\ s % SizeModulus \in 0..(SizeModulus - 1)
<1>1. \A m \in Nat \ {0} : s % m \in Int /\ s % m \in 0..(m - 1)
  OBVIOUS
<1>2. SizeModulus \in Nat \ {0}
  BY DEF SizeModulus
<1> QED BY <1>1, <1>2

LEMMA CountUp ==
  ASSUME NEW s \in Int, NEW a \in Int, (s + a) % SizeModulus = 0
  PROVE  (((s + 1) % SizeModulus) + (a - 1)) % SizeModulus = 0
  BY DEF SizeModulus

LEMMA CountDown ==
  ASSUME NEW s \in Int, NEW a \in Int, (s + a) % SizeModulus = 0
  PROVE  (((s - 1) % SizeModulus) + (a + 1)) % SizeModulus = 0
  BY DEF SizeModulus

-----------------------------------------------------------------------------
(* Lengths and ranges that follow from the types.                           *)

LEMMA Lengths ==
  ASSUME TypeOK
  PROVE  /\ Len(pushed) \in Nat /\ Messages = 1..Len(pushed)
         /\ Len(sendQueue) \in Nat /\ DOMAIN sendQueue = 1..Len(sendQueue)
         /\ Popped \in Int
<1>1. Len(pushed) \in Nat /\ Messages = 1..Len(pushed)
  BY LenProperties DEF TypeOK, Messages
<1>2. Len(sendQueue) \in Nat /\ DOMAIN sendQueue = 1..Len(sendQueue)
  BY LenProperties DEF TypeOK
<1> QED BY <1>1, <1>2 DEF Popped

LEMMA SendsFinite ==
  ASSUME TypeOK, OnePlace
  PROVE  /\ IsFiniteSet(pending) /\ Cardinality(pending) \in Nat
         /\ IsFiniteSet(lost) /\ Cardinality(lost) \in Nat
<1>1. Popped \in Int
  BY Lengths
<1> QED BY <1>1, FiniteUpTo DEF OnePlace

\* The place a thread returns to is one of "push", with something to push, and
\* "idle".
LEMMA Returns ==
  ASSUME NEW t \in Threads
  PROVE  /\ Return(t) \in {"idle", "push"}
         /\ Return(t) = "push" => t \in Pushers /\ todo[t] # <<>>
  BY DEF Return

-----------------------------------------------------------------------------
LEMMA InitIInv == Init => IInv
<1> SUFFICES ASSUME Init PROVE IInv
  OBVIOUS
<1> USE DEF Init
<1>1. TypeOK
  <2>1. pc \in [Threads -> {"idle", "push", "add", "sub", "load", "pop", "send"}]
    OBVIOUS
  <2>2. held \in [Threads -> Messages \cup {NoMsg}]
    OBVIOUS
  <2>3. todo \in [Pushers -> Seq(1..session)]
    BY EmptySeq
  <2>4. sendQueue \in Seq(Messages) /\ wire \in Seq(Messages) /\ pushed \in Seq(1..session)
    BY EmptySeq
  <2>5. sendQueueSize \in 0..(SizeModulus - 1)
    BY DEF SizeModulus
  <2>6. session \in 1..MaxSessions /\ logins \in 0..MaxLogins
    BY BoundsAssumption
  <2>7. connected \in BOOLEAN /\ pending \subseteq Messages /\ lost \subseteq Messages
    OBVIOUS
  <2> QED BY <2>1, <2>2, <2>3, <2>4, <2>5, <2>6, <2>7 DEF TypeOK
<1>2. Len(sendQueue) = 0 /\ DOMAIN sendQueue = {} /\ Len(pushed) = 0
  BY <1>1, EmptySeq, Lengths
<1>3. HoldsWhileSending /\ HasToPush /\ NotLastSession
  BY DEF HoldsWhileSending, HasToPush, NotLastSession
<1>4. OnePlace
  BY <1>2 DEF OnePlace
<1>5. SizeCounts
  <2>1. At("add") = {} /\ At("sub") = {} /\ At("send") = {}
    BY DEF At
  <2>2. /\ Cardinality(At("add")) = 0 /\ Cardinality(At("sub")) = 0
        /\ Cardinality(At("send")) = 0 /\ Cardinality(pending) = 0 /\ Cardinality(lost) = 0
    BY <2>1, FS_EmptySet
  <2>3. sendQueueSize = 0
    OBVIOUS
  <2> QED BY ONLY <1>2, <2>2, <2>3 DEF SizeCounts, SizeModulus
<1> QED BY <1>1, <1>3, <1>4, <1>5 DEF IInv

-----------------------------------------------------------------------------
(* Steps.  Every action moves one thread (its pc, and held[t] or todo[t]),  *)
(* or none.                                                                 *)

LEMMA PcMoves ==
  ASSUME pc \in [Threads -> Labels], NEW t \in Threads, NEW to \in Labels,
         pc' = [pc EXCEPT ![t] = to]
  PROVE  /\ pc' \in [Threads -> Labels]
         /\ pc'[t] = to /\ \A u \in Threads \ {t} : pc'[u] = pc[u]
  OBVIOUS

\* The invariants about single threads after a step of t that leaves held and
\* todo alone.
LEMMA ThreadStep ==
  ASSUME HoldsWhileSending, HasToPush,
         NEW t \in Threads, pc[t] # "send",
         pc'[t] # "send", \A u \in Threads \ {t} : pc'[u] = pc[u],
         UNCHANGED <<held, todo>>,
         pc'[t] = "push" => t \in Pushers /\ todo[t] # <<>>
  PROVE  HoldsWhileSending' /\ HasToPush'
  BY DEF HoldsWhileSending, HasToPush

\* What sendQueueSize is too large by.
Excess == sendQueueSize + Cardinality(At("add"))
            - Len(sendQueue) - Cardinality(At("send")) - Cardinality(pending)
            - Cardinality(lost) - Cardinality(At("sub"))

CountsAreInts == /\ sendQueueSize \in Int /\ Len(sendQueue) \in Int
                 /\ Cardinality(At("add")) \in Int /\ Cardinality(At("sub")) \in Int
                 /\ Cardinality(At("send")) \in Int
                 /\ Cardinality(pending) \in Int /\ Cardinality(lost) \in Int

LEMMA Counts == IInv => CountsAreInts
<1> SUFFICES ASSUME IInv PROVE CountsAreInts
  OBVIOUS
<1>1. TypeOK /\ OnePlace
  BY DEF IInv
<1>2. sendQueueSize \in Int
  <2>1. sendQueueSize \in 0..(SizeModulus - 1)
    BY <1>1 DEF TypeOK
  <2>2. \A m \in Nat : 0..(m - 1) \subseteq Int
    OBVIOUS
  <2>3. SizeModulus \in Nat
    BY DEF SizeModulus
  <2> QED BY <2>1, <2>2, <2>3
<1>3. Len(sendQueue) \in Nat
  BY <1>1, Lengths
<1>4. Cardinality(pending) \in Nat /\ Cardinality(lost) \in Nat
  BY <1>1, SendsFinite
<1> QED BY <1>2, <1>3, <1>4, AtFinite DEF CountsAreInts

\* A step that keeps the excess keeps SizeCounts.
LEMMA SameExcess ==
  ASSUME SizeCounts, Excess' = Excess
  PROVE  SizeCounts'
  BY DEF SizeCounts, Excess

\* So does one that moves a thread between places that do not count.
LEMMA SameCounts ==
  ASSUME SizeCounts, pc \in [Threads -> Labels], NEW t \in Threads, NEW to, pc[t] # to,
         pc' = [pc EXCEPT ![t] = to],
         pc[t] \notin {"add", "sub", "send"}, to \notin {"add", "sub", "send"},
         UNCHANGED <<sendQueue, sendQueueSize, pending, lost>>
  PROVE  SizeCounts'
<1>1. /\ Cardinality(At("add")') = Cardinality(At("add"))
      /\ Cardinality(At("sub")') = Cardinality(At("sub"))
      /\ Cardinality(At("send")') = Cardinality(At("send"))
  <2>1. \A l \in {"add", "sub", "send"} : l # to /\ l # pc[t]
    OBVIOUS
  <2> QED BY <2>1, AtMoves
<1>2. Excess' = Excess
  BY <1>1 DEF Excess
<1> QED BY <1>2, SameExcess

-----------------------------------------------------------------------------
(* PushSendMsg.                                                             *)

LEMMA LoginIInv ==
  ASSUME IInv, NEW p \in Pushers, Login(p)
  PROVE  IInv'
<1>1. TypeOK /\ HoldsWhileSending /\ HasToPush /\ NotLastSession /\ OnePlace /\ SizeCounts
  BY DEF IInv
<1>2. /\ p \in Threads /\ pc \in [Threads -> Labels] /\ todo \in [Pushers -> Seq(1..session)]
      /\ session \in 1..MaxSessions /\ logins \in 0..MaxLogins
  BY <1>1 DEF Threads, TypeOK, Labels
<1>3. /\ pc[p] = "idle" /\ logins < MaxLogins /\ logins' = logins + 1
      /\ pc' = [pc EXCEPT ![p] = "push"]
      /\ UNCHANGED <<sendQueue, sendQueueSize, held, session, connected, pending, wire, pushed,
                     lost, overtaken>>
  BY DEF Login
<1>4. PICK k \in Answers : todo' = [todo EXCEPT ![p] = [i \in 1..k |-> session]]
  BY DEF Login
<1>5. k \in Nat /\ k > 0
  BY AnswersAssumption DEF Failure, Success
<1>6. /\ [i \in 1..k |-> session] \in Seq(1..session)
      /\ [i \in 1..k |-> session] # <<>>
  <2>1. session \in 1..session
    BY <1>2
  <2> DEFINE answer == [i \in 1..k |-> session]
  <2>2. answer \in Seq(1..session)
    BY <1>5, <2>1
  <2>3. Len(answer) = k
    BY <1>5
  <2>4. answer # <<>>
    BY <1>5, <2>2, <2>3, EmptySeq
  <2> QED BY <2>2, <2>4
<1>7. todo' \in [Pushers -> Seq(1..session)] /\ todo'[p] # <<>>
      /\ \A q \in Pushers \ {p} : todo'[q] = todo[q]
  BY <1>2, <1>4, <1>6
<1>8. /\ pc' \in [Threads -> Labels]
      /\ pc'[p] = "push" /\ \A u \in Threads \ {p} : pc'[u] = pc[u]
  BY <1>2, <1>3, PcMoves DEF Labels
<1>9. TypeOK'
  <2>1. logins' \in 0..MaxLogins
    BY <1>2, <1>3, BoundsAssumption
  <2> QED BY <1>1, <1>3, <1>7, <1>8, <2>1 DEF TypeOK, Messages, Labels
<1>10. HoldsWhileSending'
  BY <1>1, <1>3, <1>8, <1>2 DEF HoldsWhileSending
<1>11. HasToPush'
  BY <1>1, <1>7, <1>8, <1>2 DEF HasToPush
<1>12. NotLastSession' /\ OnePlace'
  BY <1>1, <1>3 DEF NotLastSession, OnePlace, Popped
<1>13. SizeCounts'
  BY <1>1, <1>2, <1>3, SameCounts
<1> QED BY <1>9, <1>10, <1>11, <1>12, <1>13 DEF IInv

LEMMA PushIInv ==
  ASSUME IInv, NEW p \in Pushers, Push(p)
  PROVE  IInv'
<1>1. TypeOK /\ HoldsWhileSending /\ HasToPush /\ NotLastSession /\ OnePlace /\ SizeCounts
  BY DEF IInv
<1>2. /\ p \in Threads /\ pc \in [Threads -> Labels] /\ todo \in [Pushers -> Seq(1..session)]
      /\ pushed \in Seq(1..session)
  BY <1>1 DEF Threads, TypeOK, Labels
<1>3. /\ pc[p] = "push" /\ pc' = [pc EXCEPT ![p] = "add"]
      /\ pushed' = Append(pushed, Head(todo[p]))
      /\ sendQueue' = Append(sendQueue, Len(pushed) + 1)
      /\ todo' = [todo EXCEPT ![p] = Tail(@)]
      /\ UNCHANGED <<sendQueueSize, held, session, connected, pending, wire, lost, overtaken,
                     logins>>
  BY DEF Push
<1>4. /\ Len(pushed) \in Nat /\ Messages = 1..Len(pushed)
      /\ Len(sendQueue) \in Nat /\ DOMAIN sendQueue = 1..Len(sendQueue)
  BY <1>1, Lengths
<1>5. todo[p] \in Seq(1..session) /\ todo[p] # <<>>
  BY <1>1, <1>2, <1>3 DEF HasToPush
<1>6. Head(todo[p]) \in 1..session /\ Tail(todo[p]) \in Seq(1..session)
  BY <1>5, HeadTailProperties
<1>7. pushed' \in Seq(1..session) /\ Len(pushed') = Len(pushed) + 1
  BY <1>2, <1>3, <1>6, AppendProperties
<1>8. Messages' = 1..(Len(pushed) + 1) /\ Messages \subseteq Messages'
  <2>1. DOMAIN pushed' = 1..Len(pushed')
    BY <1>7, LenProperties
  <2>2. Messages' = 1..(Len(pushed) + 1)
    BY <1>7, <2>1 DEF Messages
  <2> QED BY <1>4, <2>2
<1>9. sendQueue \in Seq(Messages') /\ wire \in Seq(Messages')
  <2>1. sendQueue \in Seq(Messages) /\ wire \in Seq(Messages)
    BY <1>1 DEF TypeOK
  <2> QED BY <1>8, <2>1, SeqMonotonic
<1>10. /\ sendQueue' \in Seq(Messages') /\ Len(sendQueue') = Len(sendQueue) + 1
       /\ \A i \in 1..Len(sendQueue) : sendQueue'[i] = sendQueue[i]
       /\ sendQueue'[Len(sendQueue) + 1] = Len(pushed) + 1
  <2>1. Len(pushed) + 1 \in Messages'
    BY <1>4, <1>8
  <2> QED BY <1>3, <1>9, <2>1, AppendProperties
<1>11. /\ pc' \in [Threads -> Labels]
       /\ pc'[p] = "add" /\ \A u \in Threads \ {p} : pc'[u] = pc[u]
  BY <1>2, <1>3, PcMoves DEF Labels
<1>12. todo' \in [Pushers -> Seq(1..session)] /\ \A q \in Pushers \ {p} : todo'[q] = todo[q]
  BY <1>2, <1>3, <1>6
<1>13. TypeOK'
  <2>1. held' \in [Threads -> Messages' \cup {NoMsg}]
    <3>1. held \in [Threads -> Messages \cup {NoMsg}]
      BY <1>1 DEF TypeOK
    <3> QED BY <1>3, <1>8, <3>1
  <2>2. /\ pending' \subseteq Messages' /\ lost' \subseteq Messages'
        /\ overtaken' \subseteq SUBSET Messages'
    BY <1>1, <1>3, <1>8 DEF TypeOK
  <2>3. /\ sendQueueSize' \in 0..(SizeModulus - 1) /\ session' \in 1..MaxSessions
        /\ connected' \in BOOLEAN /\ logins' \in 0..MaxLogins
    BY <1>1, <1>3 DEF TypeOK
  <2> QED BY <1>3, <1>7, <1>9, <1>10, <1>11, <1>12, <2>1, <2>2, <2>3 DEF TypeOK, Labels
<1>14. OnePlace'
  <2>1. Popped' = Popped
    BY <1>4, <1>7, <1>10 DEF Popped
  <2>2. DOMAIN sendQueue' = 1..(Len(sendQueue) + 1)
    BY <1>10, LenProperties
  <2>3. \A i \in DOMAIN sendQueue : sendQueue[i] = Popped + i
    BY <1>1 DEF OnePlace
  <2>4. sendQueue'[Len(sendQueue) + 1] = Popped + (Len(sendQueue) + 1)
    BY <1>4, <1>10 DEF Popped
  <2>5. \A i \in DOMAIN sendQueue' : sendQueue'[i] = Popped' + i
    <3> TAKE i \in DOMAIN sendQueue'
    <3>1. CASE i \in 1..Len(sendQueue)
      BY ONLY <3>1, <1>4, <1>10, <2>1, <2>3
    <3>2. CASE i = Len(sendQueue) + 1
      BY ONLY <3>2, <2>1, <2>4
    <3>3. i \in 1..Len(sendQueue) \/ i = Len(sendQueue) + 1
      BY <1>4, <2>2
    <3> QED BY <3>1, <3>2, <3>3
  <2> QED BY <1>1, <1>3, <2>1, <2>5 DEF OnePlace
<1>15. HoldsWhileSending'
  BY <1>1, <1>2, <1>3, <1>11 DEF HoldsWhileSending
<1>16. HasToPush'
  BY <1>1, <1>2, <1>11, <1>12 DEF HasToPush
<1>17. NotLastSession'
  BY <1>1, <1>3 DEF NotLastSession
<1>18. SizeCounts'
  <2>1. /\ Cardinality(At("add")') = Cardinality(At("add")) + 1
        /\ Cardinality(At("sub")') = Cardinality(At("sub"))
        /\ Cardinality(At("send")') = Cardinality(At("send"))
    BY <1>2, <1>3, AtMoves, ZenonT(30)
  <2>2. Excess' = Excess
    <3>1. CountsAreInts
      BY Counts
    <3>2. /\ sendQueueSize' = sendQueueSize
          /\ Cardinality(pending') = Cardinality(pending)
          /\ Cardinality(lost') = Cardinality(lost)
      BY <1>3
    <3> QED BY ONLY <1>10, <2>1, <3>1, <3>2 DEF Excess, CountsAreInts
  <2> QED BY <1>1, <2>2, SameExcess
<1> QED BY <1>13, <1>14, <1>15, <1>16, <1>17, <1>18 DEF IInv

LEMMA AddIInv ==
  ASSUME IInv, NEW p \in Pushers, Add(p)
  PROVE  IInv'
<1>1. TypeOK /\ HoldsWhileSending /\ HasToPush /\ NotLastSession /\ OnePlace /\ SizeCounts
  BY DEF IInv
<1>2. p \in Threads /\ pc \in [Threads -> Labels] /\ sendQueueSize \in Int
  BY <1>1, Counts DEF Threads, TypeOK, Labels, CountsAreInts
<1>3. /\ pc[p] = "add" /\ pc' = [pc EXCEPT ![p] = "load"]
      /\ sendQueueSize' = (sendQueueSize + 1) % SizeModulus
      /\ UNCHANGED <<sendQueue, held, todo, session, connected, pending, wire, pushed, lost,
                     overtaken, logins>>
  BY DEF Add
<1>4. /\ pc' \in [Threads -> Labels]
      /\ pc'[p] = "load" /\ \A u \in Threads \ {p} : pc'[u] = pc[u]
  BY <1>2, <1>3, PcMoves DEF Labels
<1>5. TypeOK'
  <2>1. sendQueueSize' \in 0..(SizeModulus - 1)
    BY <1>2, <1>3, SizeRange
  <2> QED BY <1>1, <1>3, <1>4, <2>1 DEF TypeOK, Messages, Labels
<1>6. HoldsWhileSending' /\ HasToPush'
  BY <1>1, <1>2, <1>3, <1>4, ThreadStep
<1>7. NotLastSession' /\ OnePlace'
  BY <1>1, <1>3 DEF NotLastSession, OnePlace, Popped
<1>8. SizeCounts'
  <2>1. /\ Cardinality(At("add")') = Cardinality(At("add")) - 1
        /\ Cardinality(At("sub")') = Cardinality(At("sub"))
        /\ Cardinality(At("send")') = Cardinality(At("send"))
    BY <1>2, <1>3, AtMoves, ZenonT(30)
  <2> DEFINE rest == Excess - sendQueueSize
  <2>2. rest \in Int /\ Excess = sendQueueSize + rest
    BY Counts DEF Excess, CountsAreInts
  <2>3. (((sendQueueSize + 1) % SizeModulus) + (rest - 1)) % SizeModulus = 0
    <3>1. (sendQueueSize + rest) % SizeModulus = 0
      BY <1>1, <2>2 DEF SizeCounts, Excess
    <3> HIDE DEF rest
    <3> QED BY <1>2, <2>2, <3>1, CountUp
  <2>4. Excess' = sendQueueSize' + (rest - 1)
    <3>1. sendQueueSize' \in Int
      BY <1>2, <1>3, SizeRange
    <3>2. /\ Len(sendQueue') = Len(sendQueue) /\ Cardinality(pending') = Cardinality(pending)
          /\ Cardinality(lost') = Cardinality(lost)
      BY <1>3
    <3>3. CountsAreInts
      BY Counts
    <3> QED BY ONLY <1>2, <2>1, <3>1, <3>2, <3>3, SMTT(30) DEF Excess, CountsAreInts
  <2> QED BY <1>3, <2>3, <2>4 DEF SizeCounts, Excess
<1> QED BY <1>5, <1>6, <1>7, <1>8 DEF IInv

-----------------------------------------------------------------------------
(* SendComplete.                                                            *)

LEMMA CompleteIInv ==
  ASSUME IInv, NEW w \in Workers, Complete(w)
  PROVE  IInv'
<1>1. TypeOK /\ HoldsWhileSending /\ HasToPush /\ NotLastSession /\ OnePlace /\ SizeCounts
  BY DEF IInv
<1>2. w \in Threads /\ pc \in [Threads -> Labels]
  BY <1>1 DEF Threads, TypeOK, Labels
<1>3. /\ pc[w] = "idle" /\ pc' = [pc EXCEPT ![w] = "sub"]
      /\ UNCHANGED <<sendQueue, sendQueueSize, held, todo, session, connected, wire, pushed,
                     lost, overtaken, logins>>
  BY DEF Complete
<1>4. PICK m \in pending : pending' = pending \ {m}
  BY DEF Complete
<1>5. /\ pc' \in [Threads -> Labels]
      /\ pc'[w] = "sub" /\ \A u \in Threads \ {w} : pc'[u] = pc[u]
  BY <1>2, <1>3, PcMoves DEF Labels
<1>6. TypeOK'
  <2>1. pending' \subseteq Messages
    BY <1>1, <1>4 DEF TypeOK
  <2> QED BY <1>1, <1>3, <1>5, <2>1 DEF TypeOK, Messages, Labels
<1>7. HoldsWhileSending' /\ HasToPush'
  BY <1>1, <1>2, <1>3, <1>5, ThreadStep
<1>8. NotLastSession'
  BY <1>1, <1>3 DEF NotLastSession
<1>9. OnePlace'
  BY <1>1, <1>3, <1>4 DEF OnePlace, Popped
<1>10. SizeCounts'
  <2>1. /\ Cardinality(At("add")') = Cardinality(At("add"))
        /\ Cardinality(At("sub")') = Cardinality(At("sub")) + 1
        /\ Cardinality(At("send")') = Cardinality(At("send"))
    BY <1>2, <1>3, AtMoves, ZenonT(30)
  <2>2. Cardinality(pending') = Cardinality(pending) - 1
    <3>1. IsFiniteSet(pending)
      BY <1>1, SendsFinite
    <3>2. Cardinality(pending \ {m}) = Cardinality(pending) - 1
      BY <3>1, FS_RemoveElement
    <3> QED BY <1>4, <3>2
  <2>3. Excess' = Excess
    <3>1. CountsAreInts
      BY Counts
    <3>2. /\ sendQueueSize' = sendQueueSize
          /\ Len(sendQueue') = Len(sendQueue)
          /\ Cardinality(lost') = Cardinality(lost)
      BY <1>3
    <3>3. Excess' = sendQueueSize + Cardinality(At("add")) - Len(sendQueue)
                      - Cardinality(At("send")) - (Cardinality(pending) - 1)
                      - Cardinality(lost) - (Cardinality(At("sub")) + 1)
      BY ONLY <2>1, <2>2, <3>2 DEF Excess
    <3> QED BY ONLY <3>1, <3>3, SMTT(30) DEF Excess, CountsAreInts
  <2> QED BY <1>1, <2>3, SameExcess
<1> QED BY <1>6, <1>7, <1>8, <1>9, <1>10 DEF IInv

LEMMA SubIInv ==
  ASSUME IInv, NEW w \in Workers, Sub(w)
  PROVE  IInv'
<1>1. TypeOK /\ HoldsWhileSending /\ HasToPush /\ NotLastSession /\ OnePlace /\ SizeCounts
  BY DEF IInv
<1>2. w \in Threads /\ pc \in [Threads -> Labels] /\ sendQueueSize \in Int
  BY <1>1, Counts DEF Threads, TypeOK, Labels, CountsAreInts
<1>3. /\ pc[w] = "sub" /\ pc' = [pc EXCEPT ![w] = "load"]
      /\ sendQueueSize' = (sendQueueSize - 1) % SizeModulus
      /\ UNCHANGED <<sendQueue, held, todo, session, connected, pending, wire, pushed, lost,
                     overtaken, logins>>
  BY DEF Sub
<1>4. /\ pc' \in [Threads -> Labels]
      /\ pc'[w] = "load" /\ \A u \in Threads \ {w} : pc'[u] = pc[u]
  BY <1>2, <1>3, PcMoves DEF Labels
<1>5. TypeOK'
  <2>1. sendQueueSize' \in 0..(SizeModulus - 1)
    BY <1>2, <1>3, SizeRange
  <2> QED BY <1>1, <1>3, <1>4, <2>1 DEF TypeOK, Messages, Labels
<1>6. HoldsWhileSending' /\ HasToPush'
  BY <1>1, <1>2, <1>3, <1>4, ThreadStep
<1>7. NotLastSession' /\ OnePlace'
  BY <1>1, <1>3 DEF NotLastSession, OnePlace, Popped
<1>8. SizeCounts'
  <2>1. /\ Cardinality(At("add")') = Cardinality(At("add"))
        /\ Cardinality(At("sub")') = Cardinality(At("sub")) - 1
        /\ Cardinality(At("send")') = Cardinality(At("send"))
    BY <1>2, <1>3, AtMoves, ZenonT(30)
  <2> DEFINE rest == Excess - sendQueueSize
  <2>2. rest \in Int /\ Excess = sendQueueSize + rest
    BY Counts DEF Excess, CountsAreInts
  <2>3. (((sendQueueSize - 1) % SizeModulus) + (rest + 1)) % SizeModulus = 0
    <3>1. (sendQueueSize + rest) % SizeModulus = 0
      BY <1>1, <2>2 DEF SizeCounts, Excess
    <3> HIDE DEF rest
    <3> QED BY <1>2, <2>2, <3>1, CountDown
  <2>4. Excess' = sendQueueSize' + (rest + 1)
    <3>1. sendQueueSize' \in Int
      BY <1>2, <1>3, SizeRange
    <3>2. /\ Len(sendQueue') = Len(sendQueue) /\ Cardinality(pending') = Cardinality(pending)
          /\ Cardinality(lost') = Cardinality(lost)
      BY <1>3
    <3>3. CountsAreInts
      BY Counts
    <3> QED BY ONLY <1>2, <2>1, <3>1, <3>2, <3>3 DEF Excess, CountsAreInts
  <2> QED BY <1>3, <2>3, <2>4 DEF SizeCounts, Excess
<1> QED BY <1>5, <1>6, <1>7, <1>8 DEF IInv

-----------------------------------------------------------------------------
(* The end of both, and ProcSend.                                           *)

LEMMA LoadIInv ==
  ASSUME IInv, NEW t \in Threads, Load(t)
  PROVE  IInv'
<1>1. TypeOK /\ HoldsWhileSending /\ HasToPush /\ NotLastSession /\ OnePlace /\ SizeCounts
  BY DEF IInv
<1>2. pc \in [Threads -> Labels]
  BY <1>1 DEF TypeOK, Labels
<1>3. /\ pc[t] = "load"
      /\ UNCHANGED <<sendQueue, sendQueueSize, held, todo, session, connected, pending, wire,
                     pushed, lost, overtaken, logins>>
  BY DEF Load
<1> DEFINE to == IF sendQueueSize = 1 THEN "pop" ELSE Return(t)
<1>4. /\ to \in {"pop", "idle", "push"} /\ pc' = [pc EXCEPT ![t] = to]
      /\ to = "push" => t \in Pushers /\ todo[t] # <<>>
  <2>1. pc' = [pc EXCEPT ![t] = to]
    BY DEF Load
  <2>2. CASE sendQueueSize = 1
    <3>1. to = "pop"
      BY <2>2
    <3> HIDE DEF to
    <3> QED BY <2>1, <3>1
  <2>3. CASE sendQueueSize # 1
    <3>1. to = Return(t)
      BY <2>3
    <3> HIDE DEF to
    <3> QED BY <2>1, <3>1, Returns
  <2> QED BY <2>2, <2>3
<1> HIDE DEF to
<1>5. /\ pc' \in [Threads -> Labels]
      /\ pc'[t] = to /\ \A u \in Threads \ {t} : pc'[u] = pc[u]
  <2>1. to \in Labels
    BY <1>4 DEF Labels
  <2> QED BY <1>2, <1>4, <2>1, PcMoves
<1>6. TypeOK'
  BY <1>1, <1>3, <1>5 DEF TypeOK, Messages, Labels
<1>7. HoldsWhileSending' /\ HasToPush'
  BY <1>1, <1>3, <1>4, <1>5, ThreadStep
<1>8. NotLastSession' /\ OnePlace'
  BY <1>1, <1>3 DEF NotLastSession, OnePlace, Popped
<1>9. SizeCounts'
  BY <1>1, <1>2, <1>3, <1>4, SameCounts
<1> QED BY <1>6, <1>7, <1>8, <1>9 DEF IInv

LEMMA PopIInv ==
  ASSUME IInv, NEW t \in Threads, Pop(t)
  PROVE  IInv'
<1>1. TypeOK /\ HoldsWhileSending /\ HasToPush /\ NotLastSession /\ OnePlace /\ SizeCounts
  BY DEF IInv
<1>2. /\ pc \in [Threads -> Labels] /\ held \in [Threads -> Messages \cup {NoMsg}]
      /\ sendQueue \in Seq(Messages)
  BY <1>1 DEF TypeOK, Labels
<1>3. /\ pc[t] = "pop"
      /\ UNCHANGED <<sendQueueSize, todo, session, connected, pending, wire, pushed, lost,
                     overtaken, logins>>
  BY DEF Pop
<1>4. CASE sendQueue = <<>>
  <2>1. PICK to : /\ to \in {"idle", "push"} /\ pc' = [pc EXCEPT ![t] = to]
                  /\ to = "push" => t \in Pushers /\ todo[t] # <<>>
    BY <1>4, Returns DEF Pop
  <2>2. UNCHANGED <<sendQueue, held>>
    BY <1>4 DEF Pop
  <2>3. /\ pc' \in [Threads -> Labels]
        /\ pc'[t] = to /\ \A u \in Threads \ {t} : pc'[u] = pc[u]
    <3>1. to \in Labels
      BY <2>1 DEF Labels
    <3> QED BY <1>2, <2>1, <3>1, PcMoves
  <2>4. TypeOK'
    BY <1>1, <1>3, <2>2, <2>3 DEF TypeOK, Messages, Labels
  <2>5. HoldsWhileSending' /\ HasToPush'
    BY <1>1, <1>3, <2>1, <2>2, <2>3, ThreadStep
  <2>6. NotLastSession' /\ OnePlace'
    BY <1>1, <1>3, <2>2 DEF NotLastSession, OnePlace, Popped
  <2>7. SizeCounts'
    BY <1>1, <1>2, <1>3, <2>1, <2>2, SameCounts
  <2> QED BY <2>4, <2>5, <2>6, <2>7 DEF IInv
<1>5. CASE sendQueue # <<>>
  <2>1. /\ held' = [held EXCEPT ![t] = Head(sendQueue)]
        /\ sendQueue' = Tail(sendQueue)
        /\ pc' = [pc EXCEPT ![t] = "send"]
    BY <1>5 DEF Pop
  <2>2. /\ pc' \in [Threads -> Labels]
        /\ pc'[t] = "send" /\ \A u \in Threads \ {t} : pc'[u] = pc[u]
    BY <1>2, <2>1, PcMoves DEF Labels
  <2>3. /\ Head(sendQueue) \in Messages /\ sendQueue' \in Seq(Messages)
        /\ Len(sendQueue') = Len(sendQueue) - 1
        /\ \A i \in 1..Len(sendQueue') : sendQueue'[i] = sendQueue[i + 1]
    BY <1>2, <1>5, <2>1, HeadTailProperties
  <2>4. /\ Len(pushed) \in Nat /\ Messages = 1..Len(pushed)
        /\ Len(sendQueue) \in Nat /\ DOMAIN sendQueue = 1..Len(sendQueue)
    BY <1>1, Lengths
  <2>5. DOMAIN sendQueue' = 1..Len(sendQueue') /\ Len(sendQueue') \in Nat
    BY <2>3, LenProperties
  <2>6. Popped \in Int /\ Popped' = Popped + 1
    BY <1>3, <2>3, <2>4 DEF Popped
  \* The message popped is the first that was not.
  <2>7. Head(sendQueue) = Popped + 1
    <3>1. Head(sendQueue) = sendQueue[1] /\ 1 \in DOMAIN sendQueue
      BY <1>2, <1>5, <2>3, <2>4, <2>5
    <3> QED BY <1>1, <3>1 DEF OnePlace
  <2>8. /\ held' \in [Threads -> Messages \cup {NoMsg}]
        /\ held'[t] = Popped + 1 /\ \A u \in Threads \ {t} : held'[u] = held[u]
    BY <1>2, <2>1, <2>3, <2>7
  <2>9. held'[t] # NoMsg
    BY <2>3, <2>4, <2>7, <2>8, BoundsAssumption
  <2>10. TypeOK'
    <3>1. Messages' = Messages
      BY <1>3 DEF Messages
    <3>2. sendQueue' \in Seq(Messages') /\ held' \in [Threads -> Messages' \cup {NoMsg}]
      BY <2>3, <2>8, <3>1
    <3> QED BY <1>1, <1>3, <2>2, <3>1, <3>2 DEF TypeOK, Labels
  <2>11. HoldsWhileSending'
    BY <1>1, <2>2, <2>8, <2>9 DEF HoldsWhileSending
  <2>12. HasToPush' /\ NotLastSession'
    BY <1>1, <1>3, <2>2 DEF HasToPush, NotLastSession
  <2>13. OnePlace'
    <3>1. \A i \in DOMAIN sendQueue' : sendQueue'[i] = Popped' + i
      <4> TAKE i \in DOMAIN sendQueue'
      <4>1. i + 1 \in DOMAIN sendQueue /\ i \in Int
        BY <2>3, <2>4, <2>5
      <4>2. sendQueue[i + 1] = Popped + (i + 1)
        BY <1>1, <4>1 DEF OnePlace
      <4>3. sendQueue'[i] = sendQueue[i + 1]
        BY <2>3, <2>5
      <4> QED BY <2>6, <4>1, <4>2, <4>3
    <3>2. /\ pending \cup lost \subseteq 1..Popped /\ pending \cap lost = {}
          /\ \A u \in Threads : held[u] # NoMsg => held[u] \in 1..Popped
      BY <1>1 DEF OnePlace
    <3>3. 1..Popped \subseteq 1..Popped' /\ Popped + 1 \notin 1..Popped
      BY <2>6
    <3>4. Popped + 1 \in 1..Popped'
      BY <2>3, <2>4, <2>6, <2>7
    <3>5. pending' \cup lost' \subseteq 1..Popped' /\ pending' \cap lost' = {}
      BY <1>3, <3>2, <3>3
    <3>6. \A u \in Threads : held'[u] # NoMsg =>
            /\ held'[u] \in (1..Popped') \ (pending' \cup lost')
            /\ \A v \in Threads \ {u} : held'[v] # held'[u]
      <4>1. ASSUME NEW u \in Threads, held'[u] # NoMsg
            PROVE  /\ held'[u] \in (1..Popped') \ (pending' \cup lost')
                   /\ \A v \in Threads \ {u} : held'[v] # held'[u]
        <5>1. CASE u = t
          BY <1>3, <2>8, <2>9, <3>2, <3>3, <3>4, <5>1
        <5>2. CASE u # t
          <6>1. /\ held'[u] = held[u] /\ held[u] \in (1..Popped) \ (pending \cup lost)
                /\ \A v \in Threads \ {u} : held[v] # held[u]
            BY <1>1, <2>8, <4>1, <5>2 DEF OnePlace
          <6> QED BY <1>3, <2>8, <3>3, <5>2, <6>1
        <5> QED BY <5>1, <5>2
      <4> QED BY <4>1
    <3> QED BY <3>1, <3>5, <3>6 DEF OnePlace
  <2>14. SizeCounts'
    <3>1. /\ Cardinality(At("add")') = Cardinality(At("add"))
          /\ Cardinality(At("sub")') = Cardinality(At("sub"))
          /\ Cardinality(At("send")') = Cardinality(At("send")) + 1
      BY <1>2, <1>3, <2>1, AtMoves
    <3>2. Excess' = Excess
      <4>1. CountsAreInts
        BY Counts
      <4>2. /\ sendQueueSize' = sendQueueSize
            /\ Cardinality(pending') = Cardinality(pending)
            /\ Cardinality(lost') = Cardinality(lost)
        BY <1>3
      <4> QED BY ONLY <2>3, <3>1, <4>1, <4>2 DEF Excess, CountsAreInts
    <3> QED BY <1>1, <3>2, SameExcess
  <2> QED BY <2>10, <2>11, <2>12, <2>13, <2>14 DEF IInv
<1> QED BY <1>4, <1>5

LEMMA WSASendIInv ==
  ASSUME IInv, NEW t \in Threads, WSASend(t)
  PROVE  IInv'
<1>1. TypeOK /\ HoldsWhileSending /\ HasToPush /\ NotLastSession /\ OnePlace /\ SizeCounts
  BY DEF IInv
<1>2. /\ pc \in [Threads -> Labels] /\ held \in [Threads -> Messages \cup {NoMsg}]
      /\ wire \in Seq(Messages) /\ pending \subseteq Messages /\ lost \subseteq Messages
  BY <1>1 DEF TypeOK, Labels
<1>3. /\ pc[t] = "send" /\ held' = [held EXCEPT ![t] = NoMsg]
      /\ UNCHANGED <<sendQueue, sendQueueSize, todo, session, connected, pushed, logins>>
  BY DEF WSASend
<1>4. PICK to : /\ to \in {"idle", "push"} /\ pc' = [pc EXCEPT ![t] = to]
                /\ to = "push" => t \in Pushers /\ todo[t] # <<>>
  BY Returns DEF WSASend
<1>5. /\ pc' \in [Threads -> Labels]
      /\ pc'[t] = to /\ \A u \in Threads \ {t} : pc'[u] = pc[u]
  <2>1. to \in Labels
    BY <1>4 DEF Labels
  <2> QED BY <1>2, <1>4, <2>1, PcMoves
<1>6. /\ held' \in [Threads -> Messages \cup {NoMsg}]
      /\ held'[t] = NoMsg /\ \A u \in Threads \ {t} : held'[u] = held[u]
  BY <1>2, <1>3
\* The thread holds a message, and that is no other thread's and not yet sent.
<1>7. /\ held[t] # NoMsg /\ held[t] \in Messages
      /\ held[t] \in (1..Popped) \ (pending \cup lost)
      /\ \A u \in Threads \ {t} : held[u] # held[t]
  <2>1. held[t] # NoMsg
    BY <1>1, <1>3 DEF HoldsWhileSending
  <2> QED BY <1>1, <1>2, <2>1 DEF OnePlace
<1>8. \/ /\ wire' = Append(wire, held[t])
         /\ pending' = pending \cup {held[t]} /\ lost' = lost
      \/ wire' = wire /\ pending' = pending /\ lost' = lost \cup {held[t]}
  BY DEF WSASend
<1>9. TypeOK'
  <2>1. Messages' = Messages
    BY <1>3 DEF Messages
  <2>2. wire' \in Seq(Messages)
    BY <1>2, <1>7, <1>8, AppendProperties
  <2>3. pending' \subseteq Messages /\ lost' \subseteq Messages
    BY <1>2, <1>7, <1>8
  <2>4. overtaken' \subseteq SUBSET Messages
    <3>1. InHands \subseteq Messages /\ held[t] \in Messages
      BY <1>2, <1>7 DEF InHands, Range
    <3>2. overtaken \subseteq SUBSET Messages
      BY <1>1 DEF TypeOK
    <3>3. \/ overtaken' = overtaken
          \/ overtaken' = overtaken \cup {{held[t], m} : m \in {k \in InHands : k < held[t]}}
      BY DEF WSASend
    <3> QED BY <3>1, <3>2, <3>3
  <2> QED BY <1>1, <1>3, <1>5, <1>6, <2>1, <2>2, <2>3, <2>4 DEF TypeOK, Labels
<1>10. HoldsWhileSending'
  BY <1>1, <1>4, <1>5, <1>6 DEF HoldsWhileSending
<1>11. HasToPush' /\ NotLastSession'
  BY <1>1, <1>3, <1>4, <1>5 DEF HasToPush, NotLastSession
<1>12. OnePlace'
  <2>1. Popped' = Popped
    BY <1>3 DEF Popped
  <2>2. pending' \cup lost' = pending \cup lost \cup {held[t]} /\ pending' \cap lost' = {}
    BY <1>1, <1>7, <1>8 DEF OnePlace
  <2>3. pending' \cup lost' \subseteq 1..Popped'
    BY <1>1, <1>7, <2>1, <2>2 DEF OnePlace
  <2>4. \A i \in DOMAIN sendQueue' : sendQueue'[i] = Popped' + i
    BY <1>1, <1>3, <2>1 DEF OnePlace
  <2>5. ASSUME NEW u \in Threads, held'[u] # NoMsg
        PROVE  /\ held'[u] \in (1..Popped') \ (pending' \cup lost')
               /\ \A v \in Threads \ {u} : held'[v] # held'[u]
    <3>1. u # t /\ held'[u] = held[u]
      BY <1>6, <2>5
    <3>2. /\ held[u] \in (1..Popped) \ (pending \cup lost)
          /\ \A v \in Threads \ {u} : held[v] # held[u]
      BY <1>1, <2>5, <3>1 DEF OnePlace
    <3> QED BY <1>6, <1>7, <2>1, <2>2, <2>5, <3>1, <3>2
  <2> QED BY <2>2, <2>3, <2>4, <2>5 DEF OnePlace
<1>13. SizeCounts'
  <2>1. /\ Cardinality(At("add")') = Cardinality(At("add"))
        /\ Cardinality(At("sub")') = Cardinality(At("sub"))
        /\ Cardinality(At("send")') = Cardinality(At("send")) - 1
    <3>1. \A l \in {"add", "sub", "send"} : l # to
      BY <1>4
    <3> QED BY <1>2, <1>3, <1>4, <3>1, AtMoves
  <2>2. /\ Cardinality(pending \cup {held[t]}) = Cardinality(pending) + 1
        /\ Cardinality(lost \cup {held[t]}) = Cardinality(lost) + 1
    <3>1. held[t] \notin pending /\ held[t] \notin lost
      BY <1>7
    <3>2. IsFiniteSet(pending) /\ IsFiniteSet(lost)
      BY <1>1, SendsFinite
    <3> QED BY <3>1, <3>2, FS_AddElement
  <2>3. \/ /\ Cardinality(pending') = Cardinality(pending) + 1
           /\ Cardinality(lost') = Cardinality(lost)
        \/ /\ Cardinality(pending') = Cardinality(pending)
           /\ Cardinality(lost') = Cardinality(lost) + 1
    BY <1>8, <2>2
  <2>4. Excess' = Excess
    <3>1. CountsAreInts
      BY Counts
    <3>2. /\ sendQueueSize' = sendQueueSize
          /\ Len(sendQueue') = Len(sendQueue)
      BY <1>3
    <3> QED BY ONLY <2>1, <2>3, <3>1, <3>2 DEF Excess, CountsAreInts
  <2> QED BY <1>1, <2>4, SameExcess
<1> QED BY <1>9, <1>10, <1>11, <1>12, <1>13 DEF IInv

-----------------------------------------------------------------------------
(* The slot's clients.                                                      *)

LEMMA ResetIInv ==
  ASSUME IInv, Reset
  PROVE  IInv'
<1>1. TypeOK /\ HoldsWhileSending /\ HasToPush /\ NotLastSession /\ OnePlace /\ SizeCounts
  BY DEF IInv
<1>2. /\ session < MaxSessions /\ connected' = FALSE
      /\ UNCHANGED <<sendQueue, sendQueueSize, pc, held, todo, session, wire, pushed, overtaken,
                     logins>>
  BY DEF Reset
<1>3. PICK failed \in SUBSET pending : pending' = pending \ failed /\ lost' = lost \cup failed
  BY DEF Reset
<1>4. TypeOK'
  <2>1. pending' \subseteq Messages /\ lost' \subseteq Messages
    BY <1>1, <1>3 DEF TypeOK
  <2> QED BY <1>1, <1>2, <2>1 DEF TypeOK, Messages
<1>5. HoldsWhileSending' /\ HasToPush' /\ NotLastSession'
  BY <1>1, <1>2 DEF HoldsWhileSending, HasToPush, NotLastSession
<1>6. OnePlace'
  <2>1. pending' \cup lost' = pending \cup lost /\ pending' \cap lost' = {}
    BY <1>1, <1>3 DEF OnePlace
  <2> QED BY <1>1, <1>2, <2>1 DEF OnePlace, Popped
<1>7. SizeCounts'
  <2>1. IsFiniteSet(pending) /\ IsFiniteSet(lost) /\ IsFiniteSet(failed)
    BY <1>1, SendsFinite, FS_Subset
  <2>2. pending \cap failed = failed /\ lost \cap failed = {}
    BY <1>1, <1>3 DEF OnePlace
  <2>3. Cardinality(pending') = Cardinality(pending) - Cardinality(failed)
    BY <1>3, <2>1, <2>2, FS_Difference
  <2>4. Cardinality(lost') = Cardinality(lost) + Cardinality(failed)
    <3>1. Cardinality(lost \cup failed) = Cardinality(lost) + Cardinality(failed) - Cardinality({})
      BY <2>1, <2>2, FS_Union
    <3> QED BY <1>3, <2>1, <3>1, FS_EmptySet, FS_CardinalityType
  <2>5. Cardinality(failed) \in Nat
    BY <2>1, FS_CardinalityType
  <2>6. \A l : At(l)' = At(l)
    BY <1>2 DEF At
  <2>7. Excess' = Excess
    <3>1. CountsAreInts
      BY Counts
    <3>2. /\ sendQueueSize' = sendQueueSize
          /\ Len(sendQueue') = Len(sendQueue)
          /\ Cardinality(At("add")') = Cardinality(At("add"))
          /\ Cardinality(At("sub")') = Cardinality(At("sub"))
          /\ Cardinality(At("send")') = Cardinality(At("send"))
      BY <1>2, <2>6
    <3> QED BY ONLY <2>3, <2>4, <2>5, <3>1, <3>2 DEF Excess, CountsAreInts
  <2> QED BY <1>1, <2>7, SameExcess
<1> QED BY <1>4, <1>5, <1>6, <1>7 DEF IInv

LEMMA AcceptIInv ==
  ASSUME IInv, Accept
  PROVE  IInv'
<1>1. TypeOK /\ HoldsWhileSending /\ HasToPush /\ NotLastSession /\ OnePlace /\ SizeCounts
  BY DEF IInv
<1>2. /\ ~connected /\ connected' = TRUE /\ session' = session + 1 /\ wire' = <<>>
      /\ overtaken' = {}
      /\ UNCHANGED <<sendQueue, sendQueueSize, pc, held, todo, pending, pushed, lost, logins>>
  BY DEF Accept
<1>3. session \in 1..MaxSessions /\ session < MaxSessions
  BY <1>1, <1>2 DEF TypeOK, NotLastSession
<1>4. session' \in 1..MaxSessions /\ 1..session \subseteq 1..session'
  BY <1>2, <1>3, BoundsAssumption
<1>5. TypeOK'
  <2>1. Messages' = Messages
    BY <1>2 DEF Messages
  <2>2. pushed' \in Seq(1..session')
    BY <1>1, <1>2, <1>4, SeqMonotonic DEF TypeOK
  <2>3. todo' \in [Pushers -> Seq(1..session')]
    <3>1. todo \in [Pushers -> Seq(1..session)]
      BY <1>1 DEF TypeOK
    <3>2. \A s \in Seq(1..session) : s \in Seq(1..session')
      BY <1>4, SeqMonotonic
    <3> QED BY <1>2, <3>1, <3>2
  <2>4. wire' \in Seq(Messages)
    BY <1>2, EmptySeq
  <2> QED BY <1>1, <1>2, <1>4, <2>1, <2>2, <2>3, <2>4 DEF TypeOK
<1>6. HoldsWhileSending' /\ HasToPush' /\ NotLastSession'
  BY <1>1, <1>2 DEF HoldsWhileSending, HasToPush, NotLastSession
<1>7. OnePlace' /\ SizeCounts'
  BY <1>1, <1>2 DEF OnePlace, Popped, SizeCounts, At
<1> QED BY <1>5, <1>6, <1>7 DEF IInv

-----------------------------------------------------------------------------
LEMMA NextIInv == IInv /\ [Next]_vars => IInv'
<1> SUFFICES ASSUME IInv, [Next]_vars PROVE IInv'
  OBVIOUS
<1>1. ASSUME NEW p \in Pushers, Login(p) \/ PushStep(p) PROVE IInv'
  BY <1>1, LoginIInv, PushIInv, AddIInv DEF PushStep
<1>2. ASSUME NEW w \in Workers, CompleteStep(w) PROVE IInv'
  BY <1>2, CompleteIInv, SubIInv DEF CompleteStep
<1>3. ASSUME NEW t \in Threads, SendStep(t) PROVE IInv'
  BY <1>3, LoadIInv, PopIInv, WSASendIInv DEF SendStep
<1>4. CASE Reset
  BY <1>4, ResetIInv
<1>5. CASE Accept
  BY <1>5, AcceptIInv
<1>6. CASE UNCHANGED vars
  BY <1>6 DEF vars, IInv, TypeOK, Messages, HoldsWhileSending, HasToPush, NotLastSession,
              OnePlace, Popped, SizeCounts, At
<1> QED BY <1>1, <1>2, <1>3, <1>4, <1>5, <1>6 DEF Next

LEMMA Invariance == Spec => []IInv
BY InitIInv, NextIInv, PTL DEF Spec

\* The type invariant of the send path.
THEOREM TypeCorrect == Spec => []TypeOK
<1>1. IInv => TypeOK
  BY DEF IInv
<1> QED BY <1>1, Invariance, PTL

\* sendQueueSize loses no update: up to the steps under way it is the number of
\* messages queued, being sent or lost, whatever the number of threads in
\* PushSendMsg and SendComplete and however often the slot changes its client.
THEOREM CounterExact == Spec => []SizeCounts
<1>1. IInv => SizeCounts
  BY DEF IInv
<1> QED BY <1>1, Invariance, PTL

\* No message is in two places: no two threads send the same one, none is sent
\* again once it was given to the socket, and the queue hands them out in order.
THEOREM EachOnce == Spec => []OnePlace
<1>1. IInv => OnePlace
  BY DEF IInv
<1> QED BY <1>1, Invariance, PTL

-----------------------------------------------------------------------------
(* The order on the wire.  What a thread holds may be older than what was   *)
(* sent before it, but it was in the thread's hands at that moment, which   *)
(* overtaken records.                                                       *)

OrderInv ==
  /\ InOrder
  /\ \A i \in DOMAIN wire : wire[i] \in 1..Popped
  /\ \A t \in Threads, i \in DOMAIN wire :
       held[t] # NoMsg /\ wire[i] > held[t] => {wire[i], held[t]} \in overtaken

\* Everything here is a number.
LEMMA Numbers ==
  ASSUME TypeOK
  PROVE  /\ Messages \subseteq Int /\ Popped \in Int
         /\ wire \in Seq(Messages) /\ Len(wire) \in Nat /\ DOMAIN wire = 1..Len(wire)
         /\ \A i \in DOMAIN wire : wire[i] \in Int
         /\ \A t \in Threads : held[t] # NoMsg => held[t] \in Int
<1>1. Messages \subseteq Int /\ Popped \in Int
  BY Lengths
<1>2. wire \in Seq(Messages) /\ Len(wire) \in Nat /\ DOMAIN wire = 1..Len(wire)
  BY LenProperties DEF TypeOK
<1>3. \A i \in DOMAIN wire : wire[i] \in Messages
  BY <1>2, ElementOfSeq
<1>4. \A t \in Threads : held[t] # NoMsg => held[t] \in Messages
  BY DEF TypeOK
<1> QED BY <1>1, <1>2, <1>3, <1>4

LEMMA InitOrder == Init => OrderInv
<1> SUFFICES ASSUME Init PROVE OrderInv
  OBVIOUS
<1>1. DOMAIN wire = {} /\ 1..Popped = {} /\ \A t \in Threads : held[t] = NoMsg
  <2>1. Len(pushed) = 0 /\ Len(sendQueue) = 0 /\ DOMAIN wire = {}
    BY EmptySeq DEF Init
  <2> QED BY <2>1 DEF Init, Popped
<1> QED BY <1>1 DEF OrderInv, InOrder

\* A step that pushes, pops and sends nothing.
LEMMA SameOrder ==
  ASSUME OrderInv, UNCHANGED <<connected, session, wire, pushed, held, sendQueue, overtaken>>
  PROVE  OrderInv'
  BY DEF OrderInv, InOrder, Popped, InHands, Range

LEMMA PushOrder ==
  ASSUME IInv, OrderInv, NEW p \in Pushers, Push(p)
  PROVE  OrderInv'
<1>1. TypeOK /\ HasToPush
  BY DEF IInv
<1>2. /\ UNCHANGED <<connected, session, wire, held, overtaken>>
      /\ pushed' = Append(pushed, Head(todo[p]))
      /\ sendQueue' = Append(sendQueue, Len(pushed) + 1)
  BY DEF Push
<1>3. pushed \in Seq(1..session) /\ Head(todo[p]) \in 1..session
  <2>1. todo[p] \in Seq(1..session) /\ todo[p] # <<>>
    BY <1>1 DEF TypeOK, HasToPush, Push, Threads
  <2> QED BY <1>1, <2>1, HeadTailProperties DEF TypeOK
<1>4. /\ Len(pushed) \in Nat /\ Len(sendQueue) \in Nat
      /\ Messages \subseteq Int /\ sendQueue \in Seq(Int)
  <2>1. sendQueue \in Seq(Messages) /\ Messages \subseteq Int
    BY <1>1, Lengths DEF TypeOK
  <2> QED BY <1>1, <2>1, Lengths, SeqMonotonic
<1>5. /\ Len(pushed') = Len(pushed) + 1 /\ Len(sendQueue') = Len(sendQueue) + 1
      /\ \A n \in 1..Len(pushed) : pushed'[n] = pushed[n]
  BY <1>2, <1>3, <1>4, AppendProperties
<1>6. Popped' = Popped /\ 1..Popped \subseteq 1..Len(pushed)
  BY <1>4, <1>5 DEF Popped
<1>7. InHands' = InHands
  BY <1>2 DEF InHands, Range
<1> QED BY <1>2, <1>5, <1>6, <1>7 DEF OrderInv, InOrder

LEMMA PopOrder ==
  ASSUME IInv, OrderInv, NEW t \in Threads, Pop(t)
  PROVE  OrderInv'
<1>1. TypeOK /\ OnePlace /\ HoldsWhileSending /\ pc[t] = "pop"
  BY DEF IInv, Pop
<1>2. UNCHANGED <<connected, session, wire, pushed, overtaken>>
  BY DEF Pop
<1>3. CASE sendQueue = <<>>
  BY <1>2, <1>3, SameOrder DEF Pop
<1>4. CASE sendQueue # <<>>
  <2>1. /\ held' = [held EXCEPT ![t] = Head(sendQueue)] /\ sendQueue' = Tail(sendQueue)
    BY <1>4 DEF Pop
  <2>2. /\ sendQueue \in Seq(Messages) /\ held \in [Threads -> Messages \cup {NoMsg}]
        /\ Len(sendQueue) \in Nat /\ Len(pushed) \in Nat
        /\ DOMAIN sendQueue = 1..Len(sendQueue)
    BY <1>1, Lengths DEF TypeOK
  <2>3. /\ Head(sendQueue) = Popped + 1 /\ Popped' = Popped + 1 /\ Popped \in Int
        /\ Head(sendQueue) \in Messages
    <3>1. /\ Head(sendQueue) = sendQueue[1] /\ 1 \in DOMAIN sendQueue
          /\ Len(Tail(sendQueue)) = Len(sendQueue) - 1 /\ Head(sendQueue) \in Messages
      BY <1>4, <2>2, HeadTailProperties, EmptySeq
    <3>2. sendQueue[1] = Popped + 1
      BY <1>1, <3>1 DEF OnePlace
    <3>3. Len(pushed') = Len(pushed) /\ Len(sendQueue') = Len(sendQueue) - 1
      BY <1>2, <2>1, <3>1
    <3> QED BY <2>2, <3>1, <3>2, <3>3 DEF Popped
  <2>4. held[t] = NoMsg /\ held'[t] = Popped + 1 /\ \A u \in Threads \ {t} : held'[u] = held[u]
    BY <1>1, <2>1, <2>2, <2>3 DEF HoldsWhileSending
  <2>5. InHands' = InHands \cup {Popped + 1}
    <3>1. \A m : m \in InHands <=> m # NoMsg /\ \E u \in Threads : held[u] = m
      BY <2>2 DEF InHands, Range
    <3>2. \A m : m \in InHands' <=> m # NoMsg /\ \E u \in Threads : held'[u] = m
      BY <2>1, <2>2 DEF InHands, Range
    <3>3. Popped + 1 # NoMsg
      BY <1>1, <2>3, Lengths, BoundsAssumption
    <3> QED BY <2>4, <3>1, <3>2, <3>3
  <2>6. 1..Popped' = 1..Popped \cup {Popped + 1}
    <3>1. Popped + 1 >= 1
      BY <1>1, <2>3, Lengths
    <3> QED BY <2>3, <3>1
  <2>7. InOrder'
    BY <1>2, <2>1, <2>5, <2>6 DEF OrderInv, InOrder
  <2>8. \A i \in DOMAIN wire' : wire'[i] \in 1..Popped'
    BY <1>2, <2>6 DEF OrderInv
  <2>9. \A u \in Threads, i \in DOMAIN wire' :
           held'[u] # NoMsg /\ wire'[i] > held'[u] => {wire'[i], held'[u]} \in overtaken'
    <3> TAKE u \in Threads, i \in DOMAIN wire'
    <3>1. CASE u = t
      <4>1. wire'[i] \in 1..Popped
        BY <1>2 DEF OrderInv
      <4> QED BY <2>3, <2>4, <3>1, <4>1
    <3>2. CASE u # t
      BY <1>2, <2>1, <2>4, <3>2 DEF OrderInv
    <3> QED BY <3>1, <3>2
  <2> QED BY <2>7, <2>8, <2>9 DEF OrderInv
<1> QED BY <1>3, <1>4

\* The message sent goes behind those on the wire, of which the newer ones were
\* sent while a thread had it in hands.
LEMMA WSASendOrder ==
  ASSUME IInv, OrderInv, NEW t \in Threads, WSASend(t)
  PROVE  OrderInv'
<1>1. TypeOK /\ OnePlace /\ held[t] # NoMsg
  BY DEF IInv, WSASend, HoldsWhileSending
<1>2. /\ UNCHANGED <<connected, session, pushed, sendQueue>>
      /\ held' = [held EXCEPT ![t] = NoMsg]
  BY DEF WSASend
<1>3. /\ held \in [Threads -> Messages \cup {NoMsg}]
      /\ held'[t] = NoMsg /\ \A u \in Threads \ {t} : held'[u] = held[u]
  BY <1>1, <1>2 DEF TypeOK
<1>4. Popped' = Popped
  BY <1>2 DEF Popped
<1>5. \A m : m \in InHands => m = held[t] \/ m \in InHands'
  BY <1>2, <1>3 DEF InHands, Range
<1>6. CASE connected
  <2>1. /\ wire' = Append(wire, held[t])
        /\ overtaken' = overtaken \cup {{held[t], m} : m \in {k \in InHands : k < held[t]}}
    BY <1>6 DEF WSASend
  <2>2. /\ held[t] \in Messages /\ held[t] \in 1..Popped
        /\ \A u \in Threads \ {t} : held[u] # held[t]
    BY <1>1, <1>3 DEF OnePlace
  <2>3. /\ Len(wire) \in Nat /\ DOMAIN wire = 1..Len(wire)
        /\ wire' \in Seq(Messages) /\ DOMAIN wire' = 1..(Len(wire) + 1)
        /\ \A i \in 1..Len(wire) : wire'[i] = wire[i]
        /\ wire'[Len(wire) + 1] = held[t]
    BY <1>1, <2>1, <2>2, Numbers, AppendProperties, LenProperties
  <2>4. \A i \in DOMAIN wire' : i \in Int /\ (i \in DOMAIN wire \/ i = Len(wire) + 1)
    BY <2>3
  <2>5. \A i \in DOMAIN wire' : wire'[i] \in 1..Popped'
    BY <1>4, <2>2, <2>3, <2>4 DEF OrderInv
  <2>6. \A i, j \in DOMAIN wire' :
          i < j /\ wire'[i] > wire'[j] => {wire'[i], wire'[j]} \in overtaken'
    <3> SUFFICES ASSUME NEW i \in DOMAIN wire', NEW j \in DOMAIN wire',
                        i < j, wire'[i] > wire'[j]
                 PROVE  {wire'[i], wire'[j]} \in overtaken'
      OBVIOUS
    <3>1. i \in DOMAIN wire /\ wire'[i] = wire[i]
      BY <2>3, <2>4
    <3>2. CASE j \in DOMAIN wire
      <4>1. wire'[j] = wire[j]
        BY <2>3, <3>2
      <4> QED BY <2>1, <3>1, <3>2, <4>1 DEF OrderInv, InOrder
    <3>3. CASE j = Len(wire) + 1
      BY <1>1, <2>1, <2>3, <3>1, <3>3 DEF OrderInv
    <3> QED BY <2>4, <3>2, <3>3
  <2>7. \A u \in Threads, i \in DOMAIN wire' :
          held'[u] # NoMsg /\ wire'[i] > held'[u] => {wire'[i], held'[u]} \in overtaken'
    <3> SUFFICES ASSUME NEW u \in Threads, NEW i \in DOMAIN wire',
                        held'[u] # NoMsg, wire'[i] > held'[u]
                 PROVE  {wire'[i], held'[u]} \in overtaken'
      OBVIOUS
    <3>1. u # t /\ held'[u] = held[u]
      BY <1>3
    <3>2. CASE i \in DOMAIN wire
      BY <2>1, <2>3, <3>1, <3>2 DEF OrderInv
    <3>3. CASE i = Len(wire) + 1
      <4>1. held[u] \in InHands /\ held[u] < held[t]
        BY <1>3, <2>3, <3>1, <3>3 DEF InHands, Range
      <4> QED BY <2>1, <2>3, <3>1, <3>3, <4>1
    <3> QED BY <2>4, <3>2, <3>3
  <2>8. \A n \in 1..Popped' : connected' /\ pushed'[n] = session' => n \in Range(wire') \cup InHands'
    <3>1. Range(wire') = Range(wire) \cup {held[t]}
      BY <2>3, <2>4 DEF Range
    <3> QED BY <1>2, <1>4, <1>5, <3>1 DEF OrderInv, InOrder
  <2> QED BY <2>5, <2>6, <2>7, <2>8 DEF OrderInv, InOrder
<1>7. CASE ~connected
  <2>1. wire' = wire /\ overtaken' = overtaken
    BY <1>7 DEF WSASend
  <2>2. InOrder'
    BY <1>2, <1>7, <2>1 DEF OrderInv, InOrder
  <2>3. \A u \in Threads, i \in DOMAIN wire' :
          held'[u] # NoMsg /\ wire'[i] > held'[u] => {wire'[i], held'[u]} \in overtaken'
    BY <1>2, <1>3, <2>1 DEF OrderInv
  <2> QED BY <1>4, <2>1, <2>2, <2>3 DEF OrderInv
<1> QED BY <1>6, <1>7

\* A new client has been sent nothing, and nothing was pushed for it.
LEMMA AcceptOrder ==
  ASSUME IInv, OrderInv, Accept
  PROVE  OrderInv'
<1>1. TypeOK
  BY DEF IInv
<1>2. /\ session' = session + 1 /\ wire' = <<>> /\ overtaken' = {}
      /\ UNCHANGED <<pushed, held, sendQueue>>
  BY DEF Accept
<1>3. DOMAIN wire' = {}
  BY <1>2, EmptySeq
<1>4. \A n \in 1..Popped' : pushed'[n] # session'
  <2>1. Popped' = Popped
    BY <1>2 DEF Popped
  <2>2. Popped \in Int /\ Len(sendQueue) \in Nat /\ Len(pushed) \in Nat
    BY <1>1, Lengths
  <2>3. 1..Popped \subseteq 1..Len(pushed)
    BY <2>2 DEF Popped
  <2>4. pushed \in Seq(1..session) /\ session \in Int
    BY <1>1 DEF TypeOK
  <2>5. \A n \in 1..Len(pushed) : pushed[n] \in 1..session
    BY <2>4, ElementOfSeq
  <2> QED BY <1>2, <2>1, <2>3, <2>4, <2>5
<1> QED BY <1>2, <1>3, <1>4 DEF OrderInv, InOrder

LEMMA StepOrder == IInv /\ OrderInv /\ [Next]_vars => OrderInv'
<1> SUFFICES ASSUME IInv, OrderInv, [Next]_vars PROVE OrderInv'
  OBVIOUS
<1>1. ASSUME NEW p \in Pushers, Push(p) PROVE OrderInv'
  BY <1>1, PushOrder
<1>2. ASSUME NEW t \in Threads, Pop(t) \/ WSASend(t) PROVE OrderInv'
  BY <1>2, PopOrder, WSASendOrder
<1>3. ASSUME NEW t, Login(t) \/ Add(t) \/ Complete(t) \/ Sub(t) \/ Load(t) PROVE OrderInv'
  BY <1>3, SameOrder DEF Login, Add, Complete, Sub, Load
<1>4. CASE Reset
  BY <1>4 DEF Reset, OrderInv, InOrder, Popped
<1>5. CASE Accept
  BY <1>5, AcceptOrder
<1>6. CASE UNCHANGED vars
  BY <1>6, SameOrder DEF vars
<1> QED BY <1>1, <1>2, <1>3, <1>4, <1>5, <1>6 DEF Next, PushStep, CompleteStep, SendStep

\* A message gets ahead of an older one on the wire only if it is sent while another
\* thread has the older one between the pop and the WSASend of ProcSend, and none of a client's
\* messages is skipped: for any numbers of threads, pipelined requests, answers
\* of one message or three, and any number of clients of the slot.
THEOREM OvertakingNeedsTwo == Spec => []InOrder
<1>1. OrderInv => InOrder
  BY DEF OrderInv
<1> QED BY <1>1, InitOrder, StepOrder, Invariance, PTL DEF Spec

=============================================================================

------------------------- MODULE CircularBuffer_proofs -------------------------
(***************************************************************************)
(* Theorems about CircularBuffer, for every size of the array and every     *)
(* size of what is written and read: a ring is a queue of its bytes.        *)
(***************************************************************************)
EXTENDS CircularBuffer, SequenceTheorems, TLAPS

\* The position k places after p.
Ahead(p, k) == (p + k) % bufferSize

\* What Written and Taken keep of a ring, besides its type: writePos follows the
\* last byte.
WellFormed(r) == r \in Ring /\ r.writePos = Ahead(r.readPos, r.currentSize)

\* No position a ring computes is more than once around.
LEMMA Wrap ==
  ASSUME NEW n \in Nat \ {0}, NEW x \in Nat, x < n + n
  PROVE  x % n = IF x < n THEN x ELSE x - n
<1>1. CASE x < n
  BY <1>1
<1>2. CASE n <= x
  BY <1>2
<1> QED BY <1>1, <1>2

LEMMA Position ==
  ASSUME bufferSize \in Nat \ {0}, NEW p \in Index, NEW k \in Nat, k <= bufferSize
  PROVE  /\ p \in Nat /\ p < bufferSize
         /\ Ahead(p, k) = IF p + k < bufferSize THEN p + k ELSE p + k - bufferSize
         /\ Ahead(p, k) \in Index
<1>1. p \in Nat /\ p < bufferSize
  BY DEF Index
<1>2. PICK x \in Nat : x = p + k
  BY <1>1
<1>3. x % bufferSize = IF x < bufferSize THEN x ELSE x - bufferSize
  <2>1. x < bufferSize + bufferSize
    BY <1>1, <1>2
  <2> QED BY <2>1, Wrap
<1>4. Ahead(p, k) = IF p + k < bufferSize THEN p + k ELSE p + k - bufferSize
  <2>1. Ahead(p, k) = x % bufferSize
    <3>1. Ahead(p, k) = (p + k) % bufferSize
      BY Zenon DEF Ahead
    <3>2. x = p + k
      BY <1>2
    <3>3. (p + k) % bufferSize = x % bufferSize
      BY <3>2, Zenon
    <3> QED BY <3>1, <3>3, Zenon
  <2>2. Ahead(p, k) = IF x < bufferSize THEN x ELSE x - bufferSize
    BY <1>3, <2>1, Zenon
  <2> QED BY <1>1, <1>2, <2>2
<1>5. Ahead(p, k) \in Index
  BY <1>1, <1>4 DEF Index
<1> QED BY <1>1, <1>4, <1>5

LEMMA Fields ==
  ASSUME bufferSize \in Nat \ {0}, NEW r, WellFormed(r)
  PROVE  /\ r.readPos \in Index /\ r.readPos \in Nat /\ r.readPos < bufferSize
         /\ r.writePos \in Index /\ r.writePos \in Nat /\ r.writePos < bufferSize
         /\ r.currentSize \in Nat /\ r.currentSize <= bufferSize
         /\ r.buffer \in [Index -> Byte]
  BY DEF WellFormed, Ring, Index

LEMMA FunctionIsSeq ==
  ASSUME NEW S, NEW n \in Nat, NEW f \in [1..n -> S]
  PROVE  f \in Seq(S) /\ Len(f) = n
  OBVIOUS

\* The bytes of the queue, one by one.
LEMMA ContentIs ==
  ASSUME bufferSize \in Nat \ {0}, NEW r, WellFormed(r)
  PROVE  /\ Content(r) \in Seq(Byte) /\ Len(Content(r)) = r.currentSize
         /\ \A k \in 1..r.currentSize : Content(r)[k] = r.buffer[Ahead(r.readPos, k - 1)]
<1>1. ASSUME NEW k \in 1..r.currentSize
      PROVE  /\ (r.readPos + k - 1) % bufferSize = Ahead(r.readPos, k - 1)
             /\ r.buffer[Ahead(r.readPos, k - 1)] \in Byte
  <2>1. r.readPos + k - 1 = r.readPos + (k - 1) /\ k - 1 \in Nat /\ k - 1 <= bufferSize
    BY <1>1, Fields
  <2>2. Ahead(r.readPos, k - 1) \in Index
    BY <2>1, Fields, Position
  <2> QED BY <2>1, <2>2, Fields DEF Ahead
<1>2. Content(r) = [k \in 1..r.currentSize |-> r.buffer[Ahead(r.readPos, k - 1)]]
  BY <1>1 DEF Content
<1>3. Content(r) \in [1..r.currentSize -> Byte] /\ r.currentSize \in Nat
  BY <1>1, <1>2, Fields
<1>4. Content(r) \in Seq(Byte) /\ Len(Content(r)) = r.currentSize
  BY <1>3, FunctionIsSeq
<1> QED BY <1>2, <1>4

-----------------------------------------------------------------------------
LEMMA WrittenFields ==
  ASSUME bufferSize \in Nat \ {0}, NEW r, WellFormed(r),
         NEW data \in Seq(Byte), HasRoom(r, Len(data)),
         NEW first, first = Fits(r.writePos, Len(data))
  PROVE  /\ Len(data) \in Nat /\ r.currentSize + Len(data) <= bufferSize
         /\ first \in Nat /\ first <= Len(data)
         /\ first = IF bufferSize - r.writePos >= Len(data) THEN Len(data)
                    ELSE bufferSize - r.writePos
         /\ Written(r, data).currentSize = r.currentSize + Len(data)
         /\ Written(r, data).readPos = r.readPos
         /\ Written(r, data).writePos = Ahead(r.writePos, Len(data))
         /\ Written(r, data).buffer =
              [i \in Index |-> IF i \in r.writePos..r.writePos + first - 1
                               THEN data[i - r.writePos + 1]
                               ELSE IF i < Len(data) - first THEN data[first + i + 1]
                               ELSE r.buffer[i]]
<1>1. Len(data) \in Nat /\ bufferSize - r.currentSize >= Len(data)
  BY DEF HasRoom
<1>2. first = IF bufferSize - r.writePos >= Len(data) THEN Len(data) ELSE bufferSize - r.writePos
  BY DEF Fits
<1>3. first \in Nat /\ first <= Len(data) /\ r.currentSize + Len(data) <= bufferSize
  BY <1>1, <1>2, Fields
<1>4. r \in [buffer : [Index -> Byte], writePos : Index, readPos : Index,
             currentSize : 0..bufferSize]
  BY DEF WellFormed, Ring
<1>5. PICK b : b = [i \in Index |-> IF i \in r.writePos..r.writePos + first - 1
                                     THEN data[i - r.writePos + 1]
                                     ELSE IF i < Len(data) - first THEN data[first + i + 1]
                                     ELSE r.buffer[i]]
  OBVIOUS
<1>6. PICK at : at = Ahead(r.writePos, Len(data))
  OBVIOUS
<1>7. Written(r, data) = [r EXCEPT !.buffer = b, !.writePos = at,
                                   !.currentSize = r.currentSize + Len(data)]
  BY <1>5, <1>6, Zenon DEF Written, Ahead
<1>8. /\ Written(r, data).currentSize = r.currentSize + Len(data)
      /\ Written(r, data).readPos = r.readPos
      /\ Written(r, data).writePos = at
      /\ Written(r, data).buffer = b
  BY <1>4, <1>7
<1> QED BY <1>1, <1>2, <1>3, <1>5, <1>6, <1>8, Zenon

\* A ring is its four fields, and what EXCEPT makes of them.
LEMMA SameRecord ==
  ASSUME NEW A, NEW B, NEW C, NEW r, NEW q,
         r \in [buffer : A, writePos : B, readPos : B, currentSize : C],
         q \in [buffer : A, writePos : B, readPos : B, currentSize : C],
         q.buffer = r.buffer, q.writePos = r.writePos, q.readPos = r.readPos,
         q.currentSize = r.currentSize
  PROVE  r = q
  OBVIOUS

LEMMA RingUpdate ==
  ASSUME NEW r \in Ring, NEW b \in [Index -> Byte], NEW at \in Index, NEW size \in 0..bufferSize
  PROVE  /\ [r EXCEPT !.buffer = b, !.writePos = at, !.currentSize = size] \in Ring
         /\ [r EXCEPT !.readPos = at, !.currentSize = size] \in Ring
         /\ [r EXCEPT !.readPos = at, !.currentSize = size]
              = [buffer |-> r.buffer, writePos |-> r.writePos, readPos |-> at,
                 currentSize |-> size]
<1>1. r \in [buffer : [Index -> Byte], writePos : Index, readPos : Index,
             currentSize : 0..bufferSize]
  BY DEF Ring
<1>2. r.buffer \in [Index -> Byte] /\ r.writePos \in Index
  BY <1>1
<1>3. /\ [r EXCEPT !.buffer = b, !.writePos = at, !.currentSize = size] \in Ring
      /\ [r EXCEPT !.readPos = at, !.currentSize = size] \in Ring
  <2>1. PICK A, B, C : A = [Index -> Byte] /\ B = Index /\ C = 0..bufferSize
    OBVIOUS
  <2>2. r \in [buffer : A, writePos : B, readPos : B, currentSize : C] /\ b \in A /\ at \in B /\ size \in C
    BY <1>1, <2>1, Zenon
  <2>3. Ring = [buffer : A, writePos : B, readPos : B, currentSize : C]
    BY <2>1, Zenon DEF Ring
  <2>4. /\ [r EXCEPT !.buffer = b, !.writePos = at, !.currentSize = size]
             \in [buffer : A, writePos : B, readPos : B, currentSize : C]
        /\ [r EXCEPT !.readPos = at, !.currentSize = size]
             \in [buffer : A, writePos : B, readPos : B, currentSize : C]
    BY <2>2
  <2> QED BY <2>3, <2>4, Zenon
<1>4. PICK q : q = [r EXCEPT !.readPos = at, !.currentSize = size]
  OBVIOUS
<1>5. PICK n : n = [buffer |-> r.buffer, writePos |-> r.writePos, readPos |-> at,
                    currentSize |-> size]
  OBVIOUS
<1>6. q.buffer = r.buffer /\ q.writePos = r.writePos /\ q.readPos = at /\ q.currentSize = size
  BY <1>1, <1>4
<1>7. n.buffer = r.buffer /\ n.writePos = r.writePos /\ n.readPos = at /\ n.currentSize = size
  BY <1>5
<1>8. n \in Ring
  BY <1>2, <1>5 DEF Ring
<1>9. q = n
  BY <1>3, <1>4, <1>6, <1>7, <1>8, SameRecord DEF Ring
<1> QED BY <1>3, <1>4, <1>5, <1>9

\* Write keeps a ring well formed: no position leaves the array and the size never
\* exceeds it (CircularBuffer::Write).
THEOREM WrittenKeeps ==
  ASSUME bufferSize \in Nat \ {0}, NEW r, WellFormed(r),
         NEW data \in Seq(Byte), HasRoom(r, Len(data))
  PROVE  WellFormed(Written(r, data)) /\ Written(r, data).currentSize = r.currentSize + Len(data)
<1> DEFINE m == Len(data)
           w == r.writePos
           first == Fits(w, m)
           new == Written(r, data)
<1>1. /\ m \in Nat /\ r.currentSize + m <= bufferSize /\ first \in Nat /\ first <= m
      /\ new.currentSize = r.currentSize + m /\ new.readPos = r.readPos
      /\ new.writePos = Ahead(w, m)
      /\ new.buffer = [i \in Index |-> IF i \in w..w + first - 1 THEN data[i - w + 1]
                                       ELSE IF i < m - first THEN data[first + i + 1]
                                       ELSE r.buffer[i]]
  BY WrittenFields
<1>2. ASSUME NEW i \in Index PROVE new.buffer[i] \in Byte
  <2>1. i \in Nat /\ \A j \in 1..m : data[j] \in Byte
    BY DEF Index
  <2>2. CASE i \in w..w + first - 1
    BY <1>1, <2>1, <2>2, Fields
  <2>3. CASE i \notin w..w + first - 1 /\ i < m - first
    BY <1>1, <2>1, <2>3, Fields
  <2>4. CASE i \notin w..w + first - 1 /\ ~(i < m - first)
    BY <1>1, <2>4, Fields
  <2> QED BY <2>2, <2>3, <2>4
<1>3. new.buffer \in [Index -> Byte]
  BY <1>1, <1>2
<1>4. /\ m <= bufferSize /\ w \in Index
      /\ Ahead(w, m) \in Index
      /\ Ahead(w, m) = IF w + m < bufferSize THEN w + m ELSE w + m - bufferSize
  <2>1. m <= bufferSize /\ w \in Index
    BY <1>1, Fields
  <2> QED BY <1>1, <2>1, Position
<1>5. new \in Ring
  <2>1. r.currentSize + m \in 0..bufferSize /\ r \in Ring
    BY <1>1, Fields DEF WellFormed
  <2>2. new = [r EXCEPT !.buffer = new.buffer, !.writePos = Ahead(w, m),
                        !.currentSize = r.currentSize + m]
    BY <1>1 DEF Written, Ahead
  <2> HIDE DEF new, m, w, first
  <2>3. PICK b, at, size : b = new.buffer /\ at = Ahead(w, m) /\ size = r.currentSize + m
    OBVIOUS
  <2>4. b \in [Index -> Byte] /\ at \in Index /\ size \in 0..bufferSize
    BY <1>3, <1>4, <2>1, <2>3
  <2>5. [r EXCEPT !.buffer = b, !.writePos = at, !.currentSize = size] \in Ring
    BY <2>1, <2>4, RingUpdate
  <2> QED BY <2>2, <2>3, <2>5, Zenon
<1>6. Ahead(w, m) = Ahead(r.readPos, r.currentSize + m)
  <2>1. w = Ahead(r.readPos, r.currentSize)
    BY DEF WellFormed
  <2>2. w = IF r.readPos + r.currentSize < bufferSize THEN r.readPos + r.currentSize
            ELSE r.readPos + r.currentSize - bufferSize
    BY <2>1, Fields, Position
  <2>4. r.currentSize + m \in Nat
    BY <1>1, Fields
  <2>5. Ahead(r.readPos, r.currentSize + m)
          = IF r.readPos + (r.currentSize + m) < bufferSize THEN r.readPos + (r.currentSize + m)
            ELSE r.readPos + (r.currentSize + m) - bufferSize
    BY <1>1, <2>4, Fields, Position
  <2> QED BY <1>1, <1>4, <2>2, <2>5, Fields
<1> QED BY <1>1, <1>5, <1>6 DEF WellFormed

\* Write appends its bytes to the queue the ring stands for, wherever in the array
\* they come to lie (CircularBuffer::Write).
THEOREM WrittenAppends ==
  ASSUME bufferSize \in Nat \ {0}, NEW r, WellFormed(r),
         NEW data \in Seq(Byte), HasRoom(r, Len(data))
  PROVE  Content(Written(r, data)) = Content(r) \o data
<1> DEFINE m == Len(data)
           s == r.currentSize
           p == r.readPos
           w == r.writePos
           first == Fits(w, m)
           new == Written(r, data)
<1>1. /\ m \in Nat /\ s + m <= bufferSize /\ first \in Nat /\ first <= m
      /\ first = IF bufferSize - w >= m THEN m ELSE bufferSize - w
      /\ new.currentSize = s + m /\ new.readPos = p
      /\ new.buffer = [i \in Index |-> IF i \in w..w + first - 1 THEN data[i - w + 1]
                                       ELSE IF i < m - first THEN data[first + i + 1]
                                       ELSE r.buffer[i]]
  BY WrittenFields
<1>2. s \in Nat /\ p \in Index /\ p \in Nat /\ p < bufferSize /\ w \in Nat /\ w < bufferSize
  BY Fields
<1>3. w = IF p + s < bufferSize THEN p + s ELSE p + s - bufferSize
  <2>1. w = Ahead(p, s) /\ s <= bufferSize
    BY Fields DEF WellFormed
  <2> QED BY <1>2, <2>1, Position
<1>4. ASSUME NEW k \in 1..s + m
      PROVE  new.buffer[Ahead(p, k - 1)]
               = IF k <= s THEN r.buffer[Ahead(p, k - 1)] ELSE data[k - s]
  <2>1. PICK at : at = Ahead(p, k - 1)
    OBVIOUS
  <2>2. /\ at = IF p + (k - 1) < bufferSize THEN p + (k - 1) ELSE p + (k - 1) - bufferSize
        /\ at \in Index
    <3>1. k - 1 \in Nat /\ k - 1 <= bufferSize
      BY <1>1, <1>2
    <3> QED BY <1>2, <2>1, <3>1, Position
  <2>3. at \in Nat /\ k \in Nat /\ 1 <= k /\ k <= s + m
    BY <1>1, <1>2, <2>2 DEF Index
  <2>4. new.buffer[at] = IF at \in w..w + first - 1 THEN data[at - w + 1]
                         ELSE IF at < m - first THEN data[first + at + 1] ELSE r.buffer[at]
    BY <1>1, <2>2
  <2> HIDE DEF m, s, p, w, first, new
  <2>5. CASE k <= s
    <3>1. at \notin w..w + first - 1 /\ ~(at < m - first)
      BY <1>1, <1>2, <1>3, <2>2, <2>3, <2>5
    <3> QED BY <2>1, <2>4, <2>5, <3>1
  <2>6. CASE ~(k <= s)
    <3>1. CASE at \in w..w + first - 1
      <4>1. at - w + 1 = k - s
        BY <1>1, <1>2, <1>3, <2>2, <2>3, <2>6, <3>1
      <4> QED BY <2>1, <2>4, <2>6, <3>1, <4>1
    <3>2. CASE at \notin w..w + first - 1
      <4>1. at < w \/ w + first <= at
        BY <1>1, <1>2, <2>3, <3>2
      <4>2. ~(p + (k - 1) < bufferSize)
        BY <1>1, <1>2, <1>3, <2>2, <2>3, <2>6, <4>1
      <4>3. p + s < bufferSize
        BY <1>1, <1>2, <1>3, <2>2, <2>3, <2>6, <4>1, <4>2
      <4>4. at < m - first /\ first + at + 1 = k - s
        BY <1>1, <1>2, <1>3, <2>2, <2>3, <2>6, <4>2, <4>3
      <4> QED BY <2>1, <2>4, <2>6, <3>2, <4>4
    <3> QED BY <3>1, <3>2
  <2> QED BY <2>5, <2>6
<1>5. WellFormed(new)
  BY WrittenKeeps
<1>6. /\ Content(new) \in Seq(Byte) /\ Len(Content(new)) = s + m
      /\ \A k \in 1..s + m : Content(new)[k] = new.buffer[Ahead(p, k - 1)]
  <2> HIDE DEF m, new, s, p
  <2>1. /\ Content(new) \in Seq(Byte) /\ Len(Content(new)) = new.currentSize
        /\ \A k \in 1..new.currentSize : Content(new)[k] = new.buffer[Ahead(new.readPos, k - 1)]
    BY <1>5, ContentIs
  <2> QED BY <1>1, <2>1
<1>7. /\ Content(r) \in Seq(Byte) /\ Len(Content(r)) = s
      /\ \A k \in 1..s : Content(r)[k] = r.buffer[Ahead(p, k - 1)]
  BY ContentIs
<1>8. /\ Content(r) \o data \in Seq(Byte) /\ Len(Content(r) \o data) = s + m
      /\ \A k \in 1..s + m :
           (Content(r) \o data)[k] = IF k <= s THEN Content(r)[k] ELSE data[k - s]
  <2> HIDE DEF s
  <2> QED BY <1>7, ConcatProperties
<1> HIDE DEF m, s, p, w, first, new
<1>9. ASSUME NEW k \in 1..s + m PROVE Content(new)[k] = (Content(r) \o data)[k]
  <2>1. k <= s => k \in 1..s
    BY <1>1, <1>2
  <2> QED BY <1>4, <1>6, <1>7, <1>8, <2>1
<1>10. Content(new) = Content(r) \o data
  BY <1>6, <1>8, <1>9, SeqEqual
<1> QED BY <1>10 DEF new

-----------------------------------------------------------------------------
LEMMA TakenFields ==
  ASSUME bufferSize \in Nat \ {0}, NEW r, WellFormed(r), NEW size \in Nat, HasData(r, size),
         NEW first, first = Fits(r.readPos, size)
  PROVE  /\ size <= r.currentSize
         /\ first = IF bufferSize - r.readPos >= size THEN size ELSE bufferSize - r.readPos
         /\ Taken(r, size) = [buffer |-> r.buffer, writePos |-> r.writePos,
                              readPos |-> Ahead(r.readPos, size),
                              currentSize |-> r.currentSize - size]
<1>1. size <= r.currentSize
  BY Fields DEF HasData
<1>2. first = IF bufferSize - r.readPos >= size THEN size ELSE bufferSize - r.readPos
  BY DEF Fits
<1>3. r \in Ring /\ Ahead(r.readPos, size) \in Index /\ r.currentSize - size \in 0..bufferSize
  <2>1. size <= bufferSize
    BY <1>1, Fields
  <2> QED BY <1>1, <2>1, Fields, Position DEF WellFormed
<1>4. Taken(r, size) = [r EXCEPT !.readPos = Ahead(r.readPos, size),
                                 !.currentSize = r.currentSize - size]
  BY DEF Taken, Ahead
<1>5. Taken(r, size) = [buffer |-> r.buffer, writePos |-> r.writePos,
                        readPos |-> Ahead(r.readPos, size),
                        currentSize |-> r.currentSize - size]
  BY <1>3, <1>4, Fields, RingUpdate
<1> QED BY <1>1, <1>2, <1>5

\* Read keeps a ring well formed (CircularBuffer::Read).
THEOREM TakenKeeps ==
  ASSUME bufferSize \in Nat \ {0}, NEW r, WellFormed(r), NEW size \in Nat, HasData(r, size)
  PROVE  WellFormed(Taken(r, size)) /\ Taken(r, size).currentSize = r.currentSize - size
<1> DEFINE s == r.currentSize
           p == r.readPos
           q == Ahead(p, size)
           new == Taken(r, size)
<1>1. /\ size <= s /\ s \in Nat /\ s <= bufferSize /\ p \in Index
      /\ new = [buffer |-> r.buffer, writePos |-> r.writePos, readPos |-> q,
                currentSize |-> s - size]
  BY TakenFields, Fields
<1>2. p \in Nat /\ p < bufferSize /\ q \in Index
        /\ q = IF p + size < bufferSize THEN p + size ELSE p + size - bufferSize
  <2>1. size <= bufferSize
    BY <1>1
  <2> QED BY <1>1, <2>1, Position
<1>3. r.writePos = IF p + s < bufferSize THEN p + s ELSE p + s - bufferSize
  BY <1>1, Position DEF WellFormed
<1>4. s - size \in Nat /\ s - size <= bufferSize /\ s - size \in 0..bufferSize
  BY <1>1
<1>5. Ahead(q, s - size)
        = IF q + (s - size) < bufferSize THEN q + (s - size) ELSE q + (s - size) - bufferSize
  BY <1>2, <1>4, Position
<1>6. Ahead(q, s - size) = r.writePos
  BY <1>1, <1>2, <1>3, <1>5
<1>7. new \in Ring
  BY <1>1, <1>2, <1>4, Fields DEF Ring
<1> QED BY <1>1, <1>6, <1>7 DEF WellFormed

\* Read takes the oldest bytes from the queue the ring stands for, no others
\* (CircularBuffer::Read).
THEOREM TakenRemoves ==
  ASSUME bufferSize \in Nat \ {0}, NEW r, WellFormed(r), NEW size \in Nat, HasData(r, size)
  PROVE  Content(Taken(r, size)) = SubSeq(Content(r), size + 1, Len(Content(r)))
<1> DEFINE s == r.currentSize
           p == r.readPos
           q == Ahead(p, size)
           new == Taken(r, size)
<1>1. /\ size <= s /\ s \in Nat /\ s <= bufferSize /\ p \in Index
      /\ new.readPos = q /\ new.currentSize = s - size /\ new.buffer = r.buffer
  BY TakenFields, Fields
<1>2. p \in Nat /\ p < bufferSize /\ q \in Index
        /\ q = IF p + size < bufferSize THEN p + size ELSE p + size - bufferSize
  <2>1. size <= bufferSize
    BY <1>1
  <2> QED BY <1>1, <2>1, Position
<1>3. /\ Content(new) \in Seq(Byte) /\ Len(Content(new)) = s - size
      /\ \A k \in 1..s - size : Content(new)[k] = r.buffer[Ahead(q, k - 1)]
  BY <1>1, TakenKeeps, ContentIs
<1>4. /\ Content(r) \in Seq(Byte) /\ Len(Content(r)) = s
      /\ \A k \in 1..s : Content(r)[k] = r.buffer[Ahead(p, k - 1)]
  BY ContentIs
<1>5. ASSUME NEW k \in 1..s - size PROVE Ahead(q, k - 1) = Ahead(p, (size + k) - 1)
  <2>1. /\ k - 1 \in Nat /\ k - 1 <= bufferSize
        /\ (size + k) - 1 \in Nat /\ (size + k) - 1 <= bufferSize
    BY <1>1
  <2>2. Ahead(q, k - 1)
          = IF q + (k - 1) < bufferSize THEN q + (k - 1) ELSE q + (k - 1) - bufferSize
    BY <1>2, <2>1, Position
  <2>3. Ahead(p, (size + k) - 1)
          = IF p + ((size + k) - 1) < bufferSize THEN p + ((size + k) - 1)
            ELSE p + ((size + k) - 1) - bufferSize
    BY <1>1, <2>1, Position
  <2> HIDE DEF q
  <2> QED BY <1>1, <1>2, <2>1, <2>2, <2>3
<1>6. LET tail == SubSeq(Content(r), size + 1, s) IN
      /\ tail \in Seq(Byte) /\ Len(tail) = s - size
      /\ \A k \in 1..s - size : tail[k] = Content(r)[size + k]
  <2>1. size + 1 \in Int /\ s \in Int /\ s - (size + 1) + 1 = s - size
    BY <1>1
  <2>2. \A i \in size + 1..s : Content(r)[i] \in Byte
    BY <1>1, <1>4
  <2>3. \A k \in 1..s - size : (size + 1) + k - 1 = size + k
    BY <1>1
  <2> QED BY <1>1, <2>1, <2>2, <2>3, SubSeqProperties
<1> HIDE DEF new, s, q
<1>7. \A k \in 1..s - size : Content(new)[k] = SubSeq(Content(r), size + 1, s)[k]
  <2> SUFFICES ASSUME NEW k \in 1..s - size
               PROVE  Content(new)[k] = SubSeq(Content(r), size + 1, s)[k]
    OBVIOUS
  <2>1. size + k \in 1..s
    BY <1>1
  <2> QED BY <1>3, <1>4, <1>5, <1>6, <2>1
<1>8. Content(new) = SubSeq(Content(r), size + 1, s)
  BY <1>3, <1>6, <1>7, SeqEqual
<1> QED BY <1>4, <1>8 DEF new

\* What Read copies out are those oldest bytes, in order, wherever in the array
\* they lie (CircularBuffer::Read).
THEOREM ReadIsPrefix ==
  ASSUME bufferSize \in Nat \ {0}, NEW r, WellFormed(r), NEW size \in Nat, HasData(r, size)
  PROVE  /\ ReadBytes(r, size) = [k \in 1..size |-> Content(r)[k]]
         /\ ReadBytes(r, size) \in [1..size -> Byte]
<1> DEFINE s == r.currentSize
           p == r.readPos
           first == Fits(p, size)
<1>1. /\ size <= s /\ s \in Nat /\ s <= bufferSize /\ p \in Index
      /\ first = IF bufferSize - p >= size THEN size ELSE bufferSize - p
  BY TakenFields, Fields
<1>2. /\ Content(r) \in Seq(Byte) /\ Len(Content(r)) = s
      /\ \A k \in 1..s : Content(r)[k] = r.buffer[Ahead(p, k - 1)]
  BY ContentIs
<1>3. ASSUME NEW k \in 1..size
      PROVE  ReadBytes(r, size)[k] = Content(r)[k] /\ Content(r)[k] \in Byte
  <2>1. k \in 1..s /\ k - 1 \in Nat /\ k - 1 <= bufferSize
    BY <1>1
  <2>2. p \in Nat /\ p < bufferSize
        /\ Ahead(p, k - 1)
             = IF p + (k - 1) < bufferSize THEN p + (k - 1) ELSE p + (k - 1) - bufferSize
    BY <1>1, <2>1, Position
  <2>3. ReadBytes(r, size)[k] = IF k <= first THEN r.buffer[p + k - 1]
                                ELSE r.buffer[k - first - 1]
    BY DEF ReadBytes
  <2>4. k <= first => Ahead(p, k - 1) = p + k - 1
    BY <1>1, <2>1, <2>2
  <2>5. ~(k <= first) => Ahead(p, k - 1) = k - first - 1
    BY <1>1, <2>1, <2>2
  <2> QED BY <1>2, <2>1, <2>3, <2>4, <2>5
<1> QED BY <1>3 DEF ReadBytes
=============================================================================

---------------------------- MODULE CircularBuffer ----------------------------
(***************************************************************************)
(* CircularBuffer: the ring a client's bytes go through.  Both operations   *)
(* hold bufferMutex from end to end, so each is one operator from the       *)
(* ring's old contents to its new ones; `buffer' is indexed from 0 as in    *)
(* the code, and what is written and read are sequences.                    *)
(***************************************************************************)
EXTENDS Naturals, Sequences

CONSTANTS Byte, bufferSize

Index == 0..bufferSize - 1

Ring == [buffer : [Index -> Byte], writePos : Index, readPos : Index,
         currentSize : 0..bufferSize]

\* Write's and Read's early returns.
HasRoom(r, size) == bufferSize - r.currentSize >= size
HasData(r, size) == r.currentSize >= size

\* How much of a block of `size' bytes at `pos' lies before the end of the array.
Fits(pos, size) == IF bufferSize - pos >= size THEN size ELSE bufferSize - pos

\* Mutants: no second memcpy at the end of the array; a full ring takes one
\* more byte.
WrittenUnwrapped(r, data) ==
  LET first == Fits(r.writePos, Len(data)) IN
  [r EXCEPT !.buffer = [i \in Index |-> IF i \in r.writePos..r.writePos + first - 1
                                        THEN data[i - r.writePos + 1] ELSE @[i]],
            !.writePos = (@ + Len(data)) % bufferSize,
            !.currentSize = @ + Len(data)]

WrittenToEnd(r, data) ==
  LET first == Fits(r.writePos, Len(data)) IN
  [r EXCEPT !.buffer = [i \in Index |->
                          IF i \in r.writePos..r.writePos + first - 1
                          THEN data[i - r.writePos + 1]
                          ELSE IF i < Len(data) - first THEN data[first + i + 1] ELSE @[i]],
            !.writePos = @ + Len(data),
            !.currentSize = @ + Len(data)]

\* Write, when there is room: `first' bytes at writePos, the rest at 0.
Written(r, data) ==
  LET first == Fits(r.writePos, Len(data)) IN
  [r EXCEPT !.buffer = [i \in Index |->
                          IF i \in r.writePos..r.writePos + first - 1
                          THEN data[i - r.writePos + 1]
                          ELSE IF i < Len(data) - first THEN data[first + i + 1] ELSE @[i]],
            !.writePos = (@ + Len(data)) % bufferSize,
            !.currentSize = @ + Len(data)]

\* The bytes Read copies out, when there are that many, and the ring after it.
ReadBytes(r, size) ==
  LET first == Fits(r.readPos, size) IN
  [k \in 1..size |-> IF k <= first THEN r.buffer[r.readPos + k - 1]
                     ELSE r.buffer[k - first - 1]]

\* Mutant: the bytes are copied and stay.
Peeked(r, size) == [r EXCEPT !.currentSize = @ - size]

Taken(r, size) == [r EXCEPT !.readPos = (@ + size) % bufferSize, !.currentSize = @ - size]

\* The queue a ring stands for.
Content(r) == [k \in 1..r.currentSize |-> r.buffer[(r.readPos + k - 1) % bufferSize]]
=============================================================================

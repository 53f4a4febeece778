# Verification of the out-game login server

This directory holds TLA+ models of the login server, the TLC configurations
that check them, and proofs checked by TLAPS. The server accepts TCP clients
through an I/O completion port, reads login requests, checks them against
MySQL, publishes the user's session in Redis, picks a lobby server and answers.
File names such as `ConnUser.h` refer to the repository.

## 1. The system

| Part | State | Operations | Modelled in |
|---|---|---|---|
| MySQL pool (`MySQLManager`, `DBConfig.h`) | `dbPool`, `dbPoolMutex`, `semaphore` | `init`, `GetConnection`, `AutoConn`, six query functions, `Shutdown` | `MySQLPool`, `ConnectionPool` |
| Send path (`ConnUser`) | `sendQueue` (lock-free), `sendQueueSize` (atomic, 16 bits) | `PushSendMsg`, `SendComplete`, `ProcSend` | `SendQueue` |
| IOCP core (`OutGameLoginServer`, `ConnUser`, `ConnUsersManager`) | `AcceptQueue`, the `ConnUser` slots and their sockets, the completion port | `WorkThread`, `AccepterThread`, `PostAccept`, `ConnUserRecv`, `Reset` | `Connections` |
| Block pool (`OverLappedManager`) | `ovLapPool`, the contents of every `OverlappedEx` | `getOvLap`, `returnOvLap` | `Connections` |
| Login (`RedisManager`) | the thread's locals; in Redis `user:pk`, `user:pk:costume`, `jwtcheck:{userId}` | `ProcessLogin`, `ProcessConnect`, `BuildFriendList`, `SetUserCostume`, `SetUserLocation`, `SetUserToken` | `LoginFlow` |
| Load balancer | `lobby:N:status` in Redis | `GetAvailableServers`, `SelectServer` | one step of `LoginFlow` |
| Packet pipeline (`CircularBuffer`, `procSktQueue`, `RedisThread`) | each client's ring and `readData`, the packet queue | `Write`, `Read`, `PushRedisPacket`, `ReadRecvData`, the dispatch on `PacketId` | `CircularBuffer`, `ReceiveQueue`, `ByteQueue` |
| Start-up and shutdown (`main`, `init`, `StartWork`, `ServerEnd`, `~RedisManager`) | `workThreads`, the run flags, the port, `ConnUsers` | start, loop test, join and close of every thread | `ServerLifecycle` |
| Password hash, schema, build files | | | not modelled |

How they interact. An accepter takes a slot from `AcceptQueue` and posts an
`AcceptEx`. Its completion wakes a worker, which posts the first `WSARecv` with
a block of the pool. The completion of a receive is meant to hand the bytes to
the packet pipeline and post the next receive (at this commit the hand-over,
`PushRedisPacket`, has no caller). A Redis thread takes the packet and runs
`ProcessLogin`, which borrows MySQL connections, writes to Redis, and calls
`PushSendMsg` once or three times; each message takes a block of the pool. A
worker that dequeues the completion of a send returns the block and calls
`SendComplete`, which may start the next send. A failed or empty completion
resets the slot and puts it back on `AcceptQueue`.

What makes it hard:

* Worker, accepter and Redis threads share slots, blocks and queues without
  locks; a completion says only which slot it was for, not which of the slot's
  clients.
* `sendQueue` and `sendQueueSize` are changed by separate atomic steps, and the
  test for "nobody is sending" is another.
* The permits of the database pool are counted apart from its connections.
* A login writes to Redis in three calls that can fail one by one, next to
  other logins of the same user, and the process can end between any two.
* A request crosses two structures (ring and packet queue) that are changed in
  separate steps, and the array it is read into is shared by all threads that
  serve the client.
* Threads start before the data they use, and are stopped by completions that
  queue behind those of clients.
* Limits: 5 connections, 300 blocks for 1000 slots, a 16-bit counter.

`PROJECT.json` lists each hazard at its line with the property that covers it.

What each part owes the others:

* MySQL pool: one user per connection, no connection lost, no permit lost.
* Send path: what is pushed is sent, once, and in order as far as the code orders it.
* IOCP core: every slot comes round to accepting again, exactly once; a reset
  hits the client it is for; a connected client is listened to.
* Block pool: a block has one user, and the pool holds its own blocks.
* Packet pipeline: bytes arrive in order and whole, packet by packet; every
  request is handled once, for the client it came from.
* Login: an answer tells what went wrong; Redis says of a user only what a login
  that got that far was given.
* Start-up and shutdown: no worker is stopped early or left asleep, and the port is
  not closed under a worker or an accepter.

## 2. Modules

* `ConnectionPool`: what the MySQL pool promises, one owner per connection.
* `MySQLPool`: the code of the pool. `semaphore`, `dbPool` and `dbPoolMutex` are
  the fields of `MySQLManager`; `pc` and `conn` are a thread's place in a query
  function and its `AutoConn`. The critical section of `GetConnection` is one
  step; that of `~AutoConn` is two, since the permit is released with the mutex
  still held. `Owner` maps it to `ConnectionPool`.
* `SendQueue`: one slot. Every access to the queue, the counter and the socket
  is a step. A message is its position among the pushes, so order and gaps show
  in `wire`. `lost` records messages whose send failed, `overtaken` the pairs of
  which the newer was sent while another thread had the older one between the pop
  and the `WSASend`; only properties read them.
* `Connections`: all slots, blocks, accepters and workers, with Redis threads
  that post sends. The operating system is external: `posted` holds the pending
  operations, `iocp` the completions in FIFO order. A `ConnUser` is its number.
  `skt` is the state of its present socket: `fresh` (not connected),
  `connected`, `active` (the client has sent something) or `gone`. `job` is the
  completion a worker works on, with the fields it read from the block; the
  field `old` (the socket was closed since) is known to the properties only, and so
  are `acceptFailed` (slots of which an accept failed) and `deaf` (slots for whose
  client `ConnUserRecv` failed in a RECV branch).
* `CircularBuffer`: the ring. `Write` and `Read` hold `bufferMutex` from end to
  end, so each is an operator on a record of the class's fields; `Content` is
  the queue of bytes a ring stands for.
* `ByteQueue`: what the clients' rings promise, a bounded FIFO queue each.
* `ReceiveQueue`: `PushRedisPacket` on the workers and `RedisThread` on the
  Redis threads. Writing the bytes and queueing their number are two steps.
  `ReadRecvData` zeroes `readData` byte by byte (no lock is held there), and
  `CircularBuffer::Read` copies the packet there byte by byte: it holds the mutex of
  the ring (`Locked`), which does not keep other threads from `readData`. A request
  is a number and whether `packetIDTable` has its `PacketId`; `Strangers` are the
  clients that may send one it does not have. A packet has `packetSize` bytes, of
  which the first is the header and the last stands for the user's name; `packetInfo` is
  the `PacketInfo` a thread dispatches on, which after a failed read is that of
  its previous packet, or none. Of `ProcessLogin` the module has the two places
  where it reads the packet, `LoginCheck` and `SetUserToken`, and the answer.
  `refused` (a full ring refused a packet) and `mixed` (a token went to the key of
  another user) are known to the properties only. `Queues` maps the rings to
  `ByteQueue`.
* `LoginFlow`: one Redis thread per `pc`, one step per access to MySQL or Redis.
  The two commands of `SetUserLocation` are two steps; the pipeline of
  `SetUserToken` is one. Every write may have reached Redis although it throws (its
  reply was lost or came too late). A token is
  the second its expiry is computed from, because the code signs nothing else.
  `cause` records all that went wrong with a request, for comparison with the answer.
  `ProcessEnds` may come at any moment: every thread's request is gone, what is
  in Redis stays, and `Restart` begins anew. `cutOff` records the user and server
  of logins that failed or ended after the server was chosen, `unexpired` the
  users whose `hset()` no `expire()` has followed.
* `ServerLifecycle`: `mainPc` is the place of `main()`, `pc` that of each thread:
  the test of its loop, then one turn. Of the traffic there is what the threads'
  beginning and end depend on: accepts, connects, leaves. A Redis thread that serves
  a packet may wait for a MySQL permit (`acquire`), for ever if those that are out
  were leaked. `ended` says why the process ended before its time (Redis unreachable,
  a dereferenced null).
* `MySQLPool_proofs`, `SendQueue_proofs`, `CircularBuffer_proofs`,
  `ReceiveQueue_proofs`, `LoginFlow_proofs`, `ServerLifecycle_proofs`,
  `Connections_proofs`: theorems about these modules (section 5).
  `ConnectionsRound_proofs` extends the last with the theorems about slots that
  need hypotheses.
* `MC...`: the modules TLC runs; they add symmetry and constant functions.

A definition with the word *Mutant* in its comment is a plausible slip of the
code. It is no part of a specification: substituted for the definition that
follows it, it must break the property named for it in `PROJECT.json`.

## 3. Runs

Runs that pass:

| Run | Question | Bounds |
|---|---|---|
| `MySQLPool` | exclusive use; no connection lost and every permit accounted for when `init` stops early; no refusal and no starved pool when it does not; implements `ConnectionPool` | 3 threads, 2 connections |
| `SendCounts` | the counter loses no update; no message is in two hands, sent twice or skipped; which messages may overtake each other | 2 Redis threads, 2 workers, 2 pipelined logins, 2 clients |
| `SendFailures` | one-message answers are all sent | 2 Redis threads, 2 workers, 3 logins, one after the other |
| `ConnectionsReceive` | blocks and slots go round, a reset hits its own client; a slot or client is lost only by a failed receive in a RECV branch, every other slot is recycled | 2 slots, 3 blocks, 2 workers, 2 accepters, no sends, clients that abort |
| `ConnectionsFaults` | a block has one user, under sends and every fault; what strays into the pool comes from failed accepts | 1 slot, 2 blocks, 1 heap block, 1 answer |
| `LoginAnswers` | what an answer tells of what went wrong; what Redis and other users are told is the work of a login that got that far; a location that never expires is healed by the next login | 2 threads, 2 users, 2 lobby servers, 2 requests, 2 seconds, every failure, 1 restart |
| `ReceiveQueue` | rings are FIFO queues, agree with the packet queue, are read packet by packet; a client that waits is answered once, for itself; what ends the process; every request is answered | 2 clients: one waits and sends 2 packets, known or unknown, one does not and sends 3; 2 workers, 2 Redis threads, packets of 2 bytes, rings of 5 bytes |
| `ServerLifecycle` | the server starts and ends in order, whatever fails at the start; what may hold up its end | 3 workers, 2 accepters, 1 Redis thread, 3 slot numbers of which one is skipped |

Why these bounds. Two threads of a kind give every race of two steps; the pool run
has a thread more than connections, so someone waits. A slot's life is a cycle, and
two slots with two workers cover a worker overtaking another on the same slot and on
another one. `ConnectionsReceive` has fewer blocks than slots and workers together,
each of which may hold one, so that a worker finds the pool empty; and clients
abort, so that `WSARecv` fails. In `ConnectionsFaults` one slot is enough for a
block to be fought over by its two carriers (a receive and a send that both fail);
`MaxPool` stops accepting once the pool holds more blocks than it began with. In
`SendCounts` two threads of each kind meet at every access to the counter, which
goes below zero on the way, and two of them hold messages at once. In `ReceiveQueue`
two and a half packets fill a ring, so packets are split at the end of its array and
the client that does not wait has packets refused; both clients are needed for one
to disturb the other, and two bytes for a thread to write between those of another.
Only the client that waits sends unknown ids: one of them ends the process whoever
sends it, and the other client's packets meet in `readData`. In `LoginAnswers` the
two requests are for one user or for two, on either thread, before or after the
restart; two servers let a user's location come from either login. `ServerLifecycle`
has more threads than slots, so some sleep when the end comes, and skips a number as
`StartWork` skips 11.

`CHECK_DEADLOCK FALSE` is set where the system stops because a bound was
reached (all runs of `SendQueue`, `Connections`, `ReceiveQueue` and `LoginFlow`), in
the pool run, where leaked permits may leave all threads waiting for ever, and in
`ServerLifecycle`, where the process ends.

Runs that TLC finds violated, each against a statement of the code or docs
(quoted under "findings" in `PROJECT.json`):

| Run | What happens |
|---|---|
| `SendStall` | of the three messages of a success the second and third are queued before the first completes; `sendQueueSize` goes from 3 to 2, and `== 1` never holds again |
| `ConnectionsEmptyPool` | with no block left `ConnUserRecv` passes a null block, fails, and in the RECV branch nobody notices |
| `ConnectionsStaleReset` | the failed send of a client that left resets the slot's next client |
| `ReceiveMixed` | two requests of one client on two Redis threads: `SetUserToken` reads the user's name again, after the other thread has overwritten it |

`AllSent`, `ResetsOwnUser`, and in weaker forms `ClientHeard` (`UnheardOnlyDeaf`) and
`TokenOfUser` (`TokenOfPatient`), are in both tables: the passing run shows under which
circumstances the code keeps the promise, the other one what breaks it. More findings
are stated by properties that hold, because they name what the code does:

* `PermitAccounting` has to count `refused` permits: a call refused because `init`
  stopped early returns before its `AutoConn` exists, and its permit never comes
  back. `NoRefusal` and `PermitsFlow` are about an `init` that succeeded.
* `CodeOfCause` says of each cause what it is answered with. With no lobby server up
  (`noLobby`) the login succeeds without one, since `tempServer.ip == ""` compares
  pointers, and `NoServer` is never said. A database error in `LoginCheck` (`check`) is
  answered `WrongPassword`. A costume or a location that could not be written is
  answered with success.
* `StraysFromFailedAccepts`: a failed or aborted accept takes the branch of a
  disconnect and puts the `ConnUser`'s own `acceptOvlap` into the pool, whose blocks
  alone the comment there speaks of. From there it serves another client's receive
  while the slot's next accept is pending on it.

The models show more of this kind when the constants of a passing run are
widened, or a property is strengthened:

* `AllSent` with two clients of the slot (`MaxSessions = 2`): a send aborted by a
  disconnect is never subtracted, and the slot's next client is not answered.
* `AllSent` with pipelined requests and two Redis threads: both push and count
  before either looks, both see 2, and nobody sends.
* `InOrder` without `overtaken`: a Redis thread and a worker are in `ProcSend` at
  once, each with a message, and send them in the wrong order. One login at a time is
  not enough to prevent it: two logins one after the other show it.
* `EachSlotOnce` and `UnheardOnlyDeaf` with a send or a failing accept: see section 5.
* `LocationAnswered` without `cutOff`: the location is set before the token fails,
  and stays; so it does when the process ends before the answer.
* `LocationsExpire` without `unexpired`: a process that ends between `hset` and
  `expire`, or an `hset` that throws after Redis has applied it, leaves a user online
  for ever, until the next login. A Redis error in
  `mget`, or while the pipeline of `BuildFriendList` is filled, is caught nowhere
  and is one way for it to end.
* `AnsweredOnce` without `~refused`: a packet that a full ring refused is queued all
  the same; the thread that takes its entry finds too few bytes, and dispatches
  its previous packet again or a `PacketInfo` it never had.
* `KnownHandler` without its disjuncts: one packet with an unknown id ends the
  process, whoever sends it, since `operator[]` inserts a null handler; so does a known
  one read while another thread zeroes `readData`, which has header 0.
* `OnlyStartUpEnds` allows `noUser` while `mainPc = "insert"`: a client that connects
  between `AcceptQueue.push` and `InsertUser` ends the process. It allows `noPort`
  if `init` failed, since `main` ignores its result.
* `BuildFriendList` looks up rows whose request is pending as well as accepted
  ones, although development-note.md:240 says only friends.

## 4. Fairness

Weak fairness only, on steps of the server's own threads: nothing blocks them
but the semaphore, the mutex and the completion port, none of which is fair to a
given thread. A completion is dequeued by *some* worker. A client that left has
its pending operations completed by the system. Clients need not come, send,
or leave; the database and Redis answer or fail, which is part of a thread's
step. In `ReceiveQueue` a worker that has received a packet passes it on, and the
Redis threads run; nobody need send, and the fairness of a thread that logs a client
in includes that it gets its MySQL permit. In `ServerLifecycle` the main thread and
every other thread run; nobody need type "Login", connect or leave, so
`EndReached` is about what follows once it was typed. There a permit need not come back
(`PermitReturned` is outside the fairness): the end then waits in `~RedisManager`, and
nowhere else. The null completions are
in a FIFO queue next to those of clients, and each worker takes one at most.
`LoginFlow` states no liveness: the process may end at any moment.
`SlotsRecycled` is checked without sends: with a failed send next to a
failed receive a slot has two carriers, whose resets can undo each other's
accepts for ever.

## 5. Proofs

Every safety invariant and every action property that a passing run checks is also
the statement of a theorem, `ResetsOwnUser` excepted, and both refinements are proved.
Each proof has one lemma per action. Only the theorems of `ConnectionsRound_proofs` have
a hypothesis beyond the assumptions on the constants; it is discussed there.

`MySQLPool_proofs`, for all finite `Threads` and `Conns` and either value of
`ConnectMayFail`, from the assumptions named in `MySQLPool`:

* `TypeCorrect`, `Exclusive`, `ConnectionsKept`, `PermitsAccounted`,
  `NeverRefused`: the invariants of the same content that the runs check.
* `PoolRefinement`: `Spec => ImplementsPool`.

The invariants are not inductive one by one. `IInv` joins them with three facts:
`ConnOfUser` (a thread has a connection exactly while it queries, and it is an
established one), `MutexHolder` (the mutex is held exactly by the thread that is
releasing) and `OnlyConnected`/`QuietInit` (only established connections are
in the queue; no thread has begun before `init` returned). That a thread with a
permit finds a connection is then counting: idle connections and users add up to
the connections, permits and holders to `dbConnectionCount`, and users are
among the holders (`PoolNotEmpty`). `Enter` and `Leave` count a thread in and
out of a set. For the refinement, `OneOwnerChanges` and `SameOwner` say how
`Owner` moves with `conn`; each action then maps to `Open`, `Take`, `Give` or a
stutter.

`SendQueue_proofs`, for all finite `Pushers` and `Workers`, every `Answers`,
`MaxLogins` and `MaxSessions`, from the assumptions named in `SendQueue`:

* `TypeCorrect`, `CounterExact`, `EachOnce`: `TypeOK`, `SizeCounts` and
  `OnePlace`.

`SizeCounts` alone is not inductive: a send moves a message from a thread to
`pending`, and the counts agree only if it was not in `pending` before. That is
`OnePlace`, which in turn needs that the queue holds exactly the messages not yet
popped, in order (`Popped` and its first conjunct), since only then is the
message at the head in nobody else's hands. `HoldsWhileSending` ties a thread's
step to the message it holds, `HasToPush` makes `Head(todo[p])` a message, and
`NotLastSession` bounds `session`. `AtMoves` counts threads at a place before and
after one of them moves; `CountUp` and `CountDown` are the modular arithmetic of
`fetch_add` and `fetch_sub`, the wrap below zero included; `SameExcess` covers
every other step. Neither theorem says that the messages are sent (`AllSent`):
that depends on who sees the value 1 and is where the code fails.

* `OvertakingNeedsTwo`: `InOrder`, under no further hypothesis.

`InOrder` says what order the code does keep: a message gets ahead of an older one on
the wire only if it is sent while another thread has the older one between `pop` and
`WSASend`, and of the messages for the present client none is skipped. `OrderInv` adds
what makes it inductive: a message in a thread's hands that is older than one on the
wire was in hands when that one was sent. A message just popped is newer than all that
were popped before (`OnePlace`).

`CircularBuffer_proofs`, for every `bufferSize` of at least 1, every ring that is
`WellFormed` (its type, and `writePos` is `currentSize` places after `readPos`) and
data of every length:

* `WrittenKeeps`, `TakenKeeps`: both operations leave a ring well formed.
* `WrittenAppends`, `TakenRemoves`, `ReadIsPrefix`: on `Content` they append the
  data, drop the oldest bytes and return them.

The remainder by a symbolic `bufferSize` is confined to `Wrap` and `Position`: no
position is more than once around, so `%` is a case distinction and the rest is
linear arithmetic and an equality of sequences element by element.

`ReceiveQueue_proofs`, for every set of clients, workers and Redis threads and
every size of ring and packet, from the assumptions named in `ReceiveQueue`:

* `TypeCorrect`: `TypeOK`.
* `RingsRefine`: `Spec => RingIsQueue`, the rings implement `ByteQueue`.

`IInv` joins `TypeOK` with what each step relies on: a worker past its receive
holds a whole packet of a client (`WorkerHolds`), a Redis thread that reads has a
client, has zeroed or copied less than a packet, and dispatches on a `PacketInfo` it was
given unless the process is gone (`RedisHolds`), every ring is well formed
(`RingsWellFormed`), and the thread that copies from a ring is alone there and has the
bytes to the end (`Copying`, the mutex). `RingWritten` and `RingTaken` carry the
theorems about one ring over; `WriteRecvData` then maps to `Write`, the copy of the last
byte to `Read`, and everything else to a stutter.

* `RingsMatchQueue`, `ReadsAreFramed`, `RequestsAnsweredOnce`, `PatientTokens`,
  `HandlersKnown`: `BytesOwed`, `Framed`, `AnsweredOnce`, `TokenOfPatient`,
  `KnownHandler`.

These count, so the sets of threads are finite. A request of a client is
at one of five places (`Writing`, `Pushing`, `Queued`, `Holding`, `Serving`), and the
`...Counts` lemmas say how each action moves one request from one place to the next;
a thread holds an entry only until it has read (`HoldsToRead`). What the entries are
owed is `Owed`. `RingsWhole` says that a ring holds a sequence of whole packets, no
more than are owed, and all of them until one was refused; workers write nothing else
(`WritesPackets`). `WholeAppend` and `WholeTail` do the cutting, `Times` the
multiplication of `packetSize`, the provers' weak spot. A client that awaits its
answers has one request somewhere (`Awaits`), so no other thread writes its
`readData`, though no lock prevents it: what a thread has copied so far stays
(`SoFar`), and so does the packet until it is served (`Sound`). So neither the handler
nor the user of the token changes, and a null handler is called for a packet that
itself has an unknown id.

`LoginFlow_proofs`, for all threads, users, servers and bounds and any friends, from
the assumptions named in `LoginFlow`:

* `TypeCorrect`, `AnswersTellCause`, `SuccessesAreStored`, `LocationsAnswered`,
  `OnlineHaveLoggedIn`, `EveryLocationExpires`: the six invariants of `LoginAnswers`.

`IInv` ties a thread's `res` and `cause` to its place (`ThreadOK`): untouched until
a server was chosen, a success until the token fails after that, and at the end an
answer that agrees with the causes (`Truthful`). `StepOK` is what every step of a
thread does: it leaves other threads alone, what was once issued, answered or cut
off stays so (`HistoryGrows`), and a success is not forgotten (`Kept`). The history
properties follow from that: what Redis says of a user was given to that user
(`Given`), and stays given. `LocationsExpire` needs the thread between `hset` and
`expire`, and that each of the ways to stop there puts the user into `unexpired`.

`ServerLifecycle_proofs`, for all finite `Workers` and `Accepters`, any Redis threads,
number of slots and numbers left out, from the assumptions named in `ServerLifecycle`:

* `TypeCorrect`, `StartUpEnds`, `PortClosedLast`, `WorkersRunUntilEnd`: the four
  invariants of its run.

`IInv` adds `SlotsOK` (a slot that is queued, listening, connected or in the port
was pushed, and there is no null completion before `ServerEnd`), `MainOK` (where
`main()` is, and whether `ConnUsersManager` and the port exist) and `ThreadsOK` (a
thread that was not begun does nothing; one that looks a user up has a client's
completion). `PortClosedLast` is about workers and accepters: the Redis threads
still run when `ServerEnd` closes the port, until `~RedisManager` joins them. A user
can then be missing only between `push` and `InsertUser`.

`Connections_proofs`, for all finite `Slots` and `PoolOvs`, any heap blocks and threads,
and **every** fault (failed accepts, aborts, sends, leaving clients):

* `TypeCorrect`, `BlocksUsedOnce`, `HeapBlocksAreLive`, `OnlyFailedAcceptsStray`:
  `TypeOK`, `OneUsePerBlock`, `HeapBlocksLive`, `StraysFromFailedAccepts`.

`Blocks` says of every block of pool or heap that it is once (`Once`) in at most one
(`Apart`) of five places: the pool, a pending operation, a completion, a worker that
will return it, a thread that will post it. `HeapOK` adds that a heap block is
allocated wherever it is and says `NEWSEND`, which is how `WorkThread` tells it from
a pool block. A `ConnUser`'s own `acceptOvlap` is not among the blocks: it does get
into the pool. `Own` says how: as long as no accept of its slot failed, it is in no
thread's hands but a worker's that has not come to the branch of a disconnect with it.

`ConnectionsRound_proofs`, in addition with `ReceiveOnly` (no Redis thread sends, no
accept fails), and with pools of any size, receives that fail and clients that abort:

* `SlotsNeverDoubled`: a slot is in at most one place on its way round.
* `SlotsGoRound`: `EachSlotOnce`, it is in exactly one, or its client went deaf.
* `ClientsHeard`: `UnheardOnlyDeaf`, a connected client is listened to, or went deaf.

To go deaf is what the code does to a client when `ConnUserRecv` fails in a RECV branch,
because the pool is empty or `WSARecv` fails: nobody has the slot any more. The theorems
say that this is the only way to lose one. `ReceiveOnly` is needed: with 2 slots and 2
workers TLC breaks all three if an accept may fail or one answer is sent. A failed send
next to a failed receive resets the slot's next client (`ConnectionsStaleReset`). After a
failed accept a worker takes `acceptOvlap` from the pool for another client's receive,
and the completion of the slot's next accept is read as one of the receive.
`QInv` says of a slot what `Blocks` says of a block (`Round`), that a
block's contents name the operation and the slot it serves (`OpOK`, `CompletionOK`,
`JobOK`), and that a socket is fresh exactly while its slot waits to be accepted.
A job's slot has no other carrier, so nobody closes its socket before its
worker does. `Lost` (the slots that are nowhere are the deaf ones) makes
"at most one" into "exactly one": a step but one loses nothing (`Keeps`).

Only model-checked: `ResetsOwnUser`, which holds without sends because a socket then
has one operation at a time, and the five liveness properties of the passing runs
(`PermitsFlow`, `AllSent`, `SlotsRecycled`, `AllAnswered`, `EndReached`), since
fairness and `ENABLED` are out of the prover's reach.

## 6. Not modelled

* Contents of packets and rows, beyond the user a packet names. Sends have a
  fixed length of 1024 in the code, whatever the packet's size, and
  `USER_INVENTORY_PACKET` and `USER_FRIEND_PACKET` are longer than that; the
  models' messages have no length.
* A command that Redis applies only after its caller has given up on it: a write of the
  models has come to Redis when its call returns or throws, or never does.
* Requests are of one length and each receive completes with one whole packet:
  the code has no framing of its own, the size queued is that of the receive.
* `PushRedisPacket` and `RedisManager::Init` have no caller, and
  `RedisManager::Connect`, called in `init`, does not exist at this commit. The
  models take them as their signatures ask: workers pass on what they receive,
  Redis threads are started with the server.
* The ring's array is allocated without a value in the code; the models begin with
  zeros. No byte is read before it is written (`RingIsQueue`), so it makes no
  difference.
* `Reset` clears neither the ring nor the entries of the client that left. A client
  of `ReceiveQueue` is therefore a slot; that its next client may be answered for
  the last one is the matter of `SendQueue`, where it is modelled.
* `redisRun` is a plain `bool` read by other threads; the model takes the value
  last written (`WorkRun` and `AccepterRun` are atomic).
* `MySQLManager::Shutdown`, called when the process exits, empties `dbPool` without
  the mutex, and before `~RedisManager` stops the Redis threads: a data race on a
  `std::queue` and uses of destroyed objects, of which every outcome is possible.
* The load balancer promises nothing about logins in progress: many at once pick
  the same server. `SelectServer` takes any server of least load, as the sort does.
* The password hash (a pure function), the schema and the build files.
  `schema.sql` has no column `salt`, which the query of `LoginCheck` reads; a missing
  column is a database error.
* Allocation failure, and failures of `WSASocket` and of a slot's
  `CreateIoCompletionPort`, whose results the code prints and ignores.

## 7. Plan

All parts that change state are modelled, `Shutdown` excepted, and the safety
properties of the passing runs are proved. What could be said more exactly:

1. `Connections`: what sends and failed accepts cost. Which slots may be doubled
   (`ReceiveOnly` dropped), named by a history as the deaf ones are.
2. `SendQueue`: which interleavings leave messages unsent (`AllSent`), as an invariant of
   the states in which nobody is going to look at the counter.
3. `LoginFlow`: an abstract specification of a user's place in Redis (nowhere, at the
   server of a login, cut off), implemented by the logins of all threads.

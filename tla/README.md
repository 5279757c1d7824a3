# A TLA+ model of waprox and HashCache

waprox (`src/waprox`) is a WAN accelerator: a pair of proxies that relay TCP
connections and send the names of chunks instead of content the other side has
seen. HashCache (`src/HashCache/src`) is the web cache that each proxy uses, over
loopback connections, as its disk store. Both are event-driven C programs of one
main thread each, with a few helpers. The modules here model their control in
TLA+. TLC checks each on small instances, and TLAPS checks proofs of the
properties that hold for every value of the constants.

The HashCache build is the one waprox needs: `COMPLETE_LOG`, `WAYS=8`, `USE_HOC`,
`USE_DIRTY_CACHE`, `PERSISTENT`, `PERSISTENT_CLIENT`, `USE_WAPROX_HEADER`, with
`LRU=0`. The waprox build is the one of its Makefile, without SCTP.

## The parts, and the modules that model them

    user --- waprox R ======== names, raw data, acks, closes ======== waprox S --- user
                |  \____ chunk requests and responses, PUTs to peers ____/  |
                |                pings and pongs between all proxies        |
            HashCache                                                   HashCache

| Module | Part | Code |
| --- | --- | --- |
| `UserFlow` | One user connection at both proxies: reading, cutting, window, acknowledgements, reassembly, closing, clean-up | `waprox.c`, `connection.c`, `reassemble.c`, `chunkcache.c` |
| `MrcTree` | Where content is cut, the tree of pieces, the search for known names | `mrc_tree.c`, `rabinfinger2.c`, `chunkcache.c`, `waprox.c` |
| `ChunkDelivery` | Names between a sender and receivers, requests to the disk, to the home peer and to the sender, references to chunks, hints, PUTs | `waprox.c`, `chunkcache.c`, `chunkrequest.c`, `reassemble.c`, `ils.c`, `disk.c`, `diskhelper.c` |
| `Peers` | The table of peers, pings, expiry | `peer.c`, `waprox.c` |
| `PeerConns` | Rows of name and chunk connections between two proxies | `waprox.c`, `peer.c`, `connection.c` |
| `CacheScheduler` | waprox's requests to HashCache: connections, two queues, retries, `put_tmp_ht` | `disk.c`, `connection.c`, `waprox.c` |
| `Clients` | HashCache's side of those connections: transactions, tables by descriptor, deletion in two steps | `loop.c`, `proxy.c` |
| `ClockSet`, `SetIndex` | One set of the set-associative index, its clocks and locks | `index.c`, `locks.c`, `loop.c`, `proxy.c` |
| `LruSet` | What a set promises: the ways in the order of their last use | (abstract) |
| `LogStore` | Batches, groups, places in the circular log, the test of a lookup | `proxy.c`, `batch.c`, `hcfs.c`, `loop.c`, `index.c`, `helper.c` |
| `Restart` | The index helper thread, its two files, a crash and a start with `-r`; extends `LogStore` | `helper.c`, `index.c`, `hcfs.c`, `loop.c` |
| `DiskReads` | Readers of objects on disk, the elevator, the data helper, the hot object cache as an LRU list | `loop.c`, `elevator.c`, `hoc.c`, `helper.c` |
| `DirtyCache` | Objects between download and disk: reference counts, the move into the hot object cache, write locks | `dirty.c`, `hoc.c`, `proxy.c`, `loop.c` |

A module `MCx` only gives the constants of `x` their values for TLC; the
configuration of a run has the same name as its module. `x_proofs` has the
theorems about `x`. `PROJECT.json` maps each definition to its lines of code.
Definitions marked `\* mutant` are not used by any specification: each is a
mapped definition with a plausible mistake in it, and the property it belongs to
fails when it takes the place of the original.

How state and actions correspond to the code:

* A handler of an event loop is one action. Where a loop body can be interrupted
  by what another handler would see (the timer and the clean-up of
  `CacheScheduler`, the iteration of the main loop in `UserFlow`), each step of
  it is one action and a variable holds the position (`timerAt`, `toDestroy`,
  `todo`). `todo` lists the steps of the iteration that are left, and the other
  proxy may run between iterations.
* Records and tables of the C code are records and functions with the names of
  their fields (`ci[x].bytesTX` is `ci->bytesTX`, `srv.readTran[f]` is
  `readTranTable[f]`). NULL is a model value or a value outside the range.
* Some handlers call many functions that change one structure. In `Clients`,
  `DirtyCache`, `MrcTree` and `UserFlow` these are operators from a state to a
  state (`delRequestTranLazy(s, c)`), composed in the order of the code.
* TCP is a FIFO of messages per direction; a break takes what is under way along.
  Pings are a set of datagrams that may be lost, delayed and reordered.
* A user, a web of chunks, a disk and a timer are environments: they act at any
  time, within the bounds.
* Content is abstract. A chunk is its name, a piece of a stream its interval of
  bytes, an object its URL and its number of blocks. `MrcTree` is the exception:
  it has real bytes, and only the fingerprint of a window is abstracted, to the
  strongest mask it matches.

How the parts fit: `UserFlow` takes chunks to be found in the end, which
`ChunkDelivery` is about; it takes its messages to arrive in order, which is
`PeerConns!FlowOrder`. `ChunkDelivery` takes the disk to answer, which is
`CacheScheduler!GetsAnswered` on one side and `Clients!EveryClientServed` on the
other. `Clients` leaves open what a read of the disk finds, which is in
`DiskReads` (objects on disk), `DirtyCache` (objects not yet on disk) and
`LogStore` with `SetIndex` (where objects are).

## What the runs check

Each run is one configuration. The sizes are distinct states.

**`cache`** (366,908). Two connections, one GET, two PUTs, two keep-alives, one
chunk that a peer is asked to store as well. Connections die at any time.
`OnePlace`: a transaction is queued once or is current on one connection.
`NeverLost`: it stays outstanding until its response is processed. `KeptUntilPutDone`:
a chunk stays in `put_tmp_ht` until its PUT is done, except one that is also PUT
to a peer. `GetsAnswered`: a GET is answered unless another connection dies or the
queue stalls at the keep-alive limit. Instances of 983,602 and 1,530,316 states
(other queue limits, more PUTs) pass too.

**`user_flow`** (418,951). Three bytes one way, one the other, a window of two, both
users may close and one may reset. `InOrder`: the pieces under way lead from
`bytesRX` to `bytesTX`. `ClosedAfterAll`: who did not ask for a close got all the
data first. `WriteBufferNeverFull`: the exit of `SendDataPrivate` is not reached.
`EndsAtBoth`: a close ends the connection at both proxies. Instances of 945,000
and 482,030 states pass too.

**`chunk_delivery`** (376,542). One sender, two receivers, three connections, two of
them of one receiver, trees that name a chunk twice, hints for chunks that are
gone, a break at either side. `EveryNameServed`: every awaited name has a reference
or an answer under way. `NothingKeptForEver`: no reference is left over.
`SenderKeeps`: the sender's references are exactly the names not yet acked.
`EveryTreeRebuilt`: every tree is rebuilt. Instances of 744,804, 1,028,424 and
499,984 states (two chunks, other homes, small chunks) pass too.

**`mrc_tree`** (430,923). Every document of nine bytes over two values, two sends, from
any byte on, three levels, hint tables of two names that lose the oldest.
`CandidatesCover`: the candidates tile the chunk, each has a name, those without
content were acknowledged once. `CutAgain`: the receiver's cut of the chunk alone
is the sender's. `HintsClosed`: the pieces of a name that was put into a hint table
were put there too, so they are known unless a full table has lost them. An
instance of seven bytes with three sends (852,372 states) passes too.

**`peers`**. Three proxies, a stranger that connects to one, one lost datagram, a timeout
of two intervals, stops at any time. `LiveCount`, `PeerToPick`,
`DropsOnlyTheStopped`, `StoppedIsDropped`.

**`peer_conns`**. Two proxies with two slots, six connections, four messages, a break.
`ChunkSlotFound`, `EmptySlotOnlyIf`, `LostOnlyIf`, `FlowOrder`.

**`setindex`**. Three ways, three hashes, three responses at a time (they are symmetric)
and two readers. `WritersApart`: each waiting response has a way and its lock to
itself. `IsLru`: the set implements `LruSet`.

**`log_store`**. Objects of one and two blocks in a log of four, four PUTs, chars of
three bits so that versions overflow. `NotOvertaken`: an entry that a lookup accepts
still has its blocks, or never had them written. `WrittenIsFound`: a written entry
is accepted. `WaitingIsWritten`: what waits is written or dropped.

**`restart`** (166,315). A log of three blocks, two chunks of the index file, a crash at any
step. `ConfinedDamage` and `SavedSurvives` say what a restart may lose. With four
PUTs there are 1,599,040 states.

**`disk_reads`** (64,708). Two readers, three objects of one, three and one blocks, the
first two in one group, a cache of two blocks for a log of five. `SweepOrder`: a
request is overtaken only by requests for lower offsets. `SendsObject`: a client is
sent its object, in order and without a gap; when the elevator has thrown its
reader back, from a block that it had been sent before. `EveryReaderEnds`: a reader
ends unless it is thrown back for ever. With requests of two blocks and a cache of
four (37,230 states) the safety properties hold too.

**`dirty_cache`** (253,928). Three responses, two of them of one URL, two readers, a log of two
objects, three cells and one more, locks in chars of two bits, so that three
holders are counted as -1. `LocksCounted`, `SentOwnBlocks`, `LocksGivenBack`,
`DirtyGoes`. Three readers and chars of -3 to 2: 1,356,229 states.

**`clients`** (258,569). Two connections for one place, two requests on each, objects of two
blocks. `NoDangling`: no table leads to a transaction that is gone or to another
client's. `NothingForgotten`: a response that is there is on its way to being
deleted. `EveryClientServed`: a request on an accepted connection is answered, and
every connection is accepted and closed, unless one that was accepted stays silent
for ever. Three clients for two places with one request each: 1,660,986 states.

### Bounds

A bound is a constant that the module marks as one. They are as small as the cases
that the properties are about allow: two of what is shared, so that there is
sharing; one more of what waits than there is room for; one loss, break or crash,
at any step, because the properties say what one of them may do; logs and caches
smaller than what goes through them, so that they wrap and evict. Where a larger
instance could be run by hand within hours it was, with the numbers above.
`CHECK_DEADLOCK FALSE` is set where the bounded environment really comes to rest.

Two simplifications reduce states without hiding behaviours that the properties
tell apart: responses are taken in the order of their numbers in `DirtyCache`, and
clients connect in the order of theirs in `Clients`.

### Fairness

The programs run their loops for ever, TCP delivers, the helpers answer, timers
go off. That is weak fairness of the handlers; `UserFlow` uses strong fairness for
steps that are enabled only at their place in the loop. Most specifications state
it of states, `[]<>P` with `P` "the handler has nothing to do": every behaviour
that is fair to the handler satisfies this, because the handler, when it runs,
leads to such a state and the bounded environment keeps it enabled only finitely
often. So the properties are shown for at least the fair behaviours, and TLC has
fewer and smaller formulas to consider. `CacheScheduler` takes HashCache to answer
or the connection to break, `UserFlow` takes a user to read until it closes,
`Clients` takes clients to take their data, finish their PUTs or leave, and a
connection that has been used to be used again or to expire, which is what
`checkClientExpiry` does for a descriptor that has a usage stamp. A connection that
is accepted gets none until its first read, so nothing is assumed of a client that
never asks. No fairness is assumed of users' sends and closes, losses, breaks,
stops and crashes.

## What is proved

The theorems hold for every value of the constants that satisfies the module's
`ASSUME`. TLC evaluates these assumptions on each run. Each invariant below was
checked by TLC before it was proved.

**`CacheScheduler_proofs`.** `TypeCorrect`, `RequestsInOnePlace` (`[]OnePlace`),
`ChunksKept` (`[]KeptUntilPutDone`) and the action property `RequestsNeverLost`
(`NeverLost`), for any number of connections, requests and chunks. The inductive
invariant is the conjunction of the type invariant, `OnePlace`,
`KeptUntilPutDone` and "a chunk in the remote table is one a peer may be asked
for". `IssuePendingCacheRequests` runs at the end of most handlers, so one lemma
says what it keeps of any queues and connections that a handler hands it (`Ready`).

**`UserFlow_proofs`.** `StreamInOrder`: for every window, buffer and chunk size and any
number of bytes, `InOrderWhileOpen` is an invariant. It is `InOrder` with one more
case excused. `Leads(q, a, b)` says that the pieces of `q` cover the bytes from `a`
to `b`; the invariant `FlowInv` chains four of these (the user's write queue, what
waits for its chunks, what is under way, what is queued for the control
connection) and says where the `open` is, because data before it would be lost.
`UserFlowWorks_proofs` shows that each function on one connection keeps its end of
the chain (`Works`); `UserFlow_proofs` shows that the steps that move a piece from
queue to queue keep the chain.
The case that only TLC checks: the sender's own proxy has closed the connection,
but not for an error. `SetDead(c, FALSE)` may clear `abnormal` of a connection that
`ProcessUserData` turned from closed to blocked, so the proof would need to know
which steps of the iteration are left, and that no data follows a close.

`WriteBufferHolds` (`[]WriteBufferNeverFull`), in the same module: the sender's window
bounds what piles up at the receiver. The exit is at the receiver, the window is
counted by the sender, and the acks that join the two may be under way, so the
invariant `Bound` says three things of each side. `Under`: what the peer has taken,
queued or under way is no more than has left. `Acks`: the last byte acknowledged, the
acks under way, those still queued and the bytes that the user took are in
ascending order. `Within`: `numSent` is what is not acknowledged, and passes
`HighWater` by at most one read buffer each time that the connection is blocked. The
second time is the assertion on `g_NumBlocked`, so at most two. With
`HighWater + 2 * RecvBuf < 2 * Window` the rest is arithmetic. `SizeAssumption` asks for
this and for `Window - Threshold <= HighWater` (a connection that is woken has come
back under `HighWater`); the code has 0.8 and 0.2 of 60 MB, and buffers of 211 KB.
`UserFlowWorks_proofs` shows for each function on one connection that it keeps
`Bound` (`Stays`). `Bytes(q)`, the weight of a queue, is defined by the existence of its
prefix sums, which needs no induction over data to reason about.

**`Peers_proofs`.** `TypeCorrect`; `LiveCountExact` (`[]LiveCount`), from `CountInv`, which
adds that the entries are finite and which of them are alive; `AlwaysAPeerToPick`
(`[]PeerToPick`); and `KeepsThePeersUp`: if fewer than `2 * PingTimeout - 2` datagrams
are lost, `DropsOnlyTheStopped` holds. The argument is `HeardInv`: for two peers that
are up, twice the age of an entry is at most the number of lost datagrams plus one
for each of the two ways (ping, pong) in which the one can still hear of the other
in this interval. An interval without a sign of life therefore costs two losses.
TLC checked it with up to three losses (132,722 states).

**`PeerConns_proofs`.** For any number of slots, connections, messages and breaks:
`ChunkSlotAlwaysFound` (`[]ChunkSlotFound`, the assertion of `GetNextChunkFlowID`; the
turn reaches the first slot, which is never empty then); `NamesReadInOrder`
(`[]FlowOrder`), from `OrderInv`: what can still be read of a user is on the one
connection in the user's slot, sorted, and later than what was read;
`LossExplained` (`[]LostOnlyIf`), from `LossInv`: until something breaks or both sides
have opened, the rows are as the first writer made them and every message is read
or readable; `EmptySlotExplained` (`[]EmptySlotOnlyIf`), from `RoomInv`: a proxy that
has closed nothing has no more empty slots than connections to accept.

**`SetIndex_proofs`.** For every number of ways, hashes and responses: `TypeCorrect`;
`ClocksAlwaysPermuted`: the clocks are a permutation of `0 .. WAYS-1`;
`WritersStayApart` (`[]WritersApart`); and the refinement `SetIsLru`: `Spec` implements
`LruSet` under the mapping `older = {pairs of ways with increasing clocks}`, `busy =
{locked ways}`. The permutation is what makes the mapping a total order, and the
choice of a way a choice of the least; a lookup maps to a use or a stutter, a store
to taking the least recent free way, a discard to making a way the least recent.

**`DirtyCache_proofs`.** `LocksAlwaysCounted` (`[]LocksCounted`), for any number of
responses, URLs and blocks, from `DirtyInv`: a reader in the middle of an object has
the object that is in the table, a response that has a dirty object has that one
until it is deleted, and an entry without a copy is empty. The locks are a char
(`dirty.c:11`), tested for 0 only, so the count is right also where it is negative, up
to 255 holders. `CharAssumption` asks for so few readers; nothing in the code does, since
`cLimit` is 2048 by default (`init.c:111`), and at 256 holders the object would be freed
under them.

**`Clients_proofs`.** `NothingDangles` (`[]NoDangling`) and `NoneForgotten`
(`[]NothingForgotten`), for any number of clients, requests, descriptors and blocks.
Neither is inductive: whether a pointer can be left behind depends on which of the
two steps of its deletion each transaction is in, and on what the client has sent.
The invariant `Inv` says for each client (`ConnOK`) that its request leads to a
descriptor that is its own, that at most one of its responses is served there
(`Serving`: it waits for the disk, for the client, or for the rest of a PUT) and
that every other one has lost its way to the request (`NotServed`); for each
descriptor (`FdOK`) whose entries the tables may have; that the listener is off
exactly at `CLimit`; and that a client that waits to be accepted has no request.
Each handler is shown to work for one client (`Same`, `Local`): the rest of the
server is as before, so the other clients keep `ConnOK`. `handleAccept`,
`deletePerms` and the end of a batch work for many clients and are proved apart.
TLC checked `Inv` on the instance of the run.

### What is only model-checked, and why

* Liveness (`GetsAnswered`, `EndsAtBoth`, `EveryTreeRebuilt`, `StoppedIsDropped`,
  `WaitingIsWritten`, `EveryReaderEnds`, `DirtyGoes`, `EveryClientServed`): the
  provers have neither fairness nor `ENABLED`.
* `ChunkDelivery`: its counts are folds over bags and sets of names. What a fold
  gives for every input needs induction over data.
* `MrcTree`, `LogStore`, `Restart`, `DiskReads`: cutting, grouping and merging are
  recursive or folds. Their properties are about what these compute.
* `SentOwnBlocks` and `LocksGivenBack` of `DirtyCache`: blocks are taken, filled and
  evicted by folds over cells.
* `InOrder` once the sender's own proxy has closed the connection (see
  `UserFlow_proofs`), and `ClosedAfterAll`, which rests on it: it is about the bytes
  that a close announces and the data that is still before it.

## Where the code does less than one might expect

The models follow the code in these cases. Where a property would not hold of
them, the property names the exception.

waprox:

* The second response to a list of chunk requests wakes nobody: it does not set
  `g_TryReconstruction`, and a tree that it completes waits for the next event
  (`EveryTreeRebuilt`, `NotWoken`).
* `tmp_ht` counts references by name alone. A connection that the sender has dropped
  can use a reference that was fetched for another (`Undisturbed`).
* A peer that no longer has a chunk drops the request (`ils.c:465`): the request
  names that peer as the original proxy. The properties leave out chunks that a peer
  keeps.
* A PUT to a peer shares the entry of `put_tmp_ht` with the local PUT, and the first
  to finish removes it (`KeptUntilPutDone`); if the connection to the peer breaks, the
  entry is left (`waprox.c:2455`).
* A PUT whose connection dies goes back to the tail of its queue (`disk.c:262`).
* A write to a user who has left fails with EPIPE, which is taken for "busy", so two
  proxies can wait for each other's acks (`EndsAtBoth`).
* A connection that meets end of file with a full window may be blocked twice, and
  one that is closed with bytes left may be blocked again and then fail an assertion
  in the clean-up. `UserFlow` ends there (`failed`).
* A close without data announces 0 bytes (`waprox.c:2972`).
* A chunk whose pieces are all known but whose own name is new is sent whole
  (`mrc_tree.c:1541`). After a crash the hint file may hold a name without its pieces.
* A full hint table loses its oldest names (`chunkcache.c:222`), and the pieces of a root may
  go before or after it. `ResolveWithHint` takes the pieces of a known name to be known
  without looking; its check of this (`mrc_tree.c:1454`) is in debug code.
* `g_NumLivePeers` falls short by one for each peer that is not configured
  (`LiveCount`).
* Two proxies that open connections to each other at the same time close each
  other's, with the messages on them (`LostOnlyIf`).
* A slot for names that is empty is only filled when slot 0 is empty too
  (`EmptySlotOnlyIf`).

HashCache:

* The entries of a batch that is dropped when the log wraps stay in the index; so do
  entries past the end of the file (`NotOvertaken` allows an older round there).
* The elevator merges requests across gaps (`elevator.c:119`), and the readers of a
  merged request all go on from its first block (`loop.c:945`). One that waited for a
  later block of the same object sends the blocks between once more, and they count
  as received, so that its client may get some blocks twice and not the last; readers
  that keep joining the object can throw it back for ever (`SendsObject`,
  `EveryReaderEnds`).
* The length of a group in the index is a char (`index.c:443`); an object whose group goes
  on for 128 to 256 more blocks is a miss (`JoinFlow` of `DiskReads`).
* The locks of a dirty object and of a cached block are chars, which come round at 256
  holders (`CharAssumption`).
* A client that is accepted and never sends anything does not expire, because its
  descriptor has no usage stamp (`loop.c:524`, `proxy.c:700`). It keeps its place under
  `cLimit`, and the clients that wait may wait for ever (`Silent` in
  `EveryClientServed`).
* Only the first chunk of the index is ever saved (`index.c:719`). The version and the
  offset of the log are saved without a lock (`helper.c:548-553`), so that they may
  be of different rounds (`ConfinedDamage`).
* When a reader is the last to leave a dirty object, it walks the list of blocks to
  unlock after destroying that list (`dirty.c:184`; `walked` in `LocksGivenBack`).
* When the log comes round to blocks that are still locked, two objects share them
  (`hoc.c:208`; `shared` in `SentOwnBlocks`).
* A response is never deleted when its client closes while it waits for the client,
  or expires while it waits for the disk (`forgotten` in `NothingForgotten`).
* A negative reply may go to a request that is gone (`proxy.c:2422`), and `sendData` looks
  up the server connection of a response whose request is gone at descriptor -1
  (`proxy.c:280`). `Clients` ends there, or goes on (`down`).
* `checkClientExpiry` takes the response of a stalled PUT for a request
  (`proxy.c:708`); this expiry is left out. The 302 that is written to a client whose
  PUT was cut short (`proxy.c:1950`) counts as an answer.

## What is not covered

Hazards seen in the code that no property covers: a cached block of the last round
of the log that a read does not replace (`hoc.c:48`); read locks left by the error
paths in the middle of an object (`loop.c:2862`); a client that blocks while the
header of an object is sent (`loop.c:2712`); byte counters of 32 bits
(`waprox.c:2877`); the eviction of chunks from memory (`chunkcache.c:309`); the
emptying of `tmp_ht` when no user is connected (`waprox.c:4380`) and the limit of the hint
tables in `ChunkDelivery` (`MrcTree` has it); a read that passes the write of a batch at
its own offset (`elevator.c:138`); the read locks of cached blocks, which are chars too; the
pending loads of peers, which may go below zero (`ils.c:170`); the HTTP way to find
a destination (`waprox.c:1907`).

Not modelled:

* Downloads from web servers, DNS, chunked and large bodies in HashCache. waprox
  uses only WAPROX-GET and WAPROX-PUT, which start none.
* The text of HTTP and of the protocols, and the byte layout of messages.
* The numbers behind load shedding and rendezvous hashing, which are floating
  point. `ChunkDelivery` allows every split that they could choose.
* Several user connections of one proxy in `UserFlow` (they share no stream state).
  `ChunkDelivery` has several, because they share chunks.
* The sets of the index other than one, disks other than one. They share no state.
* SCTP, which is not built; the memory-only configuration; PEEK.
* Containers, logging, configuration and start-up; the offline tools, simulators and
  vendored code in the repository.

# A verification project for ospfd-rfc2328

TLA+ modules for the OSPF daemon in `src/src`, the TLC configurations that
model-check them, and TLAPS proofs of their main invariants. Line numbers refer
to the files of `src/src` unless a path says otherwise.

## The system

One process, three threads. `main` sets up the interfaces and reads commands.
`recv_loop` takes a packet from each interface in turn and runs its handler to
the end; `send_loop` wakes every second, sends Hellos, and visits every
neighbour whose retransmission timer has run out. Both loops work on the same
`Interface`, `Neighbor` and `LSDB` objects. Two mutexes exist: one in the
database, one per neighbour around the request list. Everything else, the
neighbour's state above all, is read and written without a lock.

| Component | State | Operations | Talks to |
|---|---|---|---|
| Neighbour and exchange (`neighbor.*`, `packet.cpp`, `transit.cpp:115-143`) | state, role, DD numbers, stored DD, summary list and send iterator, request list, flags `dd_init`, `dd_recv_no_more` | neighbour events, `process_hello`, `process_dd`, `process_lsr`, `process_lsu`, `produce_dd`, `produce_lsr` | database (headers, lookups, own LSAs), interface (DR, BDR) |
| Database (`lsdb.*`) | a list of LSAs per type, `lsa_seq_num`, a mutex | `add`, `del`, `get`, `make_lsa` | exchange, election, routing; `flood_lsa` |
| Interface (`interface.*`) | state, DR, BDR, neighbours, timers, sockets | election, `event_backup_seen`, `event_neighbor_change`, `init_interfaces` | neighbours (`event_adj_ok`), database (Router-LSA) |
| Loops (`transit.*`) | timers, `running` | `recv_loop`, `send_loop` | all handlers |
| Routing (`route.*`) | graph, routes, kernel routes | `update_route`, `dijkstra`, `reset_kernel_route` | database, neighbours, kernel; called by `produce_lsr` only |
| Packets (`packet.hpp`, `packet.cpp`), utilities (`utils.hpp`) | none | layouts, byte order, checksums, LSA comparison | all |
| Process (`main.cpp`) | threads, the daemon, descriptors | daemon, commands, start and end | interfaces, loops |

Code that nothing calls: `event_start`, `event_kill_nbr`,
`event_inactivity_timer`, `event_ll_down`, `event_wait_timer`, `event_loop_ind`,
`event_unloop_ind`, `event_interface_down`, `forward_icmp` and with it
`lookup_route`, `process_lsack` (its call is commented out). `inactivity_timer`
is never counted down and `wait_timer` never up. A neighbour therefore never
goes DOWN, an interface never leaves WAITING by waiting, and no interface type
but BROADCAST occurs. No module has actions for these: the program cannot take
them.

### What is hard, and what would be correct

* **Two threads on one neighbour.** `send_loop` tests the state and acts later
  (`transit.cpp:126`, `packet.cpp:340`); a packet may be handled in between,
  and both threads may run `produce_dd` on the same list, iterator and packet.
  Correct: nothing listed is lost, FULL means synchronised, the stored DD
  answers the last packet. The code keeps only the first of these when the
  threads meet, and all of them when they do not.
* **Sessions.** An exchange may start over at any time, and several fields
  survive: the send iterator, `dd_init`, `dd_recv_no_more`, `recv_dd_seq_num`,
  after a fall to TWOWAY also the lists. Numbers start at 0 again, so packets of
  an old session fit into the new one. Correct: the iterator never leaves the
  list, erased headers were sent, the end of a session is its own.
* **Unreliable, reordered, repeated packets.** All inputs are any packet at any
  time.
* **Versions of LSAs.** Instances come in any order, our own come back, numbers
  wrap, a restart forgets. Correct: the newest instance is kept, and is the only
  one if nothing came out of order.
* **Elections.** Claims come and go in Hellos, and the second half of one
  Hello's handling sees what the first half did. Correct: the DR is somebody we
  know, no claim of a backup is missed, the role is not seized.
* **Numeric edges.** 32-bit fields under a 64-bit counter, `std::advance` beyond
  `end()`, uninitialized priorities and sequence numbers, remainders of negative
  numbers in a checksum.
* **Routes of the past.** `update_route` runs while the database and the kernel
  change, any write to the kernel may fail, maps grow under `operator[]`.
  Correct: shortest paths of the graph as it was built, no route of an earlier
  update left.
* **Waiting.** A blocking receive on each interface in turn, two mutexes, a
  join. Correct: no deadlock; every frame is served and the process ends, as
  long as no interface stays quiet.
* **Failing to start.** Any interface may fail at any point of its set-up, and
  the daemon is forked by a thread that `main` does not wait for. Correct: the
  others keep their sockets, and the process ends.

`PROJECT.json` lists the hazards at their lines, with the properties that cover them
or the reason why none does; faults that no property could cover, because no code
exists that would have to get them right, are under "What the code does not keep".

## The modules

### Exchange

One router and its neighbours on one interface. The variables are the `Neighbor`
objects (`nbr`, with the names of their fields), the number of instances per key
in the database (`lsdb`), whether we are DR (`amDR`), where `send_loop` stands
(`sender`), and why the process died (`halted`).

Each neighbour event is a function from a Neighbor object to the next
(`TwoWayReceived`, `AdjOk`, `NegotiationDone`, ...); each way through a packet
handler is an action built from them. A handler of `recv_loop` is one step, and
so is a run of `produce_dd`. A visit of `send_loop` is a chain of steps: `Visit`
(test for EXSTART), `SendDD`, `Retransmit`, `SendLSR` (under the mutex),
`TestLoading` (after it is released), `AssertLoading`, `LoadingDone`. Packets are
handled between visits only: this module has what the handlers do when the two
threads do not meet on one neighbour.

The environment sends any DD of `Packets`, any LSR of `Asks`, any LSU of
`Updates`, any Hello. Failed assertions, invalid iterators and null pointers end
the process: they are the values of `halted`. The history field `listed` records
what the neighbour told in this session; no guard reads it. An LSA is its key here: whether a
received instance replaces an old one or is added to it is a choice, as is the
outcome of an election; `LSDB` and `Interface` have the details.

The send iterator is a position: 0 for `end()` (the sentinel node of a
`std::list`, which survives `clear()`), `NoIter` for an iterator that was never
set or whose node is gone. `Advanced` follows the circular node list of
libstdc++: advancing past the last node passes `end()` and comes back to
`begin()`.

### ExchangeThreads

`Exchange` with its two threads where they do meet. Either may be inside
`produce_dd`: `send_loop` with a test for EXSTART that is out of date, `recv_loop`
for its reply. `making[t]` is where thread `t` is: the second test of `dd_init`
(`TestInit`), the size of the list (`TestSize`), the reading and the writing back
of the shared iterator (`ReadIterator`, `MoveIterator`), the walk over the list
(`CopyFirst`, `CopyRest`), the test for the end and `event_exchange_done`
(`TestEnd`, `EndExchange`), the clearing (`ClearSummary`). `recv_loop` takes a
packet up to where it calls `produce_dd` in one step (`ObeyMaster`, `LeadSlave`,
`TakeNext`) and no other packet before it has returned; all other handlers
(`Handle`) are those of `Exchange`, now at any point of a visit.

A race on the list or the iterator is undefined. `raced` notes that the other
thread changed one of them since this thread's last step: then the iterator that
`std::advance` writes back is any, and the walk may end the process
(`WalkFails`). The bytes of the packet both threads write into are not followed.
They say nothing to this router, which never reads them back, but the neighbour may
get a DD with a wrong number or wrong flags: what `Exchange` shows of the stored DD
(`EchoSeq`, `SlaveAcked`, `SameSeqSameDD`) and of the iterator (`SlaveIterValid`)
is about threads that do not meet, and is not claimed here.

### LSDB and Store

`LSDB` keeps the lists of LSAs as sequences, with `Add`, `Del` and `Get` as
`std::find_if` makes them: they see the first match. Its actions are an LSA of an LSU
(`ReceiveLSA`), our own LSAs (`MakeFirst`, `MakeNext`, with `lsa_seq_num` wider
than the field it goes into), an answered LSR, and a restart. `afloat` is what
other routers may hold of ours and send back, in this life or the next.

`Store` is the abstract specification of a database: of every key the newest
instance it learned. `LSDB` implements it, with `best[k]` mapped to the stored
instances of `k` that no stored instance is newer than, in spite of duplicates.

### Interface

One broadcast interface: DR, BDR, state, and of each neighbour what a Hello
declares, with three levels of its state. `Elect` is
`elect_designated_router`; `AfterDR` and `AfterBackup` are the two else-ifs of
`process_hello`, one after the other in one step. The reversed comparison under
`std::max_element`, the uninitialized own priority (`Garbage`), the missing
second calculation and the null pointer are as in the code. `fault` is the
assertion or access that ended the process.

### Adjacency

The router of `Exchange` (an `INSTANCE` of it: its handlers are the ones proved
about) as the slave of a master that keeps to RFC 2328 and does not run this
program. What the handlers and `send_loop` send is what they give to
`send_packet`; channels hold packets by type, in order, and lose any. Either
router may start again, with the other's packets still on their way. The slave
handles packets between two visits of `send_loop` only; the interleaving within
a visit is the subject of `ExchangeThreads`. A router's ID is its address here.

`misled` is history: the slave took some other DD of the master for its offer,
which `packet.cpp:213` lets it do. The run `restart` shows what comes of it, and
`Adjacency.cfg` follows such a slave no further (the constraint `Led`).

### Threads

What the threads share, at the grain of single operations: the two mutexes, the
lists and LSAs of the database, the neighbour's lists, the interface's
neighbours, the maps of the routing table, the neighbour's state. A function is
the set of its ways, each a sequence of operations; a thread has a list of
operations to do, and a call puts one way of the function, chosen by the
neighbour's state at that moment, in front of it. `main`'s commands, both loops
with their blocking receive over several interfaces, and the join are actions.
An assertion that fails, and the null pointer that `process_lsr` uses after
`event_bad_lsreq`, end the process (`aborted`).
Contents of packets and lists and timers are choices.

### Routing

`update_route` in the steps between which other threads can act: the removal of
the old gateway routes (`Start`), the graph under the mutex (`Build`), `dijkstra`
one visited node at a time (`Relax`, `Skip`, with the copies of nodes the heap
holds), Summary-LSAs under the mutex again (`AddSummaries`), the table and the
kernel's routes (`Install`, or `NoInterface` if the assertion fails). Meanwhile
the database, the neighbours and the kernel change (`Environment`). Nodes and
predecessors that `operator[]` makes are there (`NoNode`), a write to the kernel
may fail, and the first of the two loops of `update_kernel_route` gets no
gateway route in, as it sets no flag for one.

### Wire

Byte by byte: layouts as lists of fields, the conversion of each (`Encode`,
`Decode`), the five produce functions, `send_packet` with its checksum, the loops
by which handlers find the end of a list, `fletcher16` and `crc_checksum` with
C++'s remainder. `Ends` has where the fields of a layout end, `Sums` the running
sums that offsets and checksums come down to. What there may be to send are sets
of records (`Hellos`, ..., `LSUs` of `LSAs`): fields as wide as the structs',
lists of any length.

### Process

`main`, `init_interfaces` and the daemon, with what the process has open: a new
descriptor is the lowest free one, a failed interface is deleted and closes
descriptor 0, since `new Interface()` sets `send_fd` to 0. `Threads` is what
happens between the start of the loops and the join; here `Join` may never come, and
an assertion of the loops may end the process or the daemon at any time (`Abort`).
The loop that takes promiscuous mode back opens a socket per interface, or fails to,
and goes on (`Restore`, `RestoreDone`). Promiscuous mode itself is not followed: no
call that sets it back is checked (`main.cpp:48-52`), so nothing can be promised of
it.

## The runs

| Run | Question | Size |
|---|---|---|
| `exchange_threads` | Both threads anywhere in `produce_dd`, both roles, unhandled LSA types, LSRs: `Covered` | 368 000 states |
| `exchange_serial` | Both roles, no packet within a visit: `EchoSeq`, `SlaveIterValid`, `SlaveAcked`, `FullSynced`, `SummaryDrained`, `SameSeqSameDD` | 218 000 |
| `lsdb` | One own and one foreign Router-LSA: `SingleInOrder`, refinement of `Store` | 18 000 |
| `interface` | Two neighbours, one below and one above our ID: `DRReachable`, `NoBackupMissed`, `NoSeizure` | 16 000 |
| `adjacency` | A slave and its master, losses and one restart: `Synced`, `SlaveFirst`, `NoFailure`, and the adjacency `Forms` | 76 000 |
| `threads` | Two interfaces, three threads: `DbListExclusive`, `LockDiscipline`, `NoDeadlock`, and that it ends (`ExitEnds`) and serves (`Served`) unless an interface is quiet | 233 000 |
| `routing` | Three routers, five databases in any order: `Shortest`, `PathsAddUp`, `WalksEnd`, `NoStaleGateway` | 210 000 |
| `wire` | Every type of packet, lists of 0 to 3: `RoundTrip`, `PacketSum`, `LsaSum` | 945 |
| `process` | Four interfaces, any of them failing anywhere: `SocketsKept`, `Ends` | 94 000 |
| `own_network` | finds `AttachedReached` violated | - |
| `restart` | finds `SlaveFirst` violated once a slave may be misled | - |
| `shared_list` | finds `SummaryUnshared` violated: both threads in `db_summary_list` | - |

The last three each find one statement of the repository violated; see "What the
code does not keep". Deadlock is checked in `lsdb` and `wire` only: in the others
the process may stop, of a failed assertion or at its end.

What the properties say, beyond types:

* `Covered`: an LSA the neighbour listed in this session is in the database or
  on the request list, whoever clears, fills and empties that list meanwhile.
  It holds at every interleaving of the two threads, the ones with a race too.
* `EchoSeq`, `SameSeqSameDD`: what a slave keeps for retransmission answers the
  packet it accepted last, and is the same DD however often the packet comes.
* `SlaveIterValid`, `SlaveAcked`: the erase of acknowledged headers is defined,
  and erases what the last DD told when that was all there was.
* `FullSynced`, `SummaryDrained`: FULL means that everything listed is there,
  and that everything of ours was told. Like the four before, they are checked of
  `Exchange`, and the threads of `ExchangeThreads` break them.
* `KeepsNewest`, `SingleInOrder`: see `Store`.
* `DRReachable`: `make_router_lsa` dereferences the DR's Neighbor object
  (`lsdb.cpp:155`); it is there.
* `NoBackupMissed`: the else-ifs of `process_hello` leave no claim unanswered in
  WAITING. `NoSeizure`: no two elections in one Hello make us DR over a claim.
* `Forms`: the adjacency forms and stays, after losses and a restart of either.
  `Synced`: FULL on both sides means that all the master told is in the
  database. `SlaveFirst`: the slave ends the exchange first, which the design
  relies on. `NoFailure`: two routers that meet for the first time trip no
  assertion and no unset iterator.
* `DbListExclusive`: no way through any handler uses the database's lists
  without the mutex. `LockDiscipline`, `NoDeadlock`: no early return leaves a
  mutex locked, no path locks one twice, none takes the two in the order that
  blocks. `ExitEnds`, `Served`: only an interface on which nothing ever comes, and
  which `recv_loop` is waiting for (`Waiting`), keeps a frame or the end of the
  process waiting forever; the mutexes and the order of the interfaces do not.
* `Shortest`, `PathsAddUp`: distances against a reference definition (all paths
  of at most as many edges as there are nodes), and predecessors that fit them.
  `WalksEnd`: the walks back end, with Summary-LSAs added, and exactly the
  reached networks get a route. `NoStaleGateway`: no gateway route outlives an
  update or the program.
* `RoundTrip`: a handler reads what was written. `PacketSum`: the checksum
  verifies although it is stored unconverted. `LsaSum`: an LSA's checksum
  verifies exactly if `fletcher16` is not at its edge.
* `SocketsKept`: a working interface loses a socket only if descriptor 0 was
  freed by an earlier failure, handed to it, and closed by a later failure or by
  the daemon. `Ends`: the command is read where standard input is left, and the
  process ends unless `main` waits for its loops forever.

### Bounds

* `MaxHdr = 1` stands for 10 headers a DD, with lists of 0 to 3 headers: shorter
  than a DD, equal, and longer by one and two. In `Adjacency` `MaxHdr = 2`, with
  a slave that tells up to three.
* `SeqSpace = 3` DD numbers: the successor, the predecessor and the number
  itself are different, and the wrap happens. `LSDB`:
  `SeqSpace = 3` too, and `MaxMade = 4` makes the counter pass the width of the field.
* `MaxInst`, `MaxRequest`, `MaxSummary`, `MaxStored` bound copies in the
  database, repeated requests and the length of lists. A step that would exceed
  one is not taken; one copy more adds no case to any guard, all of which
  compare with zero, with the first match or with `MaxHdr`.
* One neighbour in the runs of `Exchange`: neighbours meet only in the database,
  which other routers' LSAs change anyhow, and in elections, which examine every
  neighbour in the same step. The theorems have any number.
* `exchange_serial`'s list bound is 3, since FULL needs a long path.
  `exchange_threads` has summary lists of 0 to 2 headers, which with `MaxHdr = 1` is
  both ways through `produce_dd`, and `SeqSpace = 2`: no step between the threads
  depends on a number.
* `Adjacency`: `MaxFlight = 1` packet of a type on its way in each direction,
  `MaxRestarts = 1`. A packet that finds no room is lost; a retransmission is
  the same packet again, so a second copy is what the next one brings. One key
  of the master's: with one header a DD it ends its list in its first DD, and
  offers and empty DDs are told apart.
* `Threads`: two interfaces, so that a round has a first and a last; one
  neighbour; one header or LSA a packet, which repeats the same operations.
* `Routing`: three routers, five networks, five databases that differ in which
  way is shorter, in parallel edges, two instances of one LSA, an undescribed
  router and Summary-LSAs of our own area.
* `Process`: four interfaces are one more than the three it takes to free
  descriptor 0, hand it out and close it again.
* `Wire`: TLC's integers end at 2^31, so no 4-byte field of the run's messages
  has its top bit. The theorems have every number the fields can hold. 260
  sequence numbers of our own LSAs are enough to meet the edge of `fletcher16`.

### Fairness

`Exchange`, `LSDB`, `Interface`, `Routing` and `Wire` have safety properties
only, and no fairness.

* `Threads`: weak fairness of both loops and of the join. Nothing is assumed of
  frames: no host has to send, `recvfrom` has no timeout (`transit.cpp:36`), and an
  interface without a neighbour may stay quiet forever. The properties say so
  (`Waiting`). Strong fairness of `recv_loop`'s locking: `send_loop` releases its
  mutexes and sleeps a second every round. Commands are not fair.
* `Adjacency`: weak fairness of what timers repeat (`SlaveSends`, the master's
  retransmissions) and of Hellos; strong fairness of taking a packet of each
  type: of those that come again and again not all are lost. Nothing is assumed
  of `Lose` and of restarts, which are bounded.
* `Process`: weak fairness of `main` and of the forking thread, but not of `Join`,
  which waits for a `recv_loop` that may block. Nobody has to type anything, and no
  assertion has to fail.

## The proofs

Eight modules, one per component. Each theorem is proved
for all values of the constants that satisfy the component's own assumption,
and from nothing else. `PROJECT.json` lists the theorems with the properties
they state.

`ExchangeProofs`, for any neighbours, LSAs, packets, `MaxHdr`, `SeqSpace` and
bounds, from `ConstantsAssumption`:

* `TypeCorrect`: `Spec => []TypeOK`. Lemma by lemma, every event and every part
  of `process_dd` and `produce_dd` keeps a Neighbor object well formed. The
  content is the iterator: `AdvancedType` shows that `std::advance` with
  wrap-around stays within the list, `ErasedType` that the erase leaves
  `begin()` or `end()`.
* `ReplyMatches` (`EchoSeq`), `SlaveErasesWhatItTold` (`SlaveAcked`) and
  `IteratorUsable` (`SlaveIterValid`) of `Spec`, from one inductive invariant,
  `ReplyInv`. It is needed because the properties are not inductive: a slave's
  stored reply matches only if `dd_init` is clear, and the iterator is usable only
  because `produce_dd` ran after the negotiation in the same handler. `Good` states
  this per neighbour; one lemma per function shows who keeps it, one per action
  puts them together.
* `FullHasAll` (`FullSynced`), `AllTold` (`SummaryDrained`) and `ReplyStays`
  (`SameSeqSameDD`) of `Spec`, from the invariant `ExchangeInv`. It adds that what
  `send_loop` has tested in a visit still holds when it acts: EXSTART, the empty
  request list, LOADING (`TestHolds`); and that a neighbour past EXCHANGE has a
  drained summary list, one in FULL all that it listed (`Drained`). A packet within
  the visit breaks exactly `TestHolds`, which is why `FullSynced` fails of
  `ThreadsSpec`.
* `ThreadsTypeCorrect` (`ThreadsTypeOK`) and `NothingForgotten` (`Covered`) of
  `ThreadsSpec`, from `ThreadsInv`: whichever way the two threads meet in
  `produce_dd`, and whatever value a race leaves in the iterator. Of the invariant
  above, what a neighbour owes (`Kept`) and that a slave's `dd_init` is clear
  (`Slave`) remain; `Owes` says which steps cannot disturb them. The part of `produce_dd` is `ProduceInv`, one case per step; the handlers' lemmas are used
  again from `Exchange` (`HandleInv`).

`LSDBProofs`, for any keys, types, width of the sequence number and bounds, from
`DatabaseAssumption`:

* `TypeCorrect`, from the invariant `LSDBInv`: `TypeOK`, and of every key with
  an instance one that no other is newer than. The second part carries the
  refinement: `best` is never empty for a stored key. It survives a step because
  `Add` removes only what the added instance is newer than, or appends
  (`AddElements`, `NewestAfter`), and because "newer" is a strict order
  (`NewerOrder`).
* `ImplementsStore` (`KeepsNewest`): initial states map to initial states and
  each step to a step of `Store` or a stutter.
* `OneInstance` (`SingleInOrder`): with instances in order, `Add` replaces the
  one match there is (`AddSingle`). What `std::find_if` returns, the first
  match, exists by `LeastElement`.

`InterfaceProofs`, for any neighbours, router IDs, priorities and Hellos, from
`RoutersAssumption`:

* `TypeCorrect`, `DRHasNeighbor` (`DRReachable`), `ClaimsAnswered`
  (`NoBackupMissed`) and `RoleNotSeized` (`NoSeizure`), from the invariant
  `IntfInv`: a DR we believe in is ourselves, and then the state is DR, or a
  neighbour with a Neighbor object. The first half is why an election that finds
  no claim but our own cannot make us DR anew. `Leads` says what one election
  may change; it is transitive (`LeadsOn`), which covers the two elections of
  one Hello. `ElectedIn` shows that `max_element` returns a candidate.

`ThreadsProofs`, for any number of interfaces and any `MaxHeaders`, from
`ThreadsAssumption`:

* `TypeCorrect`, `LocksPaired` (`LockDiscipline`), `DeadlockFree` (`NoDeadlock`)
  and `DbGuarded` (`DbListExclusive`), from one invariant, `Disciplined`: what a
  thread has locked is what its list of operations has still to unlock, and on
  the way it never takes a mutex twice, never the two in the blocking order, and
  uses the database's lists with their mutex only. The four properties speak of
  the first operation of a list, the invariant of all of it. `Leads` says this
  of a list; it is closed under concatenation and repetition (`LeadsConcat`,
  `LeadsTimes`), so it is shown way by way of every function (`HelloFine`,
  `AcceptFine`, ... put together in `WaysFine`) and survives a call.

`ProcessProofs`, for any interfaces, from `ProcessAssumption`:

* `TypeCorrect` and `SocketsStay` (`SocketsKept`). `SocketsKept` is not inductive:
  that a socket outlives the next failure needs that it is not descriptor 0, which
  needs that nothing had closed 0 before it was opened (`Kept`, `Fixed`). That there
  is a lowest free descriptor at all, for `main`'s last loop too while the daemon is
  being forked, needs `Room`: three descriptors, two per interface dealt with, and
  a few to spare. `Inherited` is what the fork copies.

`RoutingProofs`, for any routers, networks, databases, costs and neighbours,
from `RoutingAssumption`:

* `TypeCorrect`, `DistancesShortest` (`Shortest`), `PredecessorsAddUp`
  (`PathsAddUp`), `EveryWalkEnds` (`WalksEnd`) and `NoGatewayOutlives`
  (`NoStaleGateway`). `Shortest` speaks of the end of `dijkstra` only, so the
  invariant `Search` speaks of each turn of its loop: the heap has a current
  copy of every reached node that was not visited, and none nearer than a
  visited one (`Frontier`); edges from visited nodes lead nowhere nearer
  (`Relaxed`); predecessors make up the distances (`Tree`). That no path at all
  is shorter follows by induction over its edges (`HopsGrow`, `PathsToVisited`).
  Edges may cost nothing, so distances do not order the predecessors: the walks
  back end because each node is visited after its predecessor (`Ranked`), and
  still do when Summary-LSAs have been added, possibly over nodes of our own area
  (`SummedIs`). The assumption that there are finitely many routers and networks
  is what a database in memory is.

`AdjacencyProofs`, for any LSAs of the master in any order, any room of the
channels and any number of restarts, from `AdjacencyAssumption`:

* `SlaveIsExchange`: the model instances `ExchangeProofs`, and each of its steps
  is a step of `Exchange`'s next-state relation with packets of the instance, a
  stutter, or a start. That needs the type of what is on its way (`TypeCorrect`):
  a packet the slave takes is one that `Exchange` lets come. What is proved of the
  router, `ExchangeInv`, holds therefore of this slave beside any master.
* `NothingFails` (`NoFailure`), `FirstSynced` and `FirstSlaveFirst`, of the time
  before a restart, from the invariant `First`. The exchange is then an
  alternation in one of four phases: `Meeting`; `Behind`, where the master's DD
  has not been taken; `Ahead`, where it has; `Done`. Each says of both channels
  that they hold what is out of date followed by what is not (`InTurn`), and that
  what the slave has listed with what the master has still to tell is all. The
  two would be mistaken for each other if numbers had only one value: hence
  `SeqSpace` is at least 2. `Served` says that only stored LSAs are asked for, so
  no assertion fails. An event of a phase is a lemma (`OfferGoes`, `RepeatedGoes`,
  `NextGoes` for a DD at the slave, `MasterTakesGoes` at the master, `LoseGoes`
  for a loss, ...).

Of `Synced` and `SlaveFirst` the theorems have the part before a restart only.
Afterwards packets of the earlier session come late, numbers wrap at `SeqSpace`,
and an old packet may carry the number of a new one: two sessions are on their
way at once, which no phase of `First` describes. That stays with TLC.

`WireProofs`, for any messages of the five types whose packets fit the buffer, from
`WireAssumption`:

* `TypeCorrect`, `ReadAsWritten` (`RoundTrip`), `SumsToOnes` (`PacketSum`) and
  `OwnLsasVerify` (`LsaSum`). The invariant, `WireInv`, only says that the packet
  on its way is what `send_packet` made of the message; the content is what the
  model's operators compute. The assumption has three parts. A packet is no
  longer than `MaxPacket`: the code writes it into an array of that size and
  does not check. A stored Router-LSA has as many links as it says, and a stored
  Network-LSA is as long as it says. Our own LSAs are as `make_router_lsa` and
  `make_network_lsa` left them, the copies that come back to us too.
* Reading is proved from the inside out. `Holds(bytes, at, p)` says that `p` lies
  in `bytes` after the first `at`; it composes (`HoldsIn`, `HoldsConcat`,
  `FlattenHolds`). A number is read as it was written wherever its bytes are held
  (`ValueIs`), then a record of a layout (`DecodeIs`), a list of records
  (`DecodeAllIs`), an LSA (`RouterRead`, `NetworkRead`, `SummaryRead`), the LSAs
  of an update, each found by the lengths of those before it (`LsasRead`), and a
  body by its type (`HelloBodyRead`, ...).
* `SumsToOnes` has two halves. `CrcCongruent`: folding the sum of the words twice
  loses nothing modulo 65535, for packets of at most `MaxPacket` bytes.
  `SwappedSum`: reading the words the other way round multiplies the sum by 256
  modulo 65535, and so keeps it 0.
* `OwnLsasVerify` finds `fletcher16`'s error and nothing else. `SumsWithout`: what
  the two bytes of the checksum add to the two sums. `FletcherIs`: each byte is
  congruent to the number it stands for modulo 255, less 1 at the edge, where C++
  takes the remainder of a number it has already decreased. `BothZero`: both sums
  are 0 exactly if neither byte lost that 1.

Sums, offsets and lists are recursive functions, and what they compute for lists
of any length is an induction. The prover cannot instantiate an induction theorem
over a predicate, so these go over a set: `UpTo` (a set with 0 and, with each `k - 1`
in it, `k` has all of `0 .. n`), from the library's well-foundedness of `<` on the
naturals. That a recursive function exists at all is shown the same way
(`RunExists`, `StepwiseFunction`). `LeastElement` is the least natural of a set, for
the first match of `std::find_if` and the lowest free descriptor.

The proofs changed the models where a model could not be reasoned about. In
`Adjacency` two `CASE` expressions had arms that overlap, and TLA+ does not say
that the first is taken, although TLC takes it: what the slave sends in a visit
that kills it, and which DD a master takes for a duplicate.

`Wire` was written with the library's folds, of which nothing can be proved here;
its sums are recursive functions now, and what its messages may be, which was the
model checker's choice, is an assumption of the module.

Not proved: `Synced` after a restart, as said above. Out of the prover's reach
altogether are liveness under fairness (`Forms`, `ExitEnds`, `Served`, `Ends`) and
`ENABLED`.

## What the code does not keep

Three of these are runs that find the violation, and findings in `PROJECT.json`
with the line that promises otherwise.

| Run | Where | What happens |
|---|---|---|
| `own_network` | `lsdb.cpp:193` | as DR this router lists its neighbours by address in its Network-LSA; routes look for router IDs, and none leads over that network |
| `restart` | `packet.cpp:213` | any DD is taken for an offer (`DD_FLAG_ALL` expands without parentheses): the master ends an exchange the slave, started again, is still in |
| `shared_list` 
The models also do what the code does at the following places. No run is spent
on them: each shows at the line itself or is a step of a model.

| Where | What happens |
|---|---|
| `packet.cpp:340` | FULL may be declared for a session that restarted while `produce_lsr` had no lock (`FullSynced` fails of `ThreadsSpec`) |
| `transit.cpp:126` | the DD that is stored, the iterator and the list may be wrong after the two threads met in `produce_dd` (what `Exchange` promises of them, `EchoSeq`, `SlaveIterValid`, `SlaveAcked`, is not promised here) |
| `transit.cpp:36` | `recvfrom` blocks without a timeout: a quiet interface keeps the frames of the others, and the end of the process, waiting |
| `packet.cpp:177` | the end of an earlier session may end this one before its last DD was heard |
| `packet.cpp:240` | the slave's first reply is dropped as a duplicate if its number is the one last noted: two routers that both run this program drop it always and never become FULL |
| `packet.cpp:300` | headers erased that were never sent, when the send iterator is `end()` of an earlier list; as master it may also never have been set |
| `lsdb.cpp:15` | two instances of a key; a lookup may go back to an older one |
| `lsdb.cpp:215` | a copy of our old LSA that comes back stays in front of the new one |
| `packet.cpp:129` | `event_neighbor_change` in WAITING, where its assertion fails |
| `interface.cpp:64` | of two claims the lower priority wins |
| `interface.cpp:92` | no candidate for BDR, and its null pointer is read |
| `interface.cpp:85` | one router DR and BDR at once |
| `interface.cpp:107` | the condition never holds: a new DR makes no Network-LSA |
| `transit.cpp:126` | the test for EXSTART is out of date when `produce_dd` runs, so both threads may be in `db_summary_list`, which `neighbor.hpp:76` says is not used by two at once |
| `neighbor.cpp:187` | the request list is cleared without its mutex |
| `packet.cpp:92` | `neighbors` grows while `send_loop` iterates over it |
| `lsdb.cpp:48` | an LSA is freed while a summary list, an LSU being built or an acknowledgement points to it |
| `main.cpp:129` | `debug` inserts into the maps that `update_route` writes |
| `packet.cpp:223` | `dd_init` is not set again: later sessions of a master open with DDs that list headers |
| `packet.cpp:378` | null pointer after BadLSReq; a Network-LSA that is asked for is never found |
| `packet.cpp:429` | assertion on LSA types 4 and 5 |
| `packet.cpp:344` | routes are computed only when a neighbour becomes FULL out of LOADING |
| `route.cpp:177` | a Summary-LSA replaces the node of a network of our own area, without its metric |
| `route.cpp:231` | the assertion fails if the first hop's router ID is no neighbour's |
| `utils.hpp:36-51` | a negative sum with remainder 1 is stored as 0, and the LSA's checksum does not verify |
| `interface.cpp:352` | a failed interface closes descriptor 0: standard input is gone and "exit" is not read, or another interface's socket is; its receiving socket stays open |
| `main.cpp:38` | the daemon's parent turns off promiscuous mode, and the daemon, without standard input, reads commands in a loop for ever |
| `main.cpp:46` | an interface that failed after promiscuous mode was turned on is not in the list, the calls that turn it off are not checked, and an assertion ends the process before them: promiscuous mode may stay on |

## Not modelled

* Interleavings within a handler of `recv_loop` before it calls `produce_dd`, as far
  as values go: `Threads` has every operation of it, without the values.
* The bytes of the stored DD while both threads write them.
* Promiscuous mode, see `Process`.
* In `Routing`, a death of the process by an assertion of `recv_loop` while
  `update_route` runs, and a `SIOCDELRT` that fails though the route is there:
  `NoStaleGateway` is about updates and removals that run to their end.
* A segment of several routers electing by this code, `flood_lsa` over several
  interfaces, and routers whose ID is not their address on the network, beyond
  what `Routing` and `Wire` have of it.
* Instances of LSAs during an exchange: `LSDB` has instances, `Exchange` has
  keys; together they are too large for TLC.
* `print`, `debug`'s text, `ip_to_str`, `mask_to_num`: output.
* `ioctl` and `sendto` beyond success and failure, and the size of buffers.
* The build files and GNS3 configurations.

## Plan

Done: every module above, and their proofs. Left, in this order:

1. `Synced` and `SlaveFirst` after a restart: an invariant that counts what an
   earlier session has left on its way, with a bound on `MaxFlight` by
   `SeqSpace`.
2. `Segment`: several routers electing on one network by this code; do they
   agree on a DR once Hellos settle?

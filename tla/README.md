# A verification of `download`

TLA+ models of the C programs of this repository, the TLC runs that check them
on small instances, and TLAPS proofs of the main results for every value of the
constants. Paths below are relative to the repository's root, so the client is
`src/client/client.c`.

Contents: 1 the system, 2 the modules, 3 the runs, 4 fairness, 5 proofs, 6 what
the models say about the code, 7 what is not modelled, 8 the plan.

## 1. The system

The repository holds a client and a server that exchange framed packets over
TCP, a log daemon with its client library, drivers for GPIO and I2C in user
space, a viewer for records in an SQL dump, and a few small tools.

| Component | Source | State | Operations |
|---|---|---|---|
| Packet framing | `src/packet.c`, `src/crc8.c`, `src/io.c` | per connection: a cache of received bytes (`buf`, `pos`), the packet under assembly (`dp`, `len`) | `dw_get_packet()`, `read_cached()`, `dw_write_command_data()` |
| Timers | `src/timer.c`, `include/timer.h` | `state` and expiry of every timer | `add`, `start`, `update`, `stop`, `del`, `process_timer()` |
| Timer queue | `src/timerqueue.c` | a tree and a cached pointer to its first node | `timerqueue_add()`, `timerqueue_del()`, `timerqueue_getnext()` |
| Red-black tree | `src/rbtree.c`, `include/rbtree_augmented.h` | colors, parent and child pointers | `rb_insert_color()`, `rb_erase()`, `rb_next()` |
| Event loop | `src/client/main.c`, `src/server/main.c` | the batch of events, the delay of the next `epoll_wait()` | wait, run the callbacks, `process_timer()` |
| Client | `src/client/client.c` | one socket, one packet context, one `epoll_context`, one retry timer | `try_connect_server()`, `connecting_server()`, `connected_server()`, `handle_data()`, `disconnect_server()` |
| Server | `src/server/server.c` | a list of `struct server_client`, each with an `epoll_context` inside | `handle_server()`, `new_client()`, `handle_client()`, `disconnect_client()` |
| Log files | `src/log/file.c` | a table of logs, the number, slot, size and descriptor of each, the total; the files on disk | `init_logfile()`, `open_logfile()`, `write_log()`, `new_file()` |
| Log daemon | `src/log/logd.c` | clients that log, watchers with their filters, one datagram socket | `serverfn()`, `parse_packet()`, `close_client()` |
| Log filters | `src/log/logd.c` | two hash tables of rules for each watcher | `alloc_filter()`, `filter_log()` |
| Logging library | `src/log/socket.c`, `src/log/log.c` | a hash table with one connected socket for each group | `send_log()`, `get_logd_connection()`, `connect_logd()` |
| I2C library | `src/hw/example_i2c.c` | a table of open buses with user counts, under a lock | `init_i2c_context()`, four transfers, `destroy()` |
| GPIO library | `src/hw/example_gpio.c` | files under /sys, an epoll set, a list of interrupts, a thread | `request_gpio_irq()`, `free_gpio_irq()`, `gpio_epoll_cb()` |
| Bit-banged I2C | `src/hw/gpio_i2c.c` | two pins | byte write, read, bus restore |
| Record viewer | `src/record/record.c` | a list of records, a hash table by uid | load, sort, filter, hash, search, dump |
| Connection statistics | `src/track/src/` | the devices looked for, the columns of the table, the counts of each uid | load, count, write a csv file |
| Low power client | `src/hardware/low_power_consume_app.c` | one socket, two wake locks, a timer that wakes the system | connect, `poll()` and read, keepalive in a timer thread |
| File tools | `tools/har.c`, `tools/frombin.c` | a buffer of decoded bytes; a part of a file | `decode_har()`, `base64_decode()`; `main()` |
| Others | `src/hardware/`, `src/edid.c`, `src/bitmap.c`, ... | - | see section 7 |

**How they interact.** Client and server run the same loop: `epoll_wait()` with
the delay `process_timer()` returned last, one callback for each reported event,
then `process_timer()`, which runs the callbacks of the timers that are due. An
event carries the address of an `epoll_context`; everything the loop knows about
a connection it reads through that pointer. Inside a callback, client and server
call `dw_get_packet()` until it has no packet, and the packet reader calls
`recv()` through `struct io_context`. Timers sit in one timer queue, which is a
red-black tree with a cached first node. Programs log by sending datagrams to
`logd` from a socket whose *address* names program and group; a watcher
registers at the same socket with a list of rules and gets the messages it asks
for as datagrams. The drivers, the record viewer and the tools share nothing with the rest.

**What is hard, and what makes each part correct.**

* *Packets.* The network cuts the stream anywhere; garbage and damaged headers
  lie between packets; bytes in the cache are invisible to epoll. Correct means:
  each acceptable packet is delivered whole, once, in order, without waiting for
  a later byte, and the connection is given up only when the peer has closed it
  and nothing is left (`Window`, `NoHeaderSkipped`, `FifoLive`). All this ends at a
  header whose length field is larger than the payload buffer: the code compares it
  with nothing and writes behind the buffer (section 6). A writer whose
  socket takes a part of a frame and then no more leaves a hole in the stream, and
  no error reaches the peer: frames must be whole as long as no call fails, and the
  stream must heal behind the hole (`WholeUntilError`, `Heals`).
* *Timers.* Callbacks stop, move, free and restart timers, their own included,
  while `process_timer()` walks the queue, and the sleep is computed from a local
  that may be out of date (`QueueConsistent`, `FiresInOrder`, `NoOversleep`,
  `EveryTimerServed`). Underneath, the tree must stay a red-black tree with
  pointers that mirror each other in the middle of each rebalancing
  (`WellFormed`), and be the queue (`QueueSafe`).
* *Client.* The peer acts between `epoll_wait()` and the handler; one
  `epoll_context` serves all connections one after the other; descriptors are
  reused by other threads; any call may fail (`CallbackFits`, `OneSocket`,
  `RetryOnlyWhenDown`, `OthersUntouched`, `KeepsTryingUnlessFailed`).
* *Server.* Handlers of one batch free structs that later events of the batch may
  point into, and `malloc()` may hand a freed address out again (`BatchFresh`,
  `ViewsAgree`, `Released`).
* *Log files.* A rotation is a sequence of system calls; logd may be killed
  between any two, each may fail, and the next start trusts what is on disk
  (`BooksRight`: total, counts, disk and descriptors agree; `CleanupWorks`: the
  limit is kept and the search for an old file ends).
* *Log daemon.* Watchers die without a word, come back at the same address, and
  are unlinked in the middle of the loop that sends to them (`WriterHasFile`,
  `Served`, `DeadForgotten`); the order of rules decides (`LastRuleDecides`).
* *Logging library.* A socket is closed and replaced while other threads take
  over descriptors, and logd comes and goes (`NoSocketLost`, `OthersLeftAlone`,
  `GetsThrough`).
* *Drivers.* Threads share descriptors (`BusesRight`); an interrupt thread runs
  beside requests and frees, and a value that could not be read must not cost a pin
  its callback (`ListedWatched`, `Delivered`); two lines carry data,
  clock and framing at once (`BusProtocol`); nothing keeps two threads from
  working on one pin, access by access (`Effective`).
* *Low power client.* The system suspends whenever nobody holds a wake lock: never
  in the middle of the work of one who got his lock, and yet keepalives and answers
  must go on (`AwakeAtWork`, `Responsive`).
* *Tools.* The statistics count devices over rows whose columns the program may
  misread (`CountsRight`); an array is written while `read()` and `write()` cut the
  data at will (`ArrayRight`); six bits at a time, line ends and padding among them,
  become bytes in a buffer that is used again (`FirstVideo`).
* *Record viewer.* A hand-written quick sort with a stack of its own, a hash table
  with three rounds of probing, any call failing (`Sorted`, `AnswersAll`).

PROJECT.json lists each of these hazards at the line where it bites.

## 2. The modules

| Module | Models | State and actions, against the code |
|---|---|---|
| `ByteStream` | the bytes of one connection | constants only: a byte is its *position*, so that a copy that drops, doubles or reorders bytes shows |
| `PacketFifo` | what the packet receiver promises | `Deliver` the next acceptable packet, `Close` when the peer closed and none is left, `Overrun` when the next one does not fit; `status` says which end was reached |
| `Packet` | `dw_get_packet()`, `read_cached()` and the callers' loop | `mem`, `buf`, `pos` are the cache, `dp`, `ctxlen` the packet; one action from one look at the socket (or retry label) to the next; `Overrun` is a copy that would leave `dp` |
| `PacketWriter` | `dw_write_command_data()`, `write_socket()` | `frames`, `result`, `left` are the calls and the locals, `wire` what the socket took; one action for each `send()`; the peer is the abstract receiver |
| `TimerQueue` | the promise of `timerqueue.c` | a sequence in order of expiry and the cached `next` |
| `Timer` | `timer.c`, `timer.h` and both mains | extends `TimerQueue`; `pc` is where the loop is, `pos`, `curr` the locals of `process_timer()` |
| `RbTree` | `rbtree.c` and `timerqueue.c` | the tree with its pointers; one action for each turn of a loop; left and right are one parameter, as the C code is written twice |
| `Client` | `client.c` under `main.c` | `sock`, `watch` are the kernel's view of each descriptor, `event` the one in `main()`'s hands |
| `Server` | `server.c` under `main.c` | `mem` is what `malloc()` has given out; `events` the rest of the batch |
| `LowPower` | `low_power_consume_app.c` | `pc` is where `main()` is, `thread` where each timer thread is; `sockLock`, `timerLock` are the two wake locks, `mainBare`, `bare` who goes on without, `asleep` the kernel |
| `LogFile` | `file.c` | `main`, `old` are the disk, `num`, `index`, `size`, `fd` the struct, `total` the sum kept beside them; `new_file()` is one action for each system call; `Crash` and `Start` |
| `Logd` | `serverfn()`, `parse_packet()` | the queue of the socket, `heads`, `uhead`, the watchers; one action for each `sendto()` |
| `LogFilter` | `alloc_filter()`, `filter_log()` | operators; a filter is two sequences of rules, `AddCommand` is one turn of the loop over the commands |
| `Rclog` | `send_log()` and what it calls | `loggers` is the table, `desc` every descriptor of the process; one action for each call |
| `RecordSort` | `quick_sort()` | `l`, `r`, `i`, `j`, `k` and the stack of the code; one action for each exchange or insertion |
| `Record` | `main()` of `record.c` | extends `RecordSort`; the list, the table, the answer of a search |
| `Track` | `src/track` | a row is its uid, its type and whether texts are empty; one action for each row and each line of the csv file |
| `FromBin` | `frombin.c` | one action for each `read()`, line, `write()` |
| `Har` | `har.c` | one action for each entry and each character; `Put` is the bit arithmetic of lines 118-144 |
| `I2cDevs` | `example_i2c.c` | the table with its counts; what the lock makes atomic is one action |
| `GpioIrq` | the interrupts of `example_gpio.c` | request and free step by step, the interrupt thread beside them; `stage` is where it is in the handler: value read, read failed, callback called |
| `GpioPins` | the pins of `example_gpio.c` | a call is the sequence of its accesses to /sys, one action each |
| `GpioI2c` | `gpio_i2c.c` | `place`: the pin step of a turn, what a function does for a bit, a byte or in all; `slave` follows the two lines |
| `PacketProofs`, `TimerProofs`, `RbTreeProofs`, `ClientProofs`, `DaemonsProofs`, `LogFileProofs`, `DriversProofs`, `ToolsProofs` | - | theorems and proofs |
| `MC...` | - | instances for TLC: streams and tables, initial states, a view; `MCPacket`, `MCClient` (the two clients and a program that logs), `MCTools` and `MCDrivers` put programs that share nothing side by side, a behaviour is of one of them; `MCDaemons` holds the two servers, each with a specification of its own |

Composition: `Timer` EXTENDS the abstract `TimerQueue`, and `RbTree` shows that
the concrete queue implements it (`QueueSafe` is `TQ!QSpec`); `Packet` implements
`PacketFifo`, and the peer of `PacketWriter` is that FIFO, over a `ByteStream`
that grows with what the writer's socket takes. `Client` and `Server` use of the packet reader that a read succeeds
or finds the connection closed, which is what `PacketFifo` promises; `Client` uses
of the timers that one that is set fires, which is `EveryTimerServed`. `Logd`
takes what a watcher wants as a set of senders: `LogFilter` says which set the
rules make, and `LogFile` what becomes of a message that is written.

Conventions. The constant `Faults` of a module names the calls that may fail;
with `Faults = {}` nothing fails, and every run has all of them. `None`, `NoFd`,
`NoPtr`, `Nil` are model values for "no such thing" (0, -1 or NULL in the code).
A definition under a comment that begins with `Mutant:` is no part of a
specification: it is the definition next to it with a plausible bug, kept so that
one can put it in its place and see which property notices. Left out everywhere:
the text of messages, `printf()`, and fields that nothing reads.

## 3. The runs

In the directory of the modules, `tlc -config X.cfg M` runs one of them.

| Run | Module | Distinct states | Properties |
|---|---|---|---|
| `packet_garbage` | `MCPacket` | 24 708 | `Window`, `NoHeaderSkipped`, `WholeUntilError`, `FifoLive`, `Heals` |
| `timer` | `MCTimer` | 1 610 781 | `QueueConsistent`, `NoOversleep`, `FiresInOrder`, `EveryTimerServed` |
| `rbtree` | `MCRbTree` | about 800 000 | `WellFormed`, `QueueSafe` |
| `client_faults` | `MCClient` | 25 709 | `CallbackFits`, `OneSocket`, `RetryOnlyWhenDown`, `OthersUntouched`, `KeepsTryingUnlessFailed`, `AwakeAtWork`, `Responsive`, `NoSocketLost`, `OthersLeftAlone`, `GetsThrough` |
| `server_batch` | `MCDaemons` | 14 404 | `BatchFresh`, `ViewsAgree`, `Released` |
| `logfile_faults` | `MCLogFile` | 1 888 534 | `BooksRight`, `CleanupWorks` |
| `logd` | `MCDaemons` | 392 480 | `WriterHasFile`, `Served`, `DeadForgotten` |
| `logfilter` | `MCTools` | 1 063 570 | `LastRuleDecides`, `CountsRight`, `ArrayRight`, `FirstVideo` |
| `logfilter_in` | `MCLogFilter` | violated | `InRulesInclude` |
| `drivers` | `MCDrivers` | 544 199 | `BusesRight`, `ListedWatched`, `BusProtocol`, `Effective`, `Delivered` |
| `record` | `MCRecord` | 8 105 237 | `Sorted`, `AnswersAll` |

The bounds, and why they are enough for the case in question:

* `packet_garbage`: one stream of 28 bytes with a stray `@`, a payload that looks
  like a header, a damaged header whose bytes reach into the next packet, two
  packets back to back, one without payload, and a header that asks for 4 bytes where
  the payload buffer has 2; the peer may close anywhere, in the middle of a packet too.
  The header has 4 bytes and the cache 5, so that a packet wraps the cache at every offset;
  every way the network can cut the stream is enumerated. The proofs (section 5)
  lift the safety part to every stream and every size. The writer: payloads of 0, 2
  and 3 bytes, of which the last is refused; a socket that holds 5 bytes, so that a
  frame of 6 never fits in one call; three frames: one that is cut off, one that
  falls into its hole, one behind it.
* `timer`: three timers (the one that fires, one its callback touches, one that
  waits), timeouts 0, 1 and 2: equal, earlier, later, and due at once. Every callback
  may do anything to any timer, as often as it likes. A time that lies ahead is at
  most 2 (`Within`); a timeout of 0 is possible at any time, so that callbacks
  that set their timers again without end stay in the run when no clock value is
  left. The clock goes on until everything that can be set is due.
* `rbtree`: the climb of `____rb_erase_color()` after a color flip needs a tree of
  ten nodes. Ten nodes in every order would be too many, so `AddedOnce` lets TLC
  add nodes 1 to 10 in that order, each once except node 1, which returns with any
  key at any time; erasing is free. `LargeView` leaves out of the fingerprint what
  a cleared node still holds from an earlier life: adding a node writes all of it
  before reading any. Keys 1 to 3 with many equal ones reach both ends and the
  middle. Every action and both mirrored halves of every case occur.
* `client_faults`: three descriptors, so that the client's old number can be in the
  hands of another thread while it has a new one. The low power client has two
  addresses to try and two timer threads, the fewest that overlap; with both at
  work a further expiry starts none. Every lock and unlock may fail. The program that logs has one logging thread,
  two groups and three descriptors; see section 6 for what two threads do.
* `server_batch`: three structs, three descriptors, a batch of two: three ready
  descriptors are one more than a batch holds, and an address can be freed and given
  out again in one batch.
* `logfile_faults`: two logs, archive slots 0 to 3, at most 6 files, a clean-up step
  of 2. These are the smallest numbers with 2 * logs <= `MaxFiles` - `CleanStep`,
  the condition under which the clean-up finds what it looks for (the code's 512
  and 16 allow 248 logs). A full file is one message long; sizes beyond the limit
  are not told apart. The two logs are symmetric, and no liveness is checked here.
* `logd`: an address that only logs, one that only watches, one that does both;
  three registrations, so that a watcher is in the list twice and another once.
* `logfilter`: every list of up to three commands over two programs (one with a
  one-character name), two groups and none, two levels. Three commands are two
  rules for a program with `all` in any place, or three rules. The same run has
  three tools. Statistics: three rows in six shapes of table (the type is in the
  third column instead of the twelfth), devices of two types, all types of
  connection that differ. Array: files of 0 to 6 bytes with a line of 2 and a buffer
  of 3, so that neither divides the other, in every cut. Video: every text of up to
  five characters of five kinds (two codes, `=`, a line end, one that is invalid: one
  group of four and the next, with padding anywhere), a buffer of 3 bytes, an entry
  before or behind.
* `drivers`: one driver in each behaviour. I2C: three buses for a table of two, two
  threads, three contexts; interrupts: two pins, two contexts, three descriptors, every call and read may fail;
  bit-banging: bytes of two bits (the functions treat all bits but the last of the
  address alike), reads of one and two bytes, a slave that answers, refuses,
  stretches, or is stuck in any bit at the start. Pins: two threads on one pin, every
  access may fail.
* `record`: five rows with all dates from 0 to 2, segments of at most two left to the
  insertion sort, two hash values for four buckets, four patterns of uids: one
  device, five (one more than there are buckets), two that mix.

`CHECK_DEADLOCK FALSE` stands where the program may really stop: a closed
connection (`packet_garbage`), a client after a failed local call
(`client_faults`), a program or function that has ended (`record`, `drivers`,
`logfilter`, `logfilter_in`), and `rbtree`, where the ten nodes are used up.

The configurations `server_batch` and `logd` give the constants of the daemon that
stands still the smallest values there are.

`logfilter_in` is expected to fail: `InRulesInclude` is what the comment at
`src/log/logd.c:43` says ("0 indicate all is excluded except those in inhead").
The code adds the rules of `in:` commands to `exhead` (line 220), so `inhead` stays
empty and a watcher that asks only for what it names gets nothing.

## 4. Fairness

Every safety property holds without fairness. The liveness properties use:

* `Packet`: weak fairness of the receiver; the loop runs whenever the socket is
  ready (level triggered). The network and the peer owe nothing.
* `PacketWriter`: weak fairness of the peer, whose loop goes on reading. Nobody has
  to write.
* `Timer`: weak fairness of the loop (one thread, callbacks return) and of the
  clock. Events need never come, and callbacks may set timers for ever.
* `Client`: weak fairness of `epoll_wait()` for each ready descriptor, of the
  handler and of the timer, and of a connection attempt to end one way or the
  other, because TCP gives up. The peer need not accept, ever.
* `LowPower`: weak fairness of the timer's expiry; strong fairness of `main()` and of
  each timer thread, because a system that suspends disables them now and then. That
  it ever suspends, or that the network wakes it, is not assumed.
* `Server`: weak fairness of the handlers; strong fairness of `epoll_wait()`
  reporting a given descriptor. The kernel keeps ready descriptors in a queue and
  moves a reported one to its end, so one that is ready again and again is
  reported although a batch has no room for all.
* `Logd`: weak fairness of the daemon and of a watcher reading its socket.
* `Rclog`: weak fairness of the steps of `send_log()`; strong fairness of
  connecting and of sending, for each group: these fail now and then, not always.
* `GpioIrq`: weak fairness of the interrupt thread, which does nothing else. Reading
  the value of a pin may fail any number of times; `Delivered` is about pins for which it does
  not do so for ever.

## 5. Proofs

All for arbitrary constants under the named ASSUMEs of the modules
(`SizeAssumption`, `TextAssumption`, `HeaderAssumption`, `CacheAssumption`,
`SocketAssumption`; `TimersAssumption`, `TimeAssumption`; `NodesAssumption`, `ExpiriesAssumption`;
`ClientAssumption`, `LogAssumption`; `ServerConstants`; `LogdAssumption`; `LogFileAssumption`;
`I2cAssumption`, `IrqAssumption`, `BitsAssumption`; `LogFilterAssumption`, `TrackAssumption`,
`FromBinAssumption`, `HarAssumption`, `RecordAssumption`), which
TLC evaluates on the instances, and in three theorems a hypothesis that is named
with them below. Each part has the same layout: an inductive invariant, that
`Init` implies it, a lemma for each action or group of actions, and the theorems.
Where an MC module puts programs side by side, a step of the whole is a step of
one of them, or none, and the theorem about the one becomes a theorem about the
specification TLC has run.

* `PacketProofs`, the receiver. `IInv` is `TypeOK`, `Bounds` (the indices fit
  together), `Window`, `NoHeaderSkipped`, `LenTrusted` and `OverrunByLength`. The length
  field is any number up to `MaxLen` (65535 in the code), whatever the size of `dp`: a
  copy that would leave `dp` is the step `Overrun`, and the promises end there.
  `OverrunOnlyByLength` says that this takes a header that passed the crc and a length
  above the limit; `StaysInBuffer` says that a stream without such a header, in its
  garbage too, never makes a copy leave `dp`. `LenTrusted` is what makes the others inductive: how
  many bytes are asked for next depends on `dp->len`, which is only meaningful for a
  header whose crc was right. `NoHeaderLost` rests on `NoOverlap`: a header starts
  with `@`, so the byte behind the `@` of one is no header, which is why `BadCrc` may
  drop two bytes. `RecvAlwaysHasRoom` says that `recv()` is never offered 0 bytes.
  `ImplementsFifo` shows the refinement of `PacketFifo`, the overrun included; its hard
  case is that at the disconnect no complete packet is left (`NothingLeftAtEnd`).
* `PacketProofs`, the writer. `FramesArriveWhole` for frames of any length, a socket
  of any size, and any number of calls and bytes that `send()` takes. As long as no
  call has failed there is a place `S[f]` for the first byte of each frame, one behind
  the other (`Places`), the byte at `p` is number `p - S[f]` of the frame it lies in, up
  to the bytes `write_socket()` has left (`Written`), and what the peer has are the
  first frames (`Delivered`). The peer sees only headers, so the main lemma,
  `NextIsNext`, is that the next header behind what it has is the one of the next
  frame. A failed call ends all of this; what is left then, `Heals`, is about fairness.
* `TimerProofs`. `IInv` is `TypeOK`, `QueueConsistent` and `NoOversleep`. The first
  half of the file is about sequences in order: where an insertion goes, that it
  and a removal keep the order, and that the cached first element follows.
  `FiringOrder` is an action property that follows from the invariant.
* `RbTreeProofs`. `WellFormed` for any number of nodes and any keys, between calls and
  at every turn of the loops of `__rb_insert()` and `____rb_erase_color()`. `IInv` says
  for each of the four places of the program (`AtRest`, `Descending`, `Inserting`,
  `Erasing`) that the tree is `Sound`: the pointers mirror each other (`Linked`), red
  is under red at most at one node, and there is a function h from the nodes to the
  numbers that grows by one with each black node on the way up (`Even`). This h stands
  for "all paths have the same number of black nodes", which is what `WellFormed`
  says of the paths themselves: with it a step needs to be looked at only where the
  tree changes. In the erase the paths on one side of `par` are one short, and h is told so by
  a `Debt` at that place. `Replaced` says that a tree is another one but for a few nodes
  at the top of a subtree; `ReplacedEven` and `ReplacedRed` carry soundness over from the
  nodes that changed, and every rotation (`Turned`, two at once in `Doubled`) and
  recoloring is an instance. A node with two kids is erased as its successor is, and the
  successor then takes its place (`Renamed`). `BlackCountsIs` shows that the recursive
  function over the tree in `WellFormed` is h: `Rank` falls with every step down, so among
  nodes at which the two differed there would be one whose kids are none of them. The
  walk to the successor ends for the same reason.
* `RbTreeProofs`, the queue. `QueueSafe`: the tree with its cached first node implements
  `TimerQueue`, for any number of nodes and any expiries. The refinement mapping takes the
  queue to be the nodes from left to right; `InOrder` is a recursive function over the
  tree, and `ListOfIs` shows that it is whatever list each node has between those of its
  kids (`Ordered`), again by a node of least rank at which the two would differ. From
  there the proof is about lists: a rotation regroups a concatenation and leaves it
  as it is (`TurnedOrder`, `DoubledOrder`), taking a node out, renaming the successor and
  adding a leaf replace one node of the list by none, one or two (`Put`), and the successor is
  the next in the list. `QInv` says that this list is in the order of expiry, that
  `head->next` is its first node, and, while `timerqueue_add()` descends, that the list
  is u, what is left below `node`, and v, where all of u expires no later than the new
  node and all of v later (`Between`), and `par` is the last of u or the first of v. At the
  end nothing is left below `node`, and the leaf goes between u and v, where
  `TimerQueue` puts it (`PlaceIs`).
* `ClientProofs`, the client. `IInv` is `TypeOK`, `CallbackFits`, `OneSocket` and
  `RetryOnlyWhenDown`; none is inductive alone: that a second socket is never made
  needs that the timer is not set beside one, and that needs that the right
  callback runs. `OthersStayUntouched` follows: whatever `close()` is called with is
  a socket of the client's at that time.
* `ClientProofs`, the low power client. `AwakeAtWork` for any number of addresses and
  timer threads, whichever locks and unlocks fail. The strengthening says who holds
  which lock: `main()` has its own wherever it is at work behind line 306, unless its
  last `wakeup()` failed (`mainBare`), and as long as no two timer threads have
  overlapped, the one at work has the other, unless its own failed (`bare`).
* `ClientProofs`, the program that logs. `NoSocketLost` and `OthersLeftAlone` for any
  number of groups and descriptors and any failing calls, under the hypothesis
  `OneLogger` (section 6 says what two threads do). Between a failed `send()` and the
  assignment in line 185 an entry names a descriptor that may belong to anyone;
  `LogInv` leaves this one entry (`Replaced`) out of what it says of the table, and
  says instead what the thread knows of the table at each place (`KnowsTable`).
* `DaemonsProofs`, the server. `IInv` is `TypeOK`, `BatchFresh`, `ViewsAgree` and `Distinct`: no
  descriptor is twice in the rest of the batch, which is why the struct freed by one
  event is not the one of a later event.
* `DaemonsProofs`, the log daemon. `WriterHasFile`, with `WalkInList`: whoever is closed in the middle of
  the loop over the watchers, the next one is in the list or the loop is over.
* `LogFileProofs`. `BooksRight` and `CleanupWorks` for any number of logs and all
  limits, with every call failing and logd killed between any two. `BooksRight`
  says that `total` is the sum of the counts of the logs in the table. The sum of
  a function over a set is modelled as the number of pairs <<log, n>> with n up
  to the count of the log, less those up to the count below zero (`Sum`), which needs
  no recursion: `SumAdd`, `SumIncr` and `SumDecr` say what another log and a changed
  count do to it. The books are inductive only
  with what the job knows where it is: in the clean-up `total` has come down from the
  limit by no more than `times` (`Total`), and a log whose archive is to be replaced
  counts no file that is not there (`Room`). `CleanupAlwaysWorks` has the hypothesis
  2 * Cardinality(Logs) <= MaxFiles - CleanStep (248 logs in the code; with more
  the search can go on for ever, section 6): a total above two files per log means
  that one log has three, so an archive that is not in the way is found.
* `DriversProofs`, I2C. `BusesRight` for any number of threads, contexts, buses, slots
  and descriptors. `IInv` says that a bus has one slot, that its descriptor is open
  for the bus, that a context, and a thread that is making one, have the descriptor of
  a slot of their bus, and that the count is the number of both. `Takes` is the fact
  on cardinalities all steps rest on; `DelSlots` is the part that giving back a
  descriptor has in common for a context and a thread: when the count reaches
  zero nobody has it any more, so closing it leaves the others alone.
* `DriversProofs`, interrupts. `ListedWatched` for any number of pins, contexts and
  descriptors. `IrqInv` adds that every context has a descriptor of its own
  (`OwnDescriptor`) and what the requesting thread has in its hands at each of its
  steps (`InHand`): between `malloc()` and the list a context exists that only the
  thread knows.
* `DriversProofs`, pins. `Effective` for any number of threads. A call is a sequence
  of accesses, and `Underway` says which remainders it can have; `Holds` is what the
  accesses done so far have brought about, for a call nobody has disturbed. It must
  say of a call in progress that its direction is set before the level is read.
* `DriversProofs`, bit-banged I2C. `BusProtocol` (theorem `BytesArrive`) for any width of a
  byte and any length of a read. A function is a walk through turns, each a few pin steps
  for one bit, and `InStep` says for each kind of turn (`AtSend`, `AtAnswer`, `AtTake` and
  so on) where the slave is at each step: in the same bit of the same byte
  (`Took`, `TookBits`, `Sending`, `ReadBytes`, `ReadBits`), with the clock high only when it
  does not hold it (`ClockAt`). Without that last part a bit could be taken before the
  slave has let the clock go. `Moved` is what a transfer has done when it is to be
  ended, from whichever byte; `Toggled` counts the bits a stuck slave has left by the
  turns of `restore_i2c()`, which is why W + 1 of them (nine) are enough. The invariant
  is about steps up to which the clock was not driven against the slave (`forced`);
  after that nothing holds. There is a lemma for each turn and one for the slave
  letting go of the clock, which it does between any two steps of the master.
* `ToolsProofs`, filters. `LastRuleDecides` for registrations of any length.
  `hlist_add_head()` turns the order of the rules: `Turned` says that the last rule given
  for a program is the first one in the table, or that there is none. The rule
  for another program moves all places by one and changes nothing for this one.
* `ToolsProofs`, statistics. `CountsRight` for any column of the type. Before the files
  are known to be as expected nothing is said (`Counted` has `Expectable` as its
  premise, which no step changes). One more row adds one to one of the four counts of
  its device (`CountsTheRow`), and a line of the csv file adds disjoint sets of rows to
  the sums (`AddsTheLine`).
* `ToolsProofs`, the sort of the record viewer. `Sorted` for lists of any length and
  any threshold M. What the partition does for the order is not needed, and the
  proof does not claim it (section 6): the insertion sort at the end would sort any
  array. What is needed is that every exchange is within the array, so that no record
  is lost or doubled (`SwapKeeps`, `InsertKeeps`), and for the stack that the segments
  to do and the one in hand have no place in common and are not empty (`Segments`),
  so that there are never more than n (`SegmentsBound`). Not proved is that the sort ends.
* `ToolsProofs`, the hash table of the record viewer. `AnswersAll` for any number of
  records and uids, any hash and any size of the table. `TableFine` says that a bucket
  has the records of one uid and a uid has one bucket, and, for the latter to
  last, that the buckets tried before the one of a uid are not empty. Two facts carry
  it: a record put into the first bucket that is empty or its own keeps this
  (`AddedFine`), and a record that finds none has one uid more than there are buckets
  (`NoneFree`). `LoadInv` follows the records from the dump into the list, the table and
  the answer.
* `ToolsProofs`, the array. `ArrayRight` for inputs of any length, any line length and
  buffer, and however `read()` and `write()` cut the data. That two sequences are the
  same but for line ends is said with places instead of a filter (`WithoutLineEnds`):
  each other unit has as many before it in one as in the other. `StrippedBoth` says that
  this goes on through a concatenation, and the invariant is about `Whole`, what will
  be in the file when `write()` has taken all it was given.
* `ToolsProofs`, the video. `FirstVideo` for sessions and texts of any length and any
  buffer. `Holds` says of the bytes of n codes where they end and that the bits still
  open in the last one are zero; this is what makes adding the next code into that
  byte leave the bits there as they are (`HighBits`, `CodeBits`), and `PutTakes` is the
  step from n codes to n + 1, by the four values of `prefix`. `Decoding` follows
  the place of each bit of each code. That the entries before cannot be decoded
  follows from the count of codes, which only grows (`RankIs`). `FirstVideo` counts the
  characters that stand for data, the decoder all it takes for a code, `=` too; where the
  padding is behind the data both counts are the same for each character of the
  data (`DataIs`, `CodeRank`), so the bytes before the excess are the video's.

Facts about least elements of sets of numbers are proved from the library's theorem
on well-founded relations that speaks of a minimal element, which is first-order;
the induction theorems themselves take an operator and cannot be used.

Only model-checked: all liveness properties (and `FifoLive` with them, of which
`ImplementsFifo` is the safety half).

## 6. What the models say about the code

Things met on the way that no property of the runs states, because they do not
hold, or because they are facts about one line. The models have them.

* Client and server: after `socket()`, `connect()`, `epoll_ctl()` or `malloc()` fails
  the client returns without setting its timer and never tries again
  (`src/client/client.c:164` and behind); `KeepsTryingUnlessFailed` has to exclude
  it. When `accept()` or `dw_init_packet()` fails the struct is not freed
  (`src/server/server.c:120` and `:125`; "leaked" in `Server`).
  A socket without an `io_context` (`src/packet.c:25` reads through the pointer)
  is a failed call in the models, `Connected` and `NoContext`; the program would crash.
* Packet reader: `dp->len`, two bytes of the stream, is compared with nothing
  (`src/packet.c:91` and `:126`). A header with a right crc, in garbage or damage by
  chance, whose length is above `RCPACKET_MAXPAYLOADSIZE`, makes `read_cached()` write
  behind `*ctx->dp`. The model goes to `overrun` there, and no property says anything
  of what follows. The resync copies between overlapping areas with `memcpy()` (lines 114
  and 121), for which C defines nothing; modelled is what a build makes of at most
  eleven bytes, a copy towards the front. The test of the second crc byte (line
  119) needs a `char` that is signed: without, no header would ever be accepted.
* Log files: after a rotation that failed, `file->fd` names a closed descriptor
  (`src/log/file.c:136`). The next `open_logfile()` may get that number, and two logs
  then write to one file. With more than 248 logs the clean-up can search for ever.
  A `write()` that fails, as on a full disk, is not among the faults, and
  `BooksRight` counts a log's own file as there also in the middle of a rotation, when
  it has been renamed and the next one is not open yet.
* Log daemon: a watcher that registers again before a message has found its
  predecessor dead is in the list twice (`src/log/logd.c:317`; line 288 looks among
  the loggers). `get_pgl()` does not advance behind the 63rd character of a name
  (line 86). A level beyond the table is replaced by the index behind its end
  (line 326).
* Filters: the newest rule for a program decides alone, whatever earlier ones say
  (line 123), and the rules of a program with a one-character name are never found:
  their bucket is computed from `p/`, that of a message from `p` (line 206).
* Logging library: two threads that send on the same broken socket both close it
  and both replace it (`src/log/socket.c:169`): `OthersLeftAlone` and `NoSocketLost`
  hold for one logging thread and not for two. `check_dir()` failing leaves the
  socket open (line 60). The `errno` tested in line 160 may be an old `ENOMEM`, and
  then nothing reconnects; `GetsThrough` excludes both.
* Interrupts: `free_gpio_irq()` frees the context of an event that the interrupt
  thread has fetched and not handled (`src/hw/example_gpio.c:358`; `lost` in
  `GpioIrq`). It also sets the edge of the pin to "none" while a second request of
  the same pin may be in the list. When reading the value fails, the return value of the
  handler is not looked at (line 359) and the event comes again at once: a read
  that fails for ever keeps the thread busy (`Delivered` excludes it). The older copy in `src/hardware/example_gpio.c`
  does not close the descriptor at all.
* Bit-banged I2C: when a slave stretches the clock longer than the time-out, the
  master drives it high against the slave and reports nothing (`forced`).
* Record viewer: a row of a table without a uid column reads through a NULL pointer
  (`src/record/record.c:420`), and so does the sort when its stack cannot be
  allocated (line 604); the models leave both out. The pivot that `quick_sort()` exchanges at the end of a partition
  (`src/record/record.c:623`) may have been moved, so a partition need not be one; the
  insertion sort over the whole array is what sorts. The test for a full table
  (line 870) uses a bound that is not the one of its loop, and a record without a
  bucket is found by no search.
* Packet writer: `write_socket()` returns -1 on `EAGAIN` with part of a frame sent
  (`src/io.c:40`). The peer fills the hole with the bytes of the frames behind it;
  `WholeUntilError` and `Heals` say what is left of the promise. Nothing in the
  repository calls `dw_write_command_data()`.
* Low power client: `wakeup()` prints that a lock failed and returns
  (`src/hardware/low_power_consume_app.c:42`), and its callers go on without (lines 75,
  150, 305), as they do when the lock was never created (lines 299-300): the system may
  suspend in the middle of their work. `AwakeAtWork` is about those who got their lock.
  While the greeting cannot be sent `main()` tries again without a
  pause, with the lock held (lines 118-124); the unlock of one timer thread ends the
  lock of another (line 89), which is why `AwakeAtWork` says nothing of threads once
  two have overlapped; on an exit the locks stay held; an `EAGAIN` from `recv()` ends
  the program.
* Statistics: a connection of type 3 is written behind `success[]`, where `failed`
  happens to lie (`src/track/src/conn_log.cpp:136`). A text column has length 0 for
  the buffer of `sql_preinit_record()` (`sql.cpp:198`), so a row with a text is read
  out of step; an unknown column is dropped and the rows are out of step as well
  (line 122); rows nearer to the end of the file than a declared size are lost (line
  161). `CountsRight` is about tables without those.
* Array: an error of `read()` ends the array as the end of the file does
  (`tools/frombin.c:68`). Of an empty file the last two characters of the title are
  written over, the brace among them.
* Video: `_` and `-` stand for 62 and 63, the other way round than in the URL-safe
  base64 alphabet. `=` is decoded like six zero bits (`tools/har.c:93`), and the count of
  bytes is always one too high (line 147), so behind the video come one to three bytes
  that are not of it; a `=` in the middle shifts what follows, and of such a
  text only the length of the file is promised. The test for a full buffer (line
  112) lets the byte behind it be written.
* Pins: two threads that find a pin not exported both export it, and the second one's
  request fails (`src/hw/example_gpio.c:104`).
* Server: `handle_client()` reads until the socket is empty (`src/server/server.c:86`):
  a peer that sends as fast as it is read keeps the loop. The models leave open how
  long it takes.

## 7. Not modelled

* `src/hardware`: `example_i2c.c` and `hwreg.c` read and write single registers of a
  clock chip and of memory, which is pure I/O; `example_gpio.c` is an older copy of the
  library in `src/hw`, which is the one modelled.
* `src/edid.c`: prints one file and a sum of its bytes.
* `src/bitmap.c`, `src/find_next_bit.c`, `src/hweight.c`, `include/list.h`: from the
  Linux kernel; the bitmaps have no caller, and lists are sequences and sets in the
  models.
* Inside the modelled parts: two threads that both make the very first interrupt
  request, the text of a log line, the characters of rules and rows, JSON, `heap_sort()`
  and `scan_table()` of the record viewer, which nothing calls, and the rest of the
  red-black tree's interface (`rb_prev()`, `rb_replace_node()`, the augmented
  variants), which nothing calls either.

## 8. The plan

Every component that keeps state over more than one call has its modules, runs and
properties, and every safety invariant the runs check is proved, as is every action
property and refinement. What is left to TLC is in section 5.

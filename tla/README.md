# TLA+ verification of the question-game platform

The repository holds a small online board-game platform: a multi-threaded C server
(`src/code/branches/1`), an ActionScript client (`src/code/client/branches/1`) and the web
page that embeds the client (`html-template`). This directory specifies the parts whose
correctness depends on interleavings, lost wakeups, late events, pointer-level data
structures or arithmetic edges, model-checks them with TLC and proves the main results with
TLAPS. Paths below are relative to `src/code/branches/1` unless they start with `client/`,
which stands for `src/code/client/branches/1/src`, or with `html/`, which stands for
`src/code/client/branches/1/html-template`.

## 1. Inventory

### Server

| component | state | operations | who touches it |
|---|---|---|---|
| main (`main.c`) | `g_client_fds`, `clifd_mutex` | accept loop, init, SIGINT | main thread |
| receiving thread (`threads/thread_recv.c`) | `rfds`, `buf` | gather, `select`, `recv`, `_create_message`, push | one thread |
| message queue (`models/model_message.c`) | `lc_messages_qid`, `message_mutex`, `message_consume_cond`, message pool | push, pop, malloc, free | receiving thread, consumers |
| consumers (`threads/thread_message_consume.c`) | `pMsg` per thread | wait, pop, dispatch, free | 10 threads |
| controllers (`controllers/controller_*.c`) | `rooms`, `room_mutex`, user and connection records | login, list (empty), hall enter, sitdown | consumers |
| models (`models/model_{connection,user,room,table}.c`) | hashmaps, table status, hall member lists | set, get, broadcast | main, receiving thread, consumers |
| message coding (`lib/bsocket.c`) | cursors | read, write, flush | consumers |
| `lib/collections/bqueue.c` | linked nodes placed by address arithmetic | push, pop, size | under `message_mutex` |
| `lib/collections/bmemory.c` | pools of blocks of units, free and used lists | get, free, grow | every thread, no lock |
| `lib/collections/bhashmap.c` | buckets of entries | set, get, unset | every thread, no lock |
| `lib/collections/blist.c` | doubly linked list | insert, remove, walk | under `room_mutex` |
| `lib/db/mysql/bmysql.c` | two connectors, mutex, condition variable | query, execute, free result | any thread |
| integer keys (`lib/wraplib.c`) | none | `itoa` | through bhashmap |
| UNP wrappers (`lib/wrap*.c`, `unp.c`, `tcp_*.c`, ...) | none | system calls | all |

Everything runs in one process. Main hands descriptors to the receiving thread through
the shared array `g_client_fds`; the receiving thread hands messages to the consumers
through the queue; a consumer answers on the client's socket from inside its controller.
There are three application locks: `clifd_mutex` (taken by main only, so it protects
nothing from the receiving thread), `message_mutex`, and `room_mutex`. The memory pools
and the hashmaps are shared without a lock.

### Client

| component | state | operations |
|---|---|---|
| `client/benben/net/connectors/SocketConnector.as` | callbacks by context id, pending parameters | connect, request, response, server push |
| `client/benben/net/AssetsLoader.as` | queue of assets, index of the current one | load, manifest loaded, file loaded, complete |
| `client/benben/base/*` | current view, proxies | application start-up, view jumps |
| `client/application/proxies/*`, `views/*` | tables, user | login, get tables, sit down, update tables |
| `client/wzq/Chessboard.as` | board, whose turn | place a stone, decide the game |
| widgets, `client/bui`, `client/com/adobe` | display objects, library code | drawing; third-party |

### Page

| component | state | operations |
|---|---|---|
| `html/history/history.js`, `historyFrame.html` | what the address was last (`currentHref`), stacks, table of states, hidden frame | start, move of the application, event, poll, load of the frame |
| `html/swfobject.js`, `index.template.html` | functions waiting for the DOM, registered objects, version of the player, the installer | register, embed, load events, probe, match, install |

The copies under `bin-debug` are the same files. A page has one thread: a handler runs to its
end. What interleaves are handlers: events, timers, loads, and the calls of the page, the user
and the Flash application.

### What is hard here

* **Interleavings**: main publishes a descriptor before it registers the connection;
  consumers take messages of one client in any order; buffers pass between threads.
* **Lost wakeups**: the consumers wait with no predicate, so a signal sent while all of
  them are busy is lost and its message stays queued until a later signal.
* **No message boundaries**: `recv` may return several requests at once, of which only the
  first is handled, or part of one, whose rest is taken for the next message.
* **Pointer arithmetic and limits**: `bqueue` places nodes behind its header, outside its
  memory too; each registration of a map makes new pools, and leaves older maps to free into
  the wrong ones; pools, tables of descriptors and connectors have limits.
* **Numeric edges**: `itoa` is wrong from 100 on, and is what hashmap keys are made with.
* **Cut streams**: the client takes one socket event for one message, whatever it holds.
* **Late news**: the address bar, the application and a hidden frame tell each other of moves
  through events, polls and loads, each of which may come after the next move.
* **Several answers to one question**: up to five events say that the document is ready, two
  versions of the player are known at different times, and requests compete for one installer.
* **Process-wide failures**: a NULL pointer in one consumer, a write to a client that has
  gone, or the 5001st descriptor ends the server for everybody.

### What makes each component correct

| component | correct when | stated by |
|---|---|---|
| message queue | a buffer has one owner; none leaks; a waiting message is owed a wakeup unless a signal was lost | `SingleOwner`, `NoLeak`, `SignalCoverage` |
| main, receiving thread | a client's record exists whenever its descriptor is used | `SlotsRegistered`, `MessagesHaveConnections` (violated) |
| consumers, controllers | a response goes to whom it belongs, once, and in the right relation to what the server recorded; requests are answered | `HandlesWhatItHolds`, `RepliesMatchRequests`, `EffectBeforeReply`, `ReplyBeforeSeat`, `EveryRequestAnswered` |
| bqueue | below its capacity it is a FIFO whose linked nodes are where the arithmetic puts them; how long it keeps to its memory | `IsFifo`, `Chained`, `LeavesBlock` |
| bmemory | chunks do not overlap, nothing is lost, neighbours merge | `UnitsAccounted`, `FreeListOrdered`, `UsedListIsLive`, `IsAllocator` |
| bhashmap | it is a map, whatever other maps are registered; no unit has two users | `IsMap`, `BucketsSound`, `UnitsOwned` |
| integer keys | distinct integers have distinct keys that fit | `RendersDecimal` (violated), `DropsInnerZeros`, `OverrunsAtTen` |
| bmysql | a connector has one user; calls return | `Ownership`, `CallsReturn` |
| client | views are sound and find their assets, tables are built once and current, requests complete | `StageSound`, `AssetsBeforeViews`, `TablesBuiltOnce`, `TablesCurrent`, `RequestsComplete` |
| browser history | application and address bar meet again, nothing takes back the application's own move, the stacks follow the page, handlers come to rest | `InSync`, `OwnMoveStands`, `CurrentOnTop`, `Settles` |
| SWF embedding | a request is answered, once and with the truth, on the right version; what was hidden is shown; one installer | `RequestsAnswered`, `ToldTheTruth`, `DecidedOnPrecise`, `NothingLeftHidden`, `OneInstaller` |

## 2. Modules

| module | models | role |
|---|---|---|
| `MessageQueue` | `model_message.c`, the loop of `thread_message_consume.c` | the queue and its users |
| `Server` | `main.c`, `thread_recv.c`, dispatch, controllers, what they write of the models | extends `MessageQueue`; its actions are conjuncts here |
| `Fifo` / `Bqueue` | `bqueue.h`'s promise / `bqueue.c` with addresses | abstract / detailed |
| `Allocator` / `Bmemory` | `bmemory.h`'s promise / one pool of `bmemory.c` with its pointers | abstract / detailed |
| `Map` / `Bhashmap` | `bhashmap.h`'s promise / one map of `bhashmap.c` with entries and cells | abstract / detailed |
| `Itoa` | `itoa` and `_get_order_num` of `wraplib.c` | the algorithm, step by step |
| `Bmysql` | `bmysql.c` | threads, connectors, the timed wait |
| `AssetsLoader` | `AssetsLoader.as` | the sequence of files; `Client` extends it |
| `Client` | `SocketConnector.as`, `ViewManager.as`, loading, login, hall and room views, the hall's proxy | the client with the server it sees |
| `History` | `history.js`, `historyFrame.html`; the browser as they use it | the page, first part |
| `Swfobject` | `swfobject.js`; the DOM and the player as it uses them | the page, second part |
| `MC*` | | instances for TLC: constants, symmetry, bounds on histories |
| `*_proofs` | | the theorems about `Server` (and the queue in it), `Bqueue`, `Bmemory`, `Bhashmap` (with `Itoa`, the keys of its integer-keyed maps), `Bmysql`, `Client`, `History`, `Swfobject` |

`Server` contains the queue by conjunction: `ReceiveRequest` is `Malloc(b)` and what the
receiving thread does besides, `TakeMessage(k)` is `Pop(k)` and so on. That the server is a
`QueueSpec` holds by this construction; it is a lemma (`ServerUsesQueue`), which carries the
results about the queue over, and no property of its own. The queue in `Server` is a sequence;
that `bqueue.c` provides one, as long as nobody else uses the addresses it writes to, is
`Bqueue` implementing `Fifo`. Likewise the pools and maps of `Server` are sets, for which
`Bmemory` and `Bhashmap` implement `Allocator` and `Map`.

A definition whose comment begins "Mutant of" is a deliberately wrong version of the
definition after it: the bug a property is there to notice. No specification uses one.

### State and actions

* **MessageQueue.** `queue` is `lc_messages_qid`; `pool` the free units of the message pool;
  `filling`, `holding` the pointers of the receiving thread and the consumers; `consumer` the
  place in the loop (`waiting` is inside `pthread_cond_wait`, `woken` between the wakeup and
  the pop). A section under `message_mutex` has no blocking call and is one action; the signal
  is sent after the unlock and is another. `lost` counts signals nobody was waiting for.
* **Server.** `slots` is `g_client_fds`, filled in order and never cleared; `accepting` the
  connection between main's two writes (`main.c:51` and `:67`); `registered` the connection
  hashmap; `inbox` and `stream` the two directions of a socket; `msg` the contents of buffers;
  `at` a consumer's place in a controller. A step ends where another thread can see a
  difference: at a lock, a socket call or a write to shared data. `proc` names why the process
  ended; nothing moves afterwards. `ReceiveRequest` takes the first requests of a socket, all
  whole or the last one cut. The beginning of a request is read as one whose missing fields are
  zero (`Beginnings`: the buffer is cleared first); what follows the cut stays in the socket
  (`Rest`) and is read as anything `Garbled` holds. `ctx` 0 stands for a context id no request
  has. `cuts` counts the cuts and `swallowed` names the requests no message carries whole. An
  error of `select` leaves the receiving thread at "ended".
* **Bqueue.** An address counts nodes; `Stride` is `sizeof(bqueue_node)`, by which the pointer
  arithmetic of `bqueue.c:102` multiplies once too often. `value` and `next` are partial
  functions that grow with every address written; `unit` and `blocks` are the part of
  `bmemory.c` that says where the next unit is and which addresses the pool owns, with blocks of
  `Capacity` and then `Step` units, `Gap` addresses apart. `fault` is a dereferenced NULL.
* **Bmemory.** Unit `<<b, i>>` is unit `i` of block `b`; `mem` holds the headers of the free and
  used lists and the `size`, `pPre`, `pNext` of every unit, stale ones included, since both
  lists share the pointers.
* **Bhashmap.** `table`, `key`, `value`, `pre`, `next` are the fields of the C structs; `entries`
  and `cells` are the units in use of the two pools. All value cells have one size. A unit is
  `<<pool, place>>`: `init` (`bhashmap.c:13`) is never set, so `NewPools` belongs to every
  registration, of this map (`Register`) or of another (`RegisterAnother`), and `bmemory_free`
  passes over a unit that is of no block of the pool it is given (`Misplaced`), after which that
  unit is in `lostEntries` or `lostCells`. `RunOut` is the exit when no pools are left.
* **Itoa.** `left` is what remains in `value` after the digits in `str`; `overrun` is a write past
  the buffer, after which nothing is claimed. `OrderNum` carries ten to the order, which is how
  the order is used. `Rendered` names the digits without the zeros before the last one.
* **Bmysql.** `pc` follows a thread through `bmysql_get_connector`, the query and the release;
  `leaked` are connectors whose query failed. A timeout may happen at any moment of a wait.
* **AssetsLoader, Client.** `file` is the file being fetched: the handler of its load stores it
  under the id at `index`, without looking. `LoadingEnds` is the step that dispatches COMPLETE,
  and in `Client` it is one step with the jump to the login. `wire` is the TCP stream as whole
  messages; `SocketData(n, part)` is one `SOCKET_DATA` event carrying `n` messages and perhaps
  part of the next, `SocketDataCut` one that ends inside the first. The unread rest (`tail`) is
  later read as any message at all.
* **History.** `kind` is the browser as the script tells it: with the `hashchange` event, with a
  poll of the address, of the length of the history (Safari before 4) or of a hidden frame
  (Internet Explorer). `session` is the browser's list of entries, `href` the address, `event`
  and `loading` what has still to arrive. Each handler and poll is an action; a poll is enabled
  only when it would see a difference. `phase` is "loading" until `_initialize` has run, which a
  timer or an event calls: `SetDefaultURL` does not wait for it, except in Firefox and Opera,
  where `swfobject.js` embeds the application on the same event. A call that throws is a step
  that stops where the code does (`Thrown`, the first branch of `LoadDefault`). `blind`, `lost`
  and `session.untold` are histories that name the moves the code cannot notice.
* **Swfobject.** A handler that calls a list of functions is a sequence of steps: `todo` holds
  the rest of the list, and nothing else moves until it is empty. `events` are those that have
  still to come; which those are depends on the browser and on how far the document is. `elem`
  is what stands at the place of a request, `style` and `css` what hides it. In Internet
  Explorer `leaving` holds replaced elements whose `readyState` is polled: an object leaves when
  it was loaded, a div is polled for ever.

## 3. Runs

| run | instance | question, and answer |
|---|---|---|
| `server` | 3 clients, room for 2 descriptors, 2 consumers, 2 buffers; clients, requests (login, enter, sitdown) and cuts are 4 together | Have buffers one owner, is every waiting message owed a wakeup, do responses match requests and stand in the right order to the effects? Yes; sitdown is the one that answers first, and a client whose request was cut may get a response to what it never asked. |
| `server_live` | 1 client, 2 pipelined requests, one cut; SIGINT, `select` may fail | Is every request answered? Yes, except when recv joined or cut it, a wakeup was lost, the receiving thread or the process ended, or the client left. |
| `accept_race` | 1 client, 1 request | Does every message have a connection? **No**: see findings. |
| `bqueue` | capacity 4, stride 2, blocks of 4 and 3 units, 24 addresses, 2 values | Is it a FIFO below capacity? Yes, wherever its nodes lie. When do they lie outside its memory? From the size on that `LeavesBlock` names. |
| `itoa` | every descriptor 0..5003 | What does `itoa` compute? The digits without the inner zeros; it overruns exactly for 1, 0 before the last digit. |
| `itoa_keys` | the same | Is it the decimal number? **No**: see findings. |
| `bmysql` | 3 threads, 2 connectors | Has a connector one user, do calls return? Yes, though a failed query loses its connector. |
| `bmemory` | blocks of 5 and 2 units, requests of 1 and 2, 2 blocks | Is a pool an allocator, its lists ordered and complete? Yes. |
| `bhashmap` | 4 keys, 3 in one bucket, 2 values, pools for 2 registrations | Is it a map no two entries of which share a unit? Yes; units are lost to the pools of an earlier registration, and only to those. |
| `client` | 2 assets, 1 table, 3 clicks | Do views find their assets, and do views, tables and requests survive early clicks, reordered replies, pushes and arbitrary segmentation? Yes, up to the messages the handler swallows or a push that comes before the tables. |
| `history` | 8 kinds of browsers, 3 fragments, 4 moves | Do the application and the address bar meet again, whoever moved last, however late the other learns of it and however early the application starts? Yes, except after moves in the blind spots named under `InSync`. |
| `swfobject` | 1 static and 2 dynamic requests, 3 browsers, 4 states of the player, 3 pages | Is each request answered once, truly and visibly? Yes, except without an element or when registered too late. |

### Bounds, and why they are enough

* The hazards of the queue need one consumer that pops another's message while that one is
  busy or woken: `server` has two; the theorems are about any number.
* `MCServer` conjoins `MaxTotal`, a bound on clients, requests and cuts together, to the
  next-state relation: with 4, two clients make a request each (a race between clients), one
  makes two (pipelining, joined by recv, reordered responses) or one that is cut, one makes two
  of which one is cut, or a third client finds the table full. The fairness of the server's
  threads mentions no action it restricts. The race of main with the receiving thread needs a
  single request. Unknown requests, which garbled ones may be, take the same branch as "list".
* A garbled request is read as one thing in `server` and `accept_race` (a sitdown with the
  context id of a request) and as nothing known in `server_live`, which keeps the run short; in
  the theorems `Garbled` is any set. `server` leaves SIGINT to `server_live` (`QuietSpec`), and
  the VIEW `MessagesInUse` drops the contents of free buffers, which `ReceiveRequest` overwrites
  before anything reads them.
* `Conn` stands for descriptors whose keys are distinct, as they are below 100; what happens
  from 100 on is the subject of `Itoa`, which is checked on all descriptors `MAX_CLIENT` allows
  and proved for all numbers (`RendersBelowHundred` is the part `Server` relies on).
* Negative `roomId` and `tableId` (signed in C, compared with `<` only), which only a cut
  request could have, and descriptors from `FD_SETSIZE` on, which `FD_SET` writes past its set
  with, are undefined behaviour of the C code and left out.
* Capacity 4 lets `size % capacity` take every kind of value and a queue below capacity reach
  the length of a block; blocks of two sizes make the pool grow in between. `MCBqueue` stops at
  24 addresses (a few busy periods) and has a VIEW without the nodes pops left behind. No
  address is refused by `Bqueue` itself, and the theorems have no such bound.
* In `bmemory` 5 units are enough for a chunk with free neighbours on both sides, on one, on
  none and at either end; the second block has another size than the first.
* In `bhashmap` three keys in a bucket have a first, a middle and a last entry; the fourth
  reuses their entries in another bucket. A pool has as many units as there are keys, which
  is also an upper bound on what the map uses of it. Two registrations are enough for entries
  and cells of either pool in one bucket; the theorems are about any number. The VIEW `UpToCells`
  drops the fields of units that are in no use (`SetNew` overwrites all of them before they are
  read again, and `Unregister` reads them only within its own step), which cell of its pool a
  value is in, and the lost units, unless `CellsOwned` sees them. The symmetry permutes keys of
  one bucket, and values.
* Two assets are a first and a last one, and give the index something to be wrong about.
* In `history` four moves let each pair of a user's and an application's move happen in both
  orders with something still on its way, and let back and forward pass each other. They are
  not enough for everything: a first form of `InSync` excepted Safari before 4 only while an
  edited address was among its entries. It passed with four moves and was false with five (edit,
  reload, back, move over the edited entry, back: the table still has what it had before). The
  proof for any number of moves asks for the exceptions it has now, one of which (an entry the
  application overwrites before the table is read) it takes six moves to miss. Three fragments
  are the empty one, the default and another. Every branch on the user agent has its kind.
* `swfobject` has two dynamic requests, one that keeps the id of its div, and one static: two
  is what it takes to compete for the installer, from both kinds. One try of the probe before
  it gives up has both outcomes of the counter. The versions lie below the installer's minimum,
  between it and the movie's, and above (with a lower release); the browsers have the two ways
  of finding a version, and none; the pages miss a static or a dynamic element, or nothing.
* `client` needs login, get tables and one more click; a tail has every meaning a message may
  have. One table suffices as tables are updated independently.

`CHECK_DEADLOCK FALSE` stands where the system may stop: the process ends (`Server`, `Bhashmap`,
`Bmysql`), `itoa` returns, the user has no clicks or moves left, every request is answered, or the
addresses run out.

### Fairness

* `MessageQueue`, `Server`: weak fairness of the producer or receiving thread, of main, and of
  each consumer: the scheduler runs every thread that can run. Nothing is assumed of clients. A
  waiting consumer has no fair step, because a spurious wakeup is never owed.
* `Bmysql`: strong fairness of a thread inside a call. Others keep taking the mutex, so a
  thread that wants it is enabled again and again rather than continuously; the assumption is
  that a mutex is granted in the end, the database answers and callers free their results.
* `Client`: requests are served, replies sent and arrived data raises events (weak). The user
  need not click, how the stream is cut is not constrained, and a file may never come, as the
  loader listens to no error.
* `History`: what happens by itself goes on (timers, queued events, loads of the frame); the
  application and the user owe nothing.
* `Swfobject`: the document loads, handlers run to their end, the timer of the probe expires,
  and those events come that the browser owes (`load`, `readystatechange`, the direct call).
  `DOMContentLoaded` and the polls need not, and the user may never answer the installer.

## 4. Theorems

| module | theorem | assumptions on the constants |
|---|---|---|
| `Server_proofs` | of the queue: `QueueTypeCorrect`, `HoldingCorrect`, `SingleOwnerCorrect`, `NoLeakCorrect`, `SignalCoverageCorrect` | finitely many consumers; `NoBuffer` is no buffer |
| `Server_proofs` | of the server: `ServerSingleOwner`, `ServerSignalCoverage`, `SlotsRegisteredCorrect`, `ServerTypeCorrect`, `HandlesCorrect`, `RepliesCorrect`, `EffectBeforeReplyCorrect`, `ReplyBeforeSeatCorrect`, `OnlyTheWindow` | the above; `NoConn` is no connection; any payloads, limits and readings of a cut request |
| `Bqueue_proofs` | `BqueueTypeCorrect`, `ChainedCorrect`, `LeavesBlockCorrect`, `NoFaultCorrect`, `BqueueImplementsFifo` | any positive capacity, stride, step and gap; nothing else uses the addresses nodes lie at |
| `Bmemory_proofs` | `FreeListCorrect`, `UsedListCorrect`, `UnitsAccountedCorrect`, `PoolImplementsAllocator` | blocks of any positive sizes, any number of them; a request fits a block of either size |
| `Bhashmap_proofs` | `BucketsCorrect`, `UnitsCorrect`, `MapCorrect` | finitely many keys, any values, any hash into the table, any number of registrations; each pool has a unit for each key |
| `Bhashmap_proofs` | of the integer keys: `DropsInnerZerosCorrect`, `OverrunsAtTenCorrect`, `RendersWithoutInnerZero`, `InnerZeroIsLost`, `RendersBelowHundred` | any natural numbers that have no more digits than the buffer has characters |
| `Bmysql_proofs` | `BmysqlTypeCorrect`, `OwnershipCorrect` | any threads, any number of connectors |
| `Client_proofs` | `StageSoundCorrect`, `AssetsBeforeViewsCorrect`, `TablesBuiltOnceCorrect`, `TablesCurrentCorrect` | any manifest without repetitions, any tables, any number of clicks |
| `History_proofs` | `OwnMoveCorrect`, `CurrentOnTopCorrect`, `InSyncCorrect` | any fragments, any kinds of browsers, any number of moves |
| `Swfobject_proofs` | `ToldTheTruthCorrect`, `NothingLeftHiddenCorrect`, `OneInstallerCorrect`, `DecidedOnPreciseCorrect` | any requests, versions, browsers and pages, any number of tries |

* **Queue.** `TypeAndHeld` (types, and a thread holds a buffer exactly while it works on it) is
  inductive. `SingleOwner` is inductive relative to it: without it `Free` could return a buffer
  twice. `NoLeak` follows the buffer through the actions. `SignalCoverage` counts: a push adds a
  message and an owed signal; a signal turns what is owed into a woken consumer or a lost
  signal; a pop takes one of each. The cardinality of `Woken` is why consumers are finite.
* **Server.** Each step is a queue step or leaves the queue alone (`QueueStep`, by the definition
  of the steps), so the queue's theorems hold of the server. `HandlesWhatItHolds` alone is not inductive: a popped buffer must
  have been filled, and stay unchanged while it is held. `ServerInv` therefore adds
  `FilledBuffers` (every buffer outside the pool has a message in it) and the queue's
  `SingleOwner` (the receiving thread cannot be filling what a consumer holds).
  `RepliesMatchRequests` needs the way of a request: `RequestInv` says that, as long as no
  request of the client was cut, a serial number is in one place at a time: in the inbox, in one message buffer, or in a response once its consumer has
  replied (`InboxSound`, `BuffersSound`, `AnswersSound`); that nobody writes to the buffer in
  between is `SingleOwner` again. `EffectBeforeReply` and `ReplyBeforeSeat` hold by the place a
  consumer is at in its controller (`PlacesSound`): past the write for the one, past the response
  for the other. `MessagesHaveConnections` is violated; `OnlyTheWindow` proves that the race of
  finding 1 is its only cause. Its hypothesis is an action: no request is received from the
  connection `accepting` names. Then `WindowInv` is inductive: what is polled has a slot, a slot
  is registered unless it is being accepted (`SlotsRegistered`), so every message is made with a
  connection.
* **Bqueue.** `Chained` says the linked nodes are the arithmetic ones, `header + Stride * (i - 1)`;
  it carries `NoFault`, and with it a step is a step of `Fifo` on `Contents`. The lemmas on
  `Stride` are what nonlinear arithmetic needs by hand. `LeavesBlock` follows from `Chained` and
  from `PoolInv`: no run of addresses longer than a block is in the blocks, since a gap follows
  each. The theorem about `Fifo` and this one belong together: the queue is a FIFO in memory
  that, from a certain size on, is not its own.
* **Bmemory.** `IsPool` says that there are two sequences for each block of which the links, back
  links and headers are those of its free and its used list (`IsChain`), that the free ones are
  `Apart`, and that free and used chunks together tile the block (`Tiles`). The proofs speak of
  these sequences, and `FollowChain` shows that a walk along the links returns them. One step of
  `bmemory_free` is two: between leaving the used list and entering the free list a chunk is in
  neither, so `IsPool` has a third argument, the gap. Entering has four cases: the chunk touches
  the one before it, the one behind it, both or none (`InsertBehind`, `InsertBefore`,
  `InsertJoining`, `InsertAlone`); that no other free chunk touches it is `Apart` with `Tiles`. A
  taken chunk leaves the free list (`TakeWhole`) or its rest takes its place (`TakePart`). The
  used list needs no order, and both lists share one pair of pointers: what keeps a write to one
  out of the other is that they are disjoint.
* **Bhashmap.** `HashInv`: entries have keys and cells of their own (`EntriesSound`), and the
  links of a bucket make a list of the entries with its hash, both ways (`ChainsSound`), and what
  was lost is of an earlier pool (`PoolsSound`), so that no unit comes back from there. Set finds
  an unused entry and cell because there are no more entries in use than keys, the pigeonhole
  argument that makes the keys finite. Each step then is a step of `Map`.
* **Integer keys.** `StripStep` follows `_get_order_num` from a number to the number without its
  last digit: the digit found is the same, and what is left after it is stripped differs by that
  last digit; at 10 the digit found is 0 and nothing is stripped. From there all is induction on
  the digits: stripping keeps a 1, 0 inside the number (`StrippedTen`), a zero digit is found only
  where there is one (`ZeroTop`), and a digit other than zero is the first of what the number is
  rendered as (`RenderedTop`). So `ItoaInv` is inductive: the digits written and the rendering of
  what is left make the rendering of the input, unless it has 1, 0 inside. There is room for each
  digit because the rendering is no longer than the number (`RenderedFits`). The rendering is the
  decimal number exactly if it has no zero before the last digit (`RenderedDecimal`), which
  `RendersWithoutInnerZero` and `InnerZeroIsLost` say of `itoa`; below 100 there is none, and
  decimal numbers are distinct (`DecimalInjective`).
* **Bmysql.** `TypeOK /\ Ownership` is inductive as it stands: a connector is given back without
  the mutex, yet only by the thread that has it, and only idle ones are handed out.
* **Client.** `ClientInv` says where a request is: at the server, in one reply kept there, or in
  one reply on the wire (`OnePlace`), and that the tables are asked for once (`AskedOnce`), when
  the hall is created. So the reply that builds them is unique, and gone once `built` is 1
  (`BuiltByReply`). `TablesCurrent` speaks of an empty wire only; what carries it is
  `Following`: for every table the last push still on its way tells the server's status, or
  there is none and the screen shows it; likewise for the tables in a reply on the wire, seen
  from its place, and in one not yet sent. A push appended by a sitdown, a reply appended behind
  it, and messages read from the front each keep that (`FollowsPush`, `FollowsReply`,
  `FollowsFirst`, `FollowsSkip`, `FollowsMoved`). `Phases` ties the views to the loader.
* **History.** `OwnMoveStands` alone says nothing of what is still on its way. `Standing` adds
  that what a load of the hidden frame carries, and what the address says, is the application's
  last move while it stands (`OwnMoveSound`), that Safari then has no other length to notice, or
  one its table tells that very move for, and that until the frame is there and was loaded once,
  for good if the poll is never started, a move is made in a blind spot (`StartSound`,
  `FrameOfIE`). `CurrentOnTop` speaks of the moment when the poll has just looked;
  `StacksFollowPoll` says of all others that the stacks stay with the address it has seen.
  `InSync` speaks of rest only; `Following` says for each kind of browser where the application
  is before: with the event, at the address while none is queued (`EventFollows`); in Firefox,
  while the poll sees no other (`PollFollows`); in Internet Explorer, while nothing loads and the
  poll takes the address for old, and all through the first load (`FrameFollows`); in Safari
  before 4, at the entry the poll has seen, which the table, or after a reload the form field,
  tells the fragment of (`TableFollows`: the table is a sequence without holes, at least as long
  as the session, so `join` and `split` give it back).
* **Swfobject.** A request is untouched until its turn (`BeforeItsTurn`) and settled after it
  (`AfterItsTurn`). That there is one turn is `Distinct` (no function is listed twice) together
  with `InOrder` (main and the probe come first, matching only after the probe is done), which
  is also why no static request is decided on the version the probe corrects.

The walks along links in `Bmemory` and `Bhashmap` are recursive functions, and so are `Decimal`,
`NonZeroDigits` and `OrderNum`. The induction theorems of the library take an operator as a
parameter and cannot be used here; the proofs assume a least counterexample instead (`LeastNat`,
from the well-foundedness of `<` on the naturals) and refute it. `DigitInduction` is that argument
for what holds of a number when it holds of the number without its last digit. That a recursion on
the digits defines a function at all is `ByDigit`, which glues the functions up to each number.

What stays with TLC, and why:

* everything under fairness, which the provers do not treat: `EveryRequestAnswered`,
  `CallsReturn`, `RequestsComplete`, `Settles`, `RequestsAnswered`;
* that `itoa` does write past its buffer for a number with 1, 0 inside: the theorems say that it
  never returns and that no other number does; the steps to the overrun are `itoa_keys`'
  counterexample;
* the violated properties themselves. `OnlyTheWindow` and `RendersWithoutInnerZero` prove under
  which condition they hold; that the other exceptions the properties name (wakeups lost, blind
  spots of the history, elements that are missing) are needed is shown by no theorem.

## 5. Findings

1. **A message without a connection** (`accept_race`). `main.c:51` publishes the descriptor
   before `main.c:67` registers the connection; `clifd_mutex` is taken by main only. A client
   that talks at once has its message created in between, with the NULL of
   `connection_hashmap_get`, although `thread_recv.c:94` says later operations use the pointer.
2. **Wrong integer keys** (`itoa_keys`). `wraplib.c:47` tests `> 10` for `>= 10`. Inner zeros
   vanish (200 has the key of 20) and 100 makes `itoa` write past `char str[16]`, while
   `include/type.h` allows 5000 clients.

Seen while modelling, without a run of their own:

* `bqueue.c:102` multiplies the offset by `sizeof(bqueue_node)` although it adds to a
  `bqueue_node*`, so from the second element on a node may lie outside the block `bmemory.c:32`
  allots; `Chained` states where the nodes do lie, and `LeavesBlock` from which size on they
  cannot all be in the queue's memory: with nodes of 24 bytes, the 1000 messages of
  `model_message.c:18` reach 24 times as far as the block.
* `thread_recv.c:70` takes what one `recv` returns for one message. The rest of a request that
  was cut is parsed from its middle, and may be answered as a request nobody made, with a context
  id the client may or may not have used: `RepliesMatchRequests` claims its context id for
  clients without a cut only. `thread_recv.c:44` puts descriptors up to `MAX_CLIENT` (5000) into
  an `fd_set` of 1024.
* `bhashmap.c:13`: `init` is never set, so every `bhashmap_register` makes three new pools for
  all maps; `bmemory_free` finds an older map's units in none of them and silently keeps them,
  and the process ends when the pools run out. The server registers its three maps
  (`main.c:76-80`) before it uses them, which hides this.
* `bqueue` filled beyond its registered size takes each further odd node from the pool and the
  next from the arithmetic; only its owner's restraint (a size far above the load) prevents it.
* `bmysql_get_connector` waits once; the loop its comment (`bmysql.c:74`) describes, until a
  connector is free or the time is over, is not there: whoever takes the connector first leaves
  the woken thread with NULL. `Rescan` is modelled that way.
* `conn->user` is never assigned, so a sitdown at a free table ends the process
  (`proc = "null_user"`) before the broadcast; `Client` takes the broadcast as written.
* The loader (`AssetsLoader.as`) has no error handler: a file that cannot be fetched leaves the
  loading view for ever, and an empty manifest fails on `_queue[0]`; hence the assumption.
* `history.js`: `setBrowserURL` returns early when the address says the target already and leaves
  `currentHref` and the frame behind, so the poll is blind to a return to what it remembers; a
  move before the first load of the frame is taken for its echo (`_ie_firstload`); both are
  `blind`. When the frame is missing for the second time too, `func` (line 540) throws out of
  its timer and the poll is never started: every move of the user is unseen from then on. A late
  load of the frame may make an entry of its own after the user went back
  (Internet Explorer 9). The comment at line 285 ("always at the top") is false after a poll
  that could not tell back from forward, which the FIXME at line 372 admits; `lost` marks it.
  Safari before 4 records a state only when the application moves, so its table misses an
  address the user typed, or keeps an older state in its place, over a reload too; and what the
  application does before `_initialize` has read the table is lost or mixed with it. Once one of
  these has happened (`session.untold`) the lookup at line 345 may tell the application anything.
  Without a player `hashChangeHandler` updates `currentHref`, then fails: the move is gone.
* `swfobject.js`: an object registered after the versions were matched stays hidden for good;
  `showExpressInstall` marks the installer active before it looks for the element, and without
  one nobody can install any more; success is reported even when the element of a dynamic
  request is missing. `RequestsAnswered` and `ToldTheTruth` except exactly these.
* `blist.c:120`: removing an end leaves `header` or `tail` on a freed node, but
  `blist_node_remove` has no caller; `model_room.c:18` passes the two arguments of
  `blist_register` in the wrong order; `bmemory_lake_destroy` counts pool ids from 0, not 1.
* The sources are in the middle of renaming rooms to halls (`rooms` in `controller_hall.c`,
  `halls` in `model_room.c`; `room_remove_player` repeats a parameter name). The models follow
  the functions as written and take the two names for one array.

## 6. Not modelled, and why

* `blist.c`: the only lists the server keeps are the members of a hall, a sequence in `Server`;
  the operation that goes wrong has no caller.
* Two calls at once into `bmemory` or `bhashmap`: the code takes no lock and promises nothing
  about them, so there is no property of it to state. `Server`, `Bmemory` and `Bhashmap` take
  each call as atomic.
* Partial writes: `Writen` loops until everything is written, so a response is one action.
* The byte layout of `bsocket.c`, and the pool, queue and map registries.
* UNP wrappers (`lib/wrap*.c` and friends): system calls without state of their own.
* `wzq/Chessboard.as`: nothing creates the board, and its colours are set by nobody. Drawing,
  layout, `bui`, `com.adobe`: nothing to check.
* `history.js`: several players on a page (`BrowserHistory_multiple` is never set), titles, Opera
  and Safari 4 in the versions without the event; the form that Safari before 4 submits is the
  move it makes. `swfobject.js`: `removeSWF` and the clean-up on unload, `getQueryParamValue`,
  browsers without the DOM or with a WebKit before 312, and direct calls of `createSWF` and
  `showExpressInstall`, which the page does not make. Its one direct call, of `createCSS`
  (`index.template.html:59`), adds a rule on `display` and `text-align` for the div; the model
  keeps `visibility` only, which that rule leaves alone.
* `bhashmap.c`: the entries of other maps (only their registrations are modelled, as they change
  the pools) and `bhashmap_destroy`, which unregisters the pools of the last registration and
  has no caller. `bqueue.c`: what a node outside
  the blocks overwrites.
* `application/collections/*`, `controllers/user.c`, `thread_message.c`: superseded files
  that are not linked.

## 7. Plan

1. Done: the server and its queue, `bqueue`, the integer keys, `bmysql`, the pool, the map; the
   client from its assets to its tables; the page's history and embedding; every safety
   property a passing run checks is a theorem.
2. Proofs left: type invariants as theorems of their own where they are only part of an
   inductive invariant.
3. When the code moves on: `Chessboard` and `broadcast_to_room` once they are connected, an
   abstract request service that `Server` implements, and concurrent pool calls once there is a
   lock to rely on. A new run replaces a narrower one where both ask the same question, to keep
   a full pass short.

## 8. Running

`tlc -config <cfg> <module>` checks a run (module and configuration of each are in
`PROJECT.json`; a configuration belongs to the module of its name, except `MCItoaKeys.cfg`, of
`MCItoa`, `MCServerLive.cfg` and `MCServerRace.cfg`, of `MCServer`, and `MCBmemory.cfg`, of
`Bmemory`). `tlapm <module>` checks the proofs.

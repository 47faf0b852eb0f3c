# Mini Amazon / Mini UPS: specification, model checking and proofs

Two C++ back ends, an Amazon and a UPS, talk to each other and to a world
simulator (not in the repository) over three TCP connections. All three use the
same discipline: every command has a sequence number, is repeated until it is
acknowledged, and is to be handled once. Two Django sites share the databases of the
back ends. This directory models both back ends, how they find each other, the shop
that feeds the one and the site that edits the tables of the other, checks them with
TLC and proves their main safety properties with TLAPS.

Paths below are relative to `Mini_Amazon/docker-deploy/server` (Amazon) and
`Mini_UPS/server` (UPS) unless they start with `Mini_`.

## 1. The system

```
 Django shop --XML--> Amazon server <==protobuf==> UPS server <--SQL--> Django site
      |                 |      ^                     ^    |               |
      +--- PostgreSQL --+      +----- world ---------+    +- PostgreSQL --+
```

| Part | State | Operations | What is hard |
|---|---|---|---|
| Amazon server, `world_handle.hpp`, `UPS_handle.hpp`, `common.hpp` | counter, three bitsets, maps order/truck/warehouse, list of purchases per warehouse with a mutex | buy, pack, request a truck, load, hand over; handle arrivals, packed, loaded, errors, acks; truck arrived, delivered | a detached thread per command and per response, unlocked maps and bitsets, repeated messages |
| Amazon front end, `frontend_handle.hpp` | none | accept an order, choose a warehouse | concurrent orders, integer overflow, open only while the server is linked |
| Amazon database, `db_func.hpp` | column `orders_order.status` | one update per event | writers in any order, whole rows saved by the shop |
| Start-up of both, `server.cpp`, `server.hpp`, `main.cpp`, `socket.hpp` | sockets, world number, table of trucks | make a world, listen, greet; connect, insert trucks, join, confirm | retries with return codes nobody looks at, two processes that start and end on their own |
| Framing, `GPB_message.hpp`, `helper.hpp` | a buffer per read | write / read one message | read-ahead that is dropped |
| UPS handlers, `main.cpp`, `amazonreq.hpp`, `worldreq.hpp` | three sets of numbers, three tables | pickup, loaded, truck arrived, delivered, idle | several transactions per handler, uncaught exceptions |
| UPS helpers, `helper.hpp` | counter, sets | number, truck choice | truck choice is not atomic |
| UPS thread pool, `threadpool.hpp` | queue, workers | assign, run, stop | limit; handlers that never give a worker back |
| UPS site, `Mini_UPS/web-app/user` | the tables of the UPS server | accounts, change an address, feedback | whole rows written back beside the server's updates |
| Amazon shop, `Mini_Amazon/docker-deploy/amazonWeb` | session cart, orders, products | cart, order, send to the server | overlapping requests of a session, orders stored row by row, products that vanish, the server may be down |
| E-mail script, nginx, docker, generated and vendored code | | | not modelled |

Interaction: shop -> `Process_order` -> *buy* -> world -> *arrived* -> *topack* to
the world and *pickupreq* to UPS -> UPS sends a truck (*pickup*), the world reports
it *arrived*, UPS tells Amazon *truckarrived* -> when also *ready* came, Amazon
loads (*load*), the world reports *loaded*, Amazon tells UPS *loaded* -> UPS sends
the truck out (*deliver*), the world reports *delivered* and *idle* -> UPS tells
Amazon *delivered*.

What makes each part correct: an acknowledgement is believed only if the peer it
concerns read the command; an order is packed and picked up once; no accepted
order falls out of the lists; a package is loaded on the truck UPS reported; the
status column (Amazon) and the tables (UPS) claim nothing that did not happen; no
handler throws; every order and package is delivered and all repetition ends; linked
servers are in one world; what is bought is what the shop stored.

The hand-written code is about 3 500 lines of C++ and Python. The rest of the
tree, some 295 000 lines, is the vendored protobuf library, code `protoc` generated from
three short `.proto` files, and `tinyxml2`; it is not modelled.

## 2. Modules

| Module | Role |
|---|---|
| `AmazonServer` | state and one action per step of the Amazon back end; no peers |
| `AmazonSystem` | EXTENDS it with the world and UPS as seen from Amazon, the specification, fairness, all properties |
| `AmazonProofs` | theorems about `AmazonSystem` |
| `UPSServer` | state and one action per step (transaction) of the UPS back end |
| `UPSSystem` | EXTENDS it with the world and Amazon as seen from UPS, fairness, all properties |
| `UPSProofs`, `UPSOnceProofs`, `UPSHandledProofs` | theorems about `UPSSystem`, each module EXTENDS the one before |
| `Shipment` | abstract: what the two servers promise each other about a package; both `AmazonSystem` and `UPSSystem` implement it |
| `UPSWeb` | EXTENDS `UPSSystem` with the views of the UPS site that write the same tables |
| `UPSWebProofs` | theorems about `UPSWeb` |
| `Launch` | start-up of both servers, their failures and restarts |
| `LaunchProofs` | theorems about `Launch` |
| `Shop` | EXTENDS `Launch` with the shop, the front end socket and the choice of a warehouse |
| `ShopProofs` | theorems about `Shop` |
| `UPSTaskQueue` | abstract: what a pool promises, a bounded queue whose tasks run once |
| `UPSThreadPool` | the pool itself: mutex, condition variable, workers, destructor; implements `UPSTaskQueue` |
| `UPSThreadPoolProofs` | theorems about `UPSThreadPool` |
| `MCAmazon`, `MCUPS`, `MCUPSWeb`, `MCShop`, `MCThreadPool` | values of the constants for TLC |

### AmazonServer

* **Numbers and bits.** `Issue` is `get_server_seq_num`, clearing the bit and
  starting the sending thread, which every `send_*` function does. A sending
  thread has no variable: the set `Sending` of commands whose bit is not set *is*
  the set of live threads, because a thread does nothing else than write while
  the bit is clear. `issued` is a history variable.
* **Acknowledgements** are threads that write once; `acks_to_world` and
  `acks_to_UPS` hold their numbers. Two acknowledgements of one number count as
  one.
* **A response thread** (`threads[t]`) runs *started -> checked -> matched* for an
  arrival (check of the number; lock, search and *topack*; status, *pickupreq*,
  erasure, unlock) and *started -> waiting* for a packed order. `purchase_mutex`
  is held from `ArrivedMatch` to `ArrivedPickup`. The status update inside is a
  database transaction and so a separate step.
* **Detached threads start late**: `ArrivedCheck` and `PackedStatus` may be
  delayed behind anything.
* **Unsynchronised data.** A write to `send_acks` can be undone by a write to
  another bit of the word (`MarkAcked`, second disjunct); a lookup in
  `seqnum_to_orderinfo` can miss while another thread inserts
  (`ArrivedLookupFails`). Outcomes like a crash inside `std::map` are not modelled.
* **Reading.** `recvMesgFrom` makes a new input stream per message; what that
  stream read ahead is lost with it. All losses are drawn from `MaxLoss`.

Abstractions: a message carries one item; `GoodsOf` gives the product list of an
order together with its warehouse (equal goods are what `Process_Arrived` cannot
tell apart); accounts, coordinates and counts are left out. The insertion into
`purchase_request_list` and the registration before it are one step, because
nobody looks an order up before its purchase is in the list.

### UPSServer

* **Main thread**: `ReceiveFromWorld` and `ReceiveFromAmazon` read one message and
  queue it with `assign_task`, which drops it when the queue is full.
* **A worker** takes a task (`TakeAck`, or `TakeRequest`, which acknowledges),
  looks the number up (`FindNumber`), inserts it (`InsertNumber`) and runs the
  handler: `pick_truck`, `CountUser`, `InsertUser`, `InsertPackage`, `SendTruck`
  for a pickup; `parseloaded`, `OutForDelivery`, `TruckDelivering` for *loaded*;
  `handleDelivery`; `dealUFinished` and `ReportArrival`; `handleIdle`. Steps end
  where a transaction that another worker can observe ends. Then it is *sending*
  until its number is in `store` and only then takes another task, since
  `handleworld` joins the threads it starts.
* **An exception** in a thread ends the process: `Crash` (a second row with the
  same key, or reading a row of an empty result).
* **Unlocked sets**: `Insert` may lose the entry, at the cost of one loss.
* `parseloaded` takes both coordinates from column 0 (`amazonreq.hpp:92-93`); the
  command carries `<<x, x>>`. The model keeps it; no run asks about it yet.

Abstractions: one item per message; product rows, e-mails, truck positions and the
`finish` column are left out, so are the two kinds of world response that are
only printed, and the empty message that `handleworld` and `handleamazon` write for
every task beside the acknowledgement: its reader finds nothing in it. Some
transactions share a step because it makes no difference what other workers do between
them: in `handleDelivery` the update of the truck's position and the reads around the status
update; in `dealUFinished` the update of the truck and that of its packages
(`worldreq.hpp:60-64`: each is of one table, and no step of another worker depends on both); in
`pick_truck` the selection of an idle truck and the update that gives it to the row of the
package (`helper.hpp:158-163`: two workers may still choose one truck, for it
stays *idle* until `SendTruck`; the row is not there yet at a first pickup).

### UPSThreadPool

The owner calls `assign_task`, and in the end the destructor: `LowerFlag`,
`notify_all`, `Joined`. A worker of `run_task` goes through `stage`: it reads the
flag (`TestFlag`) and, when that is down, the queue (`TestQueue`), both without the
mutex and in this order (the Makefile builds with `-g` and no optimisation); takes
the mutex (`Lock`); returns (`Leave`), or finds that it has to wait (`Doze`) and
sleeps (`Wait`, which releases the mutex and joins the sleepers at once), or takes a
task (`Pop`) and runs it (`Finish`). `Doze` and `Wait` are apart so that a
notification could fall between them if the mutex did not forbid it. `notify_one`
wakes any sleeper; a sleeper may also wake for no reason.

`UPSServer` keeps only the queue and the workers of the pool: that is what
`ImplementsQueue` justifies.

### UPSWeb

A view of the site holds a copy of a row (`views`), read by `edit_address`, which tests the
status on the copy, or by `feedback`; `save` writes all columns of the copy at any later
time, with any number of server steps between. `create_account` inserts a user unless
the unique name is taken, as `pickup` of the server does for a customer without account.
The server runs unchanged beside it (`ServerBesideSite`). The history variables
`overwritten` and `raced` note the two ways in which the site disturbs the server, so
that `CrashHasCause` can say there is no third.

### Launch

Amazon runs through *connecting, binding, accepting, confirming, linked*; every failure
leads back to *connecting*, with all sockets left as they are. The result of `bind` is not
tested: on a port in use the server listens *elsewhere*. UPS runs through *counting* (is
the table of trucks empty), *waiting* (for the number of the world), *inserting* (one
transaction per truck), *confirming*, *serving*; it goes on whatever it confirmed. Each
process may end at any time (`AmazonRestarts`, `UPSEnds`), at the cost of one of
`MaxFailures`. A UPS that fails to connect is not a UPS that started: `ConnectTo` returns 1 and
the process goes on with file descriptor 1 until its first read fails
(`socket.hpp:46-50`, `main.cpp:331-335`), and touches neither Amazon nor the tables before
that; `StartUPS` leaves it out. A connection is named by the UPS process that opened it; it exists on
Amazon's side while it is in the backlog or accepted, also when UPS has ended.

### Shop

A request of the session copies the cart (`Load`) and writes it back when it ends.
`order_create` is `SaveOrder`, one `StoreItem` (with the save of the whole order row) per
item, or `ItemFails`; then `sendOrder` and `clear`. `sendOrder` reaches the server only
while `FrontEndOpen`, that is when `Launch` has linked it; a server that ends forgets
the orders it accepted. `Process_order` buys at the warehouse of `select_warehouse`, a
recursive function over the warehouses with distances in wrapping ints; `Update_Order_Status` is the
first status the server writes. `ServerStep` is a step of `Launch`, so the shop runs beside
the whole start-up and not beside a server assumed to be there.

### Shipment

The messages about a package, without numbers, acknowledgements, repetition and loss:
*pickupreq*, *truckarrived*, *loaded*, *delivered*, each said for the first time only after
its cause (saying it again is a stutter). `KeepsContract` in each system module maps `said` to the commands
that were given a number, `Said`. Each server is modelled with a peer that says its own
half in this order, and this order is what the theorem about the other server
establishes. The order is all that `Shipment` carries. It does not say how often a message
comes under a new number, and there the two modules do not vouch for each other through
it: that Amazon gives out one *pickupreq* for an order is `OrdersPackedOnce` of
`AmazonProofs` (two would need two *topack*); that it may say *loaded* again under a new
number (`world_handle.hpp:309-318`) is modelled in `UPSSystem` as
`AmazonLoadedAgain`. Nor is it a composition of the two modules: the peers' delays and
repetitions are described in both on their own.

### Peers

Both system modules take the peers from how the servers use them: a peer
acknowledges a command whenever it reads it, acts on it the first time it reads
its number, and repeats its own messages until they are acknowledged. The
respective other server appears as such a peer; the two detailed servers are not
composed (see 7).

* UPS as a peer (`AmazonSystem`) reports any truck, and acts on every request whose number is
  new, as `main.cpp:176-199` does; when it sends a package out a second time the world may
  refuse (`WorldMayRefuse`). The world answers a second *load* of a package with *error*.
* Amazon as a peer (`UPSSystem`) says *loaded* when the truck of the package is known
  (`AmazonLoaded`), and once more, under a new number, whenever the world repeats its report
  (`AmazonLoadedAgain`): `world_handle.hpp:309-318` does not test the number of a report. UPS
  then sends the package out again, also one that was delivered already.

`Repeating` distinguishes repetition that is needed from repetition that is not: a
message may always be written again when neither it nor its acknowledgement is
under way, and `MaxRepeat` more times otherwise. `MaxLoss` bounds all losses, and in
`UPSSystem` the repeated reports of the world with them: the world repeats a report because it,
or Amazon's acknowledgement of it, was lost.

## 3. Runs

| Run | Instance | Properties | Shows |
|---|---|---|---|
| `AmazonTwoOrders` | 2 orders of equal goods, 2 threads, 5 numbers, 1 repetition | `PackedAtMostOnce` `NoOrderForgotten` | two arrivals that only the lock keeps apart |
| `AmazonLive` | 1 order, 2 trucks, 2 threads, 8 numbers, 1 loss, fair | `TypeOK` `NoFalseAck` `LoadOnAssignedTruck` `StatusIsEarned` `KeepsContract` `EveryOrderDelivered` `RetransmissionStops` | acknowledgements, trucks, the status and the contract with UPS are right in all interleavings, also when a loss makes any one message be handled twice; every single loss is repaired |
| `UPSSafety` | 2 packages, 2 trucks, 2 workers, queue of 1, known account | `TypeOK` `NoFalseAck` `StatusIsEarned` `NoCrash` `KeepsContract` | tables are true, no handler throws and Amazon is told nothing before its turn, also when both packages get one truck and tasks are dropped |
| `UPSLive` | 1 package of a new account, 1 truck, 2 workers, queue of 3, 6 numbers, 1 fault, fair | `HandledOnce` `StarvedByFault` `DeliveredAndAtRest` | a single fault (a message or an entry of a set is lost, or *loaded* comes again under a new number) is repaired, a second delivery included, unless it starves the pool |
| `UPSWeb` | 1 package of a new account, 2 trucks, 2 workers, queue of 1, 4 numbers, 1 fault, one view at a time | `WebTypeOK` `CrashHasCause` `TruckOfPackage` | late saves and new accounts beside the handlers: the truck of a package is never confused, and every exception has one of two causes |
| `AmazonSite` | 2 trucks, 1 failure, 2 products, 2 requests at a time, 3 in all, 2 orders, 3 warehouses, ints of 8 bits, fair start-up | `LaunchTypeOK` `SameWorld` `FleetComplete` `OriginalUPSOnly` `FailedBindIsFinal` `LinkedOrHopeless` `ShopTypeOK` `BoughtAsStored` `StatusSurvives` `OneOrderPerCart` `NearestWarehouse` | who is linked with whom after a failure anywhere, and what is bought for which order while requests overlap and products vanish |
| `UPSPool` | 3 tasks, 3 workers, queue of 2, fair | `TypeOK` `NoIdleSleeper` `ImplementsQueue` `EveryTaskRuns` `DestructorReturns` | the pool loses no wake-up and no task, in spite of the unlocked look at the queue |

Runs that are expected to fail show where the code does not do what its documents
say:

| Run | Property | Counterexample |
|---|---|---|
| `AmazonRegress` | `StatusNeverRegresses` | *ready* overtakes the thread of *arrived* between *topack* and its status update: "packed", then "packing" (against `Dangerlog.txt:29`) |
| `AmazonStock` | `PackedOnlyArrived` | a repeated arrival packs the second order of the same goods (against `Dangerlog.txt:26`) |
| `UPSNewUser` | `NoCrash` | two pickups of a new account; the second `INSERT` throws (against `danger.log:2`, `:14`) |
| `UPSArrival` | `ReportedTruckCame` | two packages get one truck; its first arrival picks up both, and Amazon is told the wrong one (against the comment in `worldreq.hpp:64`) |
| `UPSStarvation` | `AckStopsCommand` | all workers wait and the acknowledgements stay in the queue (against `danger.log:16`) |

### Bounds and why they are enough

* *Two threads* handle responses of the world: every race in `Process_Arrived` and
  `Process_APacked` is between two threads, and `SpawnProcessing` waits when both
  are busy, which the real server never does but which only removes interleavings
  with a third.
* *AckBits / MaxSeq* bound the numbers and thereby the commands. One order uses five
  numbers; 8 leaves room for the extra commands of a repeated *ready* or *loaded*.
  In `AmazonTwoOrders` 5 numbers reach both purchases, both matches and one pickup
  after them: the order of these is where the two properties could break.
* *SocketBuffer* 1 or 2: two messages in one direction are enough for read-ahead to
  drop one and for a response to pass an acknowledgement.
* *MaxLoss* 1 in `AmazonLive`, `UPSLive` and `UPSWeb`: a loss, or in the last two a second
  *loaded*. The protocol has no memory of losses, so each is repaired on its own. The other runs have
  no losses to keep them small; the invariants of both servers are proved for every number of losses.
* *MaxRepeat* 1, a needless repetition, in `AmazonTwoOrders` and `AmazonStock`. In the
  other runs a message is repeated only because it or its acknowledgement was lost. `StatusIsEarned`
  of `UPSSystem` excepts a package whose second pickup has just chosen another truck
  (`PickedAgain`, which is in that module); `StatusIsEarned` of `AmazonSystem` excepts nothing.
* *MaxRepeat* 0 in the runs of the UPS server excludes one thing the code can meet: a peer
  repeats a message on its timer while a slow worker is between the test for its number and
  the insertion (`main.cpp:94-97`), and it is handled twice. With `MaxRepeat` 1 TLC finds
  `HandledOnce` violated in the instance of `UPSLive`, so that hazard is open and no
  property covers it. What can be said is a theorem: `UPSHandlesOnceApart` holds for any number of
  repetitions and names that race, and a lost entry of the set, as the only two causes.
* *PoolSize* 2 in `UPSSafety` and `UPSWeb`: every race on a row or a truck is between two
  workers. With two workers, though, two packages on one truck are not brought to
  their end, because both workers soon wait for acknowledgements (`UPSStarvation`); three
  workers are out of TLC's reach for the whole life of two packages, and `UPSArrival` has
  three for the first part of it. `UPSKeepsContract`, `UPSStatusIsEarned`, `UPSSurvives` and
  `UPSFetchesOnce` are proved for every pool, which covers the rest.
* *MaxViews* 1 in `UPSWeb`: one copy at a time, and a new one when it is written back; two
  made the state space too large once *loaded* could come again. The theorems of
  `UPSWebProofs` hold for any number of views at once.
* `AmazonSite`: one failure at every point of either start-up, then a whole second
  attempt. The case in which a UPS ends amid its insertions *and* its successor also
  fails needs two and is left to the theorems, which hold for every `MaxFailures`.
  `IntLimit` 128 (ints of 8 bits) makes the second address overflow, as coordinates beyond 46340 do in 32
  bits: there the model wraps, and `NearestWarehouse` asks only that *some* warehouse
  is chosen; for the first address two warehouses are equally near and the first wins.
* `UPSSafety` uses a registered account; with a new one `NoCrash` fails
  (`UPSNewUser`).
* `UPSLive` has two workers and six numbers: four commands of a delivery, and *deliver* and
  *delivered* of a second one. Two workers suffice
  for a package without a fault, since each command is acknowledged before its consequences need
  the other worker; `StarvedByFault` says so. After a fault both may wait for
  acknowledgements that only a third could take out of the queue, and `DeliveredAndAtRest`
  names this as the one other end (`Starved`). Three workers give 3.2 million states, out of
  reach for liveness, and five, enough never to starve, more than 11 million. The theorems
  hold for every pool.
* `UPSPool`: three workers let one sleep, one leave and one run at the same time; more
  tasks than places make the limit and a second turn of a worker happen. The theorems
  lift these bounds.

Deadlock checking is off: the systems stop when everything is delivered, and, with
bounded numbers, when these are used up.

### Fairness

In `AmazonSystem`, weak fairness of each group of threads and of each peer: the operating
system runs the threads, and the peers answer. Losses are never fair. Since needless
repetition is bounded, no thread can keep a socket full for ever, and weak
fairness suffices; in the code the sleeps between repetitions have this effect.
`Process_order` is in the fair group: the shop does send its orders.

In `UPSSystem` the groups are the main thread, the idle workers (`TakeStep`), the handlers
(`PoolStep`), the workers that repeat a command (`CommandStep`), and of each peer the thread that
reads and the one that writes. Fairness is weak, but strong for those that read a message and
must write its acknowledgement into a socket that others fill too (`TakeStep`, `WorldReads`,
`AmazonReads`): who repeats a command sleeps 3 s in between, so between two of its writes
whoever waits for the socket gets a turn. A lost message, an entry lost from a set and a
second *loaded* (`AmazonRepeats`) are not fair: they need not happen.

`LaunchFairness` is weak fairness of the main threads of both servers and of `StartUPS`: the
operator starts UPS when Amazon listens. Failures, ends of processes and the release of
a lingering port are never fair. `LinkedOrHopeless` then says that the start-up ends
linked, or in one of the two states the code cannot leave by itself.

In `UPSThreadPool` every worker and, once begun, the destructor are fair, and a task is
assumed to end. For the handlers of this server that is not so when all workers wait
for each other; `UPSStarvation` shows it. The owner need not destroy the pool.

## 4. Proofs

### AmazonProofs

For all finite or infinite sets of orders, goods, warehouses, trucks and threads,
all bounds, and any number of losses and repetitions, from the assumptions
`GoodsAssumption`, `NullAssumption`, `BoundAssumption` and `RepeatAssumption`:

| Theorem | Property |
|---|---|
| `TypeCorrect` | `TypeOK` |
| `OrdersPackedOnce` | `PackedAtMostOnce` |
| `OrdersKept` | `NoOrderForgotten` |
| `AcksAreTrue` | `NoFalseAck` |
| `LoadsFollowTrucks` | `LoadOnAssignedTruck` |

* `TypeInv` = `TypeOK` and `LockInv`. `TypeOK` is not inductive: `EraseAt` is typed only
  for an index in the list, which holds because a *matched* thread holds the lock
  of its list and the index was in the list when it took it.
* `OrderInv` is `SeqInv` (numbers are below the counter, and each belongs to one command
  and to one registered order), `ListInv` (each entry of a list is a registered order, and
  is in the lists once), `EraseInv` (an order in a list that is already being packed is the
  one a *matched* thread points to and is about to erase; an order with a pickup request
  is in no list), and the two properties themselves. `OrderSteps` reduces the 26 actions
  to the three that touch purchases and a remainder that issues other commands.
* `AckInv` follows an acknowledgement back: bit, message, read command. `TruckInv` follows a
  truck: load, table, message, UPS. Both use `StepEffects`, which states once what any step may
  add to channels, logs and tables. `AcksAreTrue` needs `SeqInv` too: the command read and the
  command whose bit is set have one number, so they are one command.

The second part of the module is about the order status and the contract:

| Theorem | Property |
|---|---|
| `StatusNotAhead` | `StatusIsEarned` |
| `AmazonKeepsContract` | `KeepsContract` |

A status is written by a thread that has no memory but its message, so the proof follows
the chain of causes. What a thread handles the world has sent (`ResponseInv`); the purchase
a *matched* thread points to is of an order whose *topack* was issued (`MatchInv`); and every
command and every answer comes after its cause: *load* after *ready* and a truck, *loaded*
after the world's *loaded*, a truck after its request (`ChainInv`). `StepEffects`
again says what a step can add. The contract is `ChainInv` read as an order of
first messages: `OneMessage` shows that a step says at most one new one, `BeforeAlways` that
its cause was said.

### UPSProofs

From `PackageAssumption`, `BoundAssumption`, `NullAssumption` and `RepeatAssumption`, for
every pool, queue, set of packages and trucks, and every number of losses and repetitions:

| Theorem | Property |
|---|---|
| `UPSTypes` | `TypeOK` |
| `UPSAcksAreTrue` | `NoFalseAck` |
| `UPSStatusIsEarned` | `StatusIsEarned` |

`UPSInv` is the conjunction of `NumberInv` (numbers up to the counter, each for one
command), `HandledInv` (an acknowledgement stands for a command its peer has read, in
`store` and in the queue), `ChannelInv` and `PeerInv` (what is in a channel was issued, or
acknowledges what was read, by its sender), `WorkerInv` and `TableInv` (types), `LoadingInv` (a
worker that sends a package out has found its row), `CommandsEarned` (a package that the world
delivered was sent out, and that because Amazon reported it on board) and `StatusIsEarned`
itself. The last needs the others: a handler knows its package only from a message of the
world, the world from a command, the command from a message of Amazon.

The second part of the module is about the contract:

| Theorem | Property |
|---|---|
| `UPSKeepsContract` | `KeepsContract` |

`UPSInv` plus two facts the tables rest on: a row exists only for a package with a pickup
request (`RowsRequested`), and a worker in a stage of `pickup` has such a request
(`PickupsRequested`). That is why `dealUFinished`, which asks the tables for *any* package of
the truck, can at worst name another requested one. `Effect` states what a step does to
rows, pickups and messages, one lemma per handler.

### UPSOnceProofs and UPSHandledProofs

For every pool, fleet, queue, set of packages and every `MaxLoss` and `MaxRepeat`, where
`FewFaults` is the state predicate `losses <= 1 /\ repeats = 0` (a second *loaded* under a
new number counts as a loss):

| Theorem | States |
|---|---|
| `UPSSurvives` | `AccountsApart` implies `Spec => [](FewFaults => NoCrash)` |
| `UPSHandlesOnce` | `Spec => [](FewFaults => HandledOnce)`: no message of a peer leads to two commands |
| `UPSHandlesOnceApart` | `Spec /\ [](TestedApart /\ EntriesKept) => []HandledOnce`: the same for any number of losses, repetitions and new *loaded* |
| `UPSReportsArrivals` | `Spec => [](FewFaults => ReportsMatched)`: every report of a truck has an arrival of its own |
| `UPSFetchesOnce` | `Spec /\ []OnePickedUp => [](FewFaults => FetchedOnce /\ ReportedTruckCame)`: one *pickup* and one *truckarrived* for a package, and for the truck that came |

`HandledOnce` speaks of messages, not of packages: `answered` pairs each message with the
commands its handler gave out, and a second *loaded* is another message. Hence nothing is
said about the number of *deliver* commands for a package: the code sends a package out as often as
Amazon says *loaded* under a new number.

`FewFaults` is needed. With two losses a request is handled twice: its entry in the
set of numbers and its acknowledgement may both be lost. With one repetition at the
wrong moment it is handled twice too, between the test for its number and the insertion
(`main.cpp:94-97`, `178-181`). TLC finds `NoCrash` and `HandledOnce` violated in the
instance of `UPSLive` with `MaxLoss` 2, and with `MaxLoss` 0 and `MaxRepeat` 1.
`UPSHandlesOnceApart` turns this round: `TestedApart` (no two workers are between the test and the
insertion of the number of one message) and `EntriesKept` (a number just inserted is in its
set) are what a lock around test and insertion would ensure, and with them nothing else is
assumed of losses and repetitions. `AccountsApart`
(two packages of one account have a registered account) excludes the crash of
`UPSNewUser`, and nothing else. `OnePickedUp` (no two packages
are picked up on one truck at a time) is there because `ReportArrival` names any
package that is picked up on the truck, hence perhaps one of them twice, or one that the truck
did not come for (`UPSArrival`). The code does not ensure it: two pickups may choose one idle
truck. `losses` and
`repeats` never fall (`FaultsGrow`), so a state with few faults has only such states before it,
and each invariant below, up to `UserFree`, is proved in the form `FewFaults => ...`.

* `FlowInv` says where a request is: one copy at most in the socket and the queue together
  (`QueueInv`); one worker at most between taking it and inserting its number (`FreshInv`); and a
  copy only as long as its sender has no acknowledgement. `Pending(r)`, *r may still be
  handled for the first time*, is never true again once it is false, and `InsertNumber` makes it
  false. Before the loss the invariant is stronger (the acknowledgement is written
  before the number is inserted, and is not lost); the one loss uses that up.
* `BegunInv`: the message of a handler is not pending, and has no other handler. Every
  argument below rests on it: what a handler will do has not been done.
* `PickupInv`: a package has no row before its one handler inserts it; after that every
  command about it names the truck of the row. `ArrivedInv`: the world answers the one command
  once, and Amazon loads only what was reported. Hence a row that is inserted is not there
  (`InsertPackage`) and a row that is read is (`parseloaded`, `handleDelivery`).
* `ReportArrival` is harder, because it throws if *no* package of the truck is picked up, and
  reports of other workers choose freely among those. `MatchedInv` keeps an
  injection from the reports of trucks to the arrivals whose handlers have ended. If all
  packages of the truck had gone on, each would have a report, all from handlers of
  other arrivals of this truck than mine; but each arrival is for its own package, mine
  included, so the injection would be one of a finite set into that set without one
  element (`MissesNone`, `ReportFinds`). `Dealt` adds that the package of an arrival whose handler left its
  first stage is no longer *created*. `NamedInv` is the stronger invariant behind `UPSFetchesOnce`:
  while a package waits alone, the one that is found is the one the truck came for.
* `UserFree`: the account that a pickup is about to insert is not there.
* `AnsweredInv`, behind `UPSHandlesOnce`: what has an answer is done. For *loaded* that is so when
  its handler has left its first stage, in which it gives out *deliver* (`Past`), for the others
  when the handler has ended (`Over`); both are stable, and a handler at work is not done.
* `ApartInv`, behind `UPSHandlesOnceApart`, knows nothing of losses: a message with a handler or an
  answer has its number in the set, no two handlers have one message, and a handler that has
  given out its command has only the rest of *loaded* before it. `EntriesKept` keeps the first when
  a number is inserted, `TestedApart` the second.

### UPSWebProofs

| Theorem | States |
|---|---|
| `WebTypes` | `SpecWeb => []WebTypeOK` |
| `WebStatusIsEarned` | `SpecWeb => []StatusIsEarned`: late saves write nothing that did not happen |
| `WebKeepsContract` | `SpecWeb => KeepsContract` |
| `WebTruckOfPackage` | `SpecWeb => [](FewFaults => TruckOfPackage)` |
| `WebCrashHasCause` | `AccountsApart` implies `SpecWeb => [](FewFaults => CrashHasCause)` |

`SpecWeb` does not implement `Spec`, since its pages write the tables of the server. But the
invariants of the server survive them: `ViewInv` says that what a copy claims of its
package was earned (`CopyIsEarned`), which can only stay true, so `save` may write it back;
`CopiesOnTruck` says that a copy names the truck of the row, so `save` does not move a
package (`BesideRun`). What a late save does break is `Dealt`, and what a new account breaks is
`UserFree`. `CauseInv` ties each to the history variable of its cause: with `overwritten`
empty `Dealt` holds, with `raced` empty `UserFree`, and with both the proof of `UPSSurvives` goes
through.

### LaunchProofs

From `LaunchAssumption`, for every number of trucks and failures:

| Theorem | Property |
|---|---|
| `LaunchTypes` | `LaunchTypeOK` |
| `LinkedInOneWorld` | `SameWorld` |
| `Fleet` | `FleetComplete` |
| `OnlyTheOriginal` | `OriginalUPSOnly` |
| `FailedBind` | `FailedBindIsFinal` |

`LaunchInv` is `LaunchTypeOK`, `FleetInv` (the table is empty or full before a UPS fills it,
unless one was interrupted), `SocketInv` (Amazon accepts only on the first socket of the
process), `GreetInv` (connections are greeted in their order, each is told one world and no
world is told to two) and `JoinInv` (a UPS joins the world it was told, and confirms only
when it joined).

### ShopProofs

From `LaunchAssumption` and `ShopAssumption`:

| Theorem | Property |
|---|---|
| `ShopTypes` | `ShopTypeOK` |
| `StoredThenBought` | `BoughtAsStored` |
| `StatusIsNotUndone` | `StatusSurvives` |
| `CartOrderedOnce` | `OneOrderPerCart` |
| `NearestChosen` | `NearestWarehouse` |
| `SiteLaunches` | `SpecSite => SpecLaunch`: the theorems of `LaunchProofs` hold of the whole site |

`ShopInv` is `ShopTypeOK`, `StoredInv` (an item of the catalogue that is not left is stored
with the quantity of the cart), `OwnerInv` (an order belongs to one request, which has nothing
left once it is sent), `ServerInv` (the server knows only orders that were sent) and `CartInv`
(without overlap the number of a sent cart is below that of the session's cart, except
between sending and clearing). `NearestChosen` is about a recursive function, and would be an
induction over the warehouses. The proof takes a least counterexample instead: for a
fixed address the warehouses at which the loop has gone wrong so far are a set of
numbers, and it has no least element.

### UPSThreadPoolProofs

For every finite set of workers, every set of tasks and every limit, from
`PoolAssumption`:

| Theorem | Property |
|---|---|
| `PoolTypes` | `TypeOK` |
| `NoWakeUpLost` | `NoIdleSleeper` |
| `PoolImplementsQueue` | `ImplementsQueue` |

`Inv` adds to the types that the mutex belongs to the worker behind its acquisition
(`MutexInv`), that what a worker has read stays true (`ReadInv`: while it dozes nobody
pushes or lowers the flag; once the flag fell nobody pushes, so an empty queue stays
empty), and that a worker has a task exactly while it runs (`TaskInv`). `ReadInv` makes
the destructor map to `Vanish`: when all workers have left, the queue is empty.
`NoIdleSleeper` is inductive relative to `Inv`; its proof counts the workers on their way
to the queue: `Pop` takes one of them and one task, and a worker lies down only before
an empty queue.

### What is only model-checked

* Liveness: `EveryOrderDelivered`, `RetransmissionStops`, `DeliveredAndAtRest`,
  `LinkedOrHopeless`, `EveryTaskRuns`, `DestructorReturns` (fairness and `ENABLED` are out of the
  prover's reach).
* Every other property of a passing run is stated by a theorem, except `StarvedByFault`. Four of these have
  conditions that the property in its run has not (`NoCrash`, `HandledOnce`, `TruckOfPackage`,
  `CrashHasCause`): the runs choose constants for which the conditions always hold. `HandledOnce` is
  therefore not checked where a repetition meets the test of a number, see `MaxRepeat` above.
* Of the five properties that a run refutes, `NoCrash` (`UPSNewUser`) and `ReportedTruckCame`
  (`UPSArrival`) are proved under the conditions of `UPSSurvives` and `UPSFetchesOnce`. Nothing
  is proved of the other three.

## 5. What is not modelled

`PROJECT.json` lists every part under `components`. What is left out, and why:

* **Vendored and generated code** (protobuf, `*.pb.*`, `tinyxml2`): nearly all lines of the tree,
  and none of the program's own logic. The map can therefore cover only a small share of
  the tree's lines, though it covers most of the hand-written handlers.
* **Amazon `ThreadPool.h`**: constructed and never given a task.
* **E-mail helper, nginx, docker**: input and output. Only the port the helper holds matters, and
  is used in `Launch`.
* **Catalogue, accounts and pages that only read**: one row per request and no state of their own;
  so are the edits an administrator makes, except the deletion of a product.
* **Invalid requests**: POSTs without a log-in, invalid forms, prices, a front end message that
  cannot be parsed, and a failing `recv` (`frontend_handle.hpp:81`).
* **Broken connections while linked**, messages torn by unlocked writers
  (`world_handle.hpp:58`), a database that cannot be reached (the servers exit), a missing
  table of trucks, and the bitset limit of 100000 numbers. The models end where they would
  begin.
* **World simulator**: not in the repository; taken from how the servers use it.

## 6. How to run

| Module | Configurations |
|---|---|
| `MCAmazon` | `AmazonTwoOrders` `AmazonLive` `AmazonRegress` `AmazonStock` |
| `MCUPS` | `UPSSafety` `UPSLive` `UPSNewUser` `UPSArrival` `UPSStarvation` |
| `MCUPSWeb` | `UPSWeb` |
| `MCShop` | `AmazonSite` |
| `MCThreadPool` | `UPSPool` |

`tlc -workers 2 -config AmazonLive.cfg MCAmazon.tla` and so on; each ends within five minutes,
the largest being `UPSWeb` (1.24 million distinct states) and `AmazonSite` (1.05 million). The proofs:
`tlapm M.tla` for `AmazonProofs`, `UPSProofs`, `UPSOnceProofs`, `UPSHandledProofs`, `UPSWebProofs`,
`LaunchProofs`, `ShopProofs`, `UPSThreadPoolProofs`.

## 7. Plan

1. (done) Amazon server, its runs and proofs; UPS server and its runs.
2. (done) `UPSThreadPool`, its refinement of `UPSTaskQueue` and the proofs.
3. (done) `UPSWeb`: the views that save whole rows beside the handlers.
4. (done) `UPSProofs`: `TypeOK`, `NoFalseAck` and `StatusIsEarned` of `UPSSystem`.
5. (done) `AmazonProofs`, second part: the status column, from the chain of causes.
6. (done) `Launch` and `Shop` with the choice of a warehouse, and their proofs.
7. (done) `Shipment`, implemented by both servers.
8. (left) An abstract at-least-once channel that the sending loop and the bitset implement.
9. (left) Both detailed servers in one module, over that channel: the product of the
   two state spaces is out of TLC's reach without it.
10. (done) `UPSOnceProofs`, `UPSHandledProofs`, `UPSWebProofs`: requests handled once, no crash, and
    the same beside the site.
11. (left) `PackedOnlyArrived` of `AmazonSystem`, which `AmazonStock` refutes with a repeated arrival,
    proved for behaviours without repetition, as `UPSHandlesOnce` is for the UPS server.

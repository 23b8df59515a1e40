# Verification of the network scanner core

This directory holds TLA+ modules that model the concurrent core of the
repository (`src/core/core`), TLC configurations that check them on small
instances, and theorems about them with proofs for TLAPS.  Paths below are
relative to `src/core/core` unless they begin with `src/`.

## 1. The system

The program discovers devices on a network: it sends ICMP echo requests from a
raw socket, matches the replies, and hands each result to a callback that keeps
a repository of devices; an SNMP client queries the devices found.

| Component | State | Operations | Talks to |
|---|---|---|---|
| `net/socket/v2` receiving sockets | `m_packetBuffer`, a lock-free single-producer single-consumer ring; one receive armed at a time | `startReceive`, `handleReceive`, `nextReceivedPacket`, `send` | the pool's socket thread pushes, the poller pops |
| `net/scanner/IScanner` | `m_running`, `m_currentTask` (weak) | `startScanning`, `stopScanning`, `PingResolver::run` | posts its poller to `TaskRunner::defaultRunner()` |
| `net/scanner/IcmpScanner` | `m_pendingRequests`, an unlocked `std::map` from host to `{dstIp, promise, time}` | `ping`, `pingAsync`, `onPacketReceived`, `handleTimeouts`, `hasPendingRequests` | caller's thread and runner's thread share the map |
| `util/async/Task` (`TaskRunner`) | `m_ioContext` with its handlers and timers, `m_serviceThread`, `m_isAlive` | `post`, `postDelayed`, `resolve`, `stop`, the destructor | runs every `Task` |
| `util/async/FutureResolver` | `m_fut`, `m_retryDelay` | `run` | a `Task` that polls a future |
| `services/device_discovery` | `m_results` (unlocked map), two callbacks, the scanner | `start`, `stop`, `discover`, `addSuccess`, `addError`, `hasResult`, `getResult`, `consumeResult`, `clearResult(s)` | main thread calls, runner's tasks call back through raw pointers |
| `repo/device/DeviceRepository`, `models/net/Device` | a `Synchronized` map of shared devices, locked for each access; the devices themselves are not locked | `create`, `read`, `update`, `remove`, `has`, `find`, `iterate` | written by the discovery callback, read by the main thread |
| `src/app` | the callback, `MyIcmpDeviceDiscoveryTask`, `SnmpTargetFactory` | creates and times a device for each result; looks a device up by IP address to ping it or to choose its SNMP version | uses the repository from two threads |
| `repo/RepositoryRegistry` | repositories by type name | `registerRepository`, `unregister...`, `get` | set up by `main()` |
| `net/snmp/SnmpClient`, `services/snmp_service` | `m_pendingRequests` (unlocked map from uuid to `{promise, response, walkOid}`), the SNMP++ session | `get`, `getBulk`, `walk` and their `Async` forms, `callback` | SNMP++'s poll thread calls back with raw pointers to map nodes |
| `util/async/TaskContext` | a thread with an `io_context` for each context, and a registry of contexts by name, under its own lock | `create`, `post`, `stop`, the destructor; `registerTaskContext`, `getDefault`, `getOrDefault` | clients' threads share contexts through `shared_ptr`s; nothing in `src/app` uses it |
| `util/type/WrapAround`, `net/IPv4Address`, `net/MacAddress`, `util/ByteOrder`, `util/Sequence` | none (values) | arithmetic in a range, conversions between bytes, numbers and texts, byte orders, loops over ranges | used everywhere |
| `net/snmp/SnmpTarget` | none (values) | community targets and what SNMP++ makes of them | `SnmpClient` and the factory of `src/app` |
| `Logger`, `Enum`, traits, packet layer builders, `ArpScanner` (a stub), `RateLimiter` (empty), `NetworkInterface`, protos, cmake | | | not modelled: formatting, I/O or no behaviour |

**What is hard.**  Three threads (the caller's, the runner's, the socket's)
share maps without locks; futures and promises tie them together; tasks re-post
themselves and hold raw pointers to objects another thread destroys; timeouts
race late answers; packets are lost when the ring is full, duplicated or stray.
`PROJECT.json` lists each such hazard at its line.

**What correctness means for each part.**

* Scanner: a promise is fulfilled once, a future is taken once, a ping gets an
  answer of its own host, times out no earlier than it may, and always ends once
  packets stop;
  every worse outcome needs one specific misuse, which the property names.
* Runner: a task is in one place at a time, is not lost, gets its turn, and
  nothing of the runner outlives its destructor.
* Discovery: a stopped scanner has no poller, `stop()` returns, a discovery
  ends once packets stop, tasks touch a freed object only in named situations, and a result is
  filed under its host.
* SNMP client: a promise is set once, a walk returns exactly its subtree, SNMP++
  only points to requests that exist, every accepted request ends; what races,
  dangles or stays behind does so only for named kinds of requests.
* Repository: every operation is atomic as long as one thread writes; with more,
  an exception or a false report takes a writer between another's two locks, but
  no create replaces a device and an iteration sees the map.  The discovery
  callback, built on it, loses no result; a ping goes to nobody else's MAC
  address and a request to the host it was meant for, at the port asked for.
* Task context: what `stop()` promises, and when a context's thread ends.
* Engine boots: a number of boots is beyond those of the engines that the file
  had counted, unless the file is lost or engines are created at once.
* Values: an address is the same whichever form it takes, an order is an order,
  and a loop over a range visits the values between its bounds, each once.

## 2. Modules

| Module | Models | Correspondence |
|---|---|---|
| `SocketListener` | `net/socket/v2/ReceivingSocket` | `m_packetBuffer` is a sequence of at most `BufferSize` packets; `HandleReceive` drops a packet when it is full, as the ignored result of `push` does. A push and a pop are one step each, the guarantee of Boost's queue. |
| `IcmpScanner` (extends `SocketListener`) | `net/scanner/IcmpScanner` with the poller of `net/scanner/IScanner` | one calling thread (`cpc`) and the runner's thread (`rpc`). Each access of `m_pendingRequests` is a step: `Assign` and `GetFuture` are the two `operator[]` of `pingAsync`; `Match`, `Lookup`, `SetReply`, `EraseReply` the four uses in `onPacketReceived`; `BeginSweep`, `Visit`, `SetTimeout`, `EraseTimeout` the loop of `handleTimeouts`. `shared` is the heap of promises' shared states; destroying an unfulfilled promise breaks it. `it`/`valid` is the runner's reference or iterator and whether its node still exists. `overtook` is history: the pings that `Assign` stored over a request that a sweep had just found expired. |
| `TaskRunner` | `util/async/Task`, `util/Thread` | `queue` holds the handlers of the `io_context` in order, `timers` the tasks pending timers own, `current` the task in `run()`. `owner` steps through the destructor: `m_isAlive` cleared, `stop()`, `m_isAlive` destroyed, thread joined, context destroyed. |
| `DeviceDiscovery` (extends `TaskRunner`) | `services/device_discovery`, `util/async/FutureResolver`, `IAsyncScanner::startScanning/stopScanning` | composes the runner with its two kinds of tasks: `Pollers`, one for each `start()`, and `Resolvers`, one for each `discover()`. Every `run()` is an action that ends in the runner's `Resolve`. The scanner's calls are atomic here; what its unlocked map adds is module `IcmpScanner`. |
| `SnmpClient` | `net/snmp/SnmpClient` | one calling thread (`cpc`): `Request`, `CreateRequest`, `Send`, `GetFuture`, `Wait` are the lines of `getAsync`, `getBulkAsync` and `walkAsync` (the first two differ in nothing the model sees), the last is `get`, `getBulk` and `walk`. SNMP++'s poll thread (`ppc`) runs `HandleGet` with its deferred erase as a second step, and `HandleWalk`, whose loop over an answer's variables is the choice between `WalkOn` and `WalkDone`. `outstanding` is what SNMP++ has a pointer to. An agent's variables are the numbers `1..MibSize` in OID order and a subtree is an interval. |
| `Repository` | `repo/Repository.h` | what callers expect of the interface: an operation has its effect, and finds its answer, in one step between its call and its return. |
| `DeviceRepository` (instantiates `Repository`) | `repo/device/DeviceRepository` | every lock is a step: `Check` is `has()` at the beginning of `create`, `update` and `remove`, and `Emplace`, `AssignAt`, `EraseDevice` are what follows under the second lock; `Read` is `read` and `has`; `IterateBegin`, `IterateNext`, `IterateEnd` are `iterate`, `findBy` and `contains`, which hold the lock over all of their steps. `overlapped` and `lost` only record what happened. |
| `DeviceTracking` (extends `DeviceRepository`) | `src/app/main.cpp`, the success callback; `models/net/Device` | the runner's thread calls `read` and then updates the device it found, or makes, times and creates one; `Operation` is the repository's steps for these calls. `address` and `responseTime` are the devices' members. |
| `SnmpTarget` | `net/snmp/SnmpTarget.h`, `src/app/SnmpTargetFactory.h` | a target is a record, a null pointer the record that `IsNull` tells from it; `ToTarget` is what SNMP++ gets. |
| `DeviceLookup` (extends `DeviceTracking`, `SnmpTarget`) | `src/app/MyIcmpDeviceDiscoveryTask`, `src/app/SnmpTargetFactory.h`, `services/snmp_service` | the main thread while the callback runs: `FindBegin`, `FindNext`, `FindEnd` are `DeviceRepository::find` under its lock, followed by `Discover` (a ping's frame), `CreateTarget` and its use, or `SetLastUsedSnmpVersion`; `RequestSystem` looks nothing up. `main()` itself calls `requestSystem` only, its call of `discover` being commented out; the others are the operations that `src/app` offers. |
| `ByteOrder`, `IPv4Address`, `MacAddress` | `util/ByteOrder.h`, `net/IPv4Address`, `net/MacAddress` | operators on sequences of bytes, stored with the least significant first. The two bytes of the 64-bit integer that `MacAddress::toInt` does not set are a parameter, `garbage`. `ByteValues` is 256 in the code; `NumberOf` and `BytesOf` are the copies between bytes and integers. |
| `WrapAround` | `util/type/WrapAround.h` | operators on numbers of a type from `TypeMin` to `TypeMax`, with the test for overflow that `wrap` makes. |
| `Sequence` (instantiates the four) | `util/Sequence.h` and its use by `services/device_discovery` | a loop over `rangeOf`'s result: `Init` is any call, `Step` an iteration. `Passed` is how each form of a bound (plain, `Inclusive`, `Exclusive`) becomes a begin or an end. |
| `EngineBoots` | `SnmpClient::initializeV3` | several clients, of one process or one after another: `Load`, `Save`, `MakeModel`, with SNMP++'s file lost or damaged at any moment and a client dying between any two steps. |
| `TaskContext` | `util/async/TaskContext.h`, `util/Thread` | a thread for each context (`RunHandler`, `EndHandler`, `OutOfWork`, `ThreadEnds`), clients that create, post, stop and drop pointers, the registry, and the destructor, which joins before the members that keep the `io_context` at work are destroyed. |
| `IcmpScanner_proofs`, `TaskRunner_proofs`, `SnmpClient_proofs`, `DeviceRepository_proofs`, `DeviceLookup_proofs`, `DeviceDiscovery_proofs`, `EngineBoots_proofs`, `Sequence_proofs` | | theorems about the modules they are named after; `EngineBoots_proofs` ends with those about `TaskContext`, and `Sequence_proofs` has those about `WrapAround` and the addresses |
| `MC*` | | instances for TLC |

**Undefined behaviour.**  Where the code can race on a map, use a dangling
reference or let an exception escape from the runner's thread, the model sets
`fault` and stops: nothing is promised after that, and the properties say when
each fault may occur.  `ping()`'s own read of the node it has just erased
(`net/scanner/IcmpScanner.cpp:60`) is a choice in `Drop`: it finds what the node
held, as the build may well do, or it dangles.  Because overlapping accesses are undefined whatever they
do, `DataRace` needs no finer steps, while the interleavings of whole accesses
are explored as the build usually executes them.

## 3. Runs

| Run | Instance | Shows |
|---|---|---|
| `icmp_safety` | 2 hosts, 2 pings, ring of 1, 2 packets, timeout 1 tick, clock to 3 | replies and timeouts go to the right pings, no promise is set twice, no future taken twice; which misuse causes broken promises, 0.0.0.0 timeouts and a dangling poller; every ping ends |
| `runner` | 3 tasks | tasks are not duplicated, lost or starved; destruction, which always ends |
| `discovery_safety` | 2 pollers, 2 resolvers, 2 hosts | `stop()` ends the poller unless started twice; pending pings die safely |
| `discovery_live` | 1 poller, 2 resolvers, 2 hosts | `stop()` returns whatever arrives; discoveries end if packets stop coming |
| `snmp` | 2 requests, 3 variables, get-bulks of 1 or 2, one callback for another reason | what walks return, what leaks, what can race or dangle, destruction; every accepted request ends |
| `repo_safety` | 2 writers, 1 reader, 2 keys, 2 devices | what a second writer can do, what it cannot, what iterations see; every step that is not the second half of an overlapped write is one of `Repository` or a stutter (refinement mapping: `store <- m_devices`) |
| `tracking` | the runner and the main thread, 2 hosts, 2 MAC addresses, 2 devices, 2 response times, 1 port, 3 versions | the callback keeps the latest result of every address, where pings are sent and whom requests go to |
| `ranges` | bytes of 2 values; numbers 0..7 wrapped within 2..6 | which values a loop visits, and that conversions, orders and byte orders agree |
| `engine_boots` | 3 clients | numbers of boots are not given again |
| `stop_blocks` (violation) | as `discovery_safety` | `IScanner.h:91` promises more than `stopScanning` does |
| `result_key` (violation) | as `discovery_safety` | a reply's result is filed under the own address |
| `context_stop` (violation) | 2 clients, 2 contexts, 2 posts | `TaskContext.h:37` promises more than `stop` does |

**Bounds.**  Two hosts give the sweep a next node to go to and a caller a
second key, and both pings may be of one host, so that a request replaces
another that is still being answered; two packets fill a ring of one and drop the second, and answer a ping
twice.  `MaxNow` lets a ping time out while a later one is fresh; a ping is only
sent when its timeout still fits before `MaxNow`, so that the end of the clock
does not look like a hang.  Two pollers allow a double start and a restart; two
resolvers allow two pings of one host.  `CHECK_DEADLOCK FALSE` is set, except in
`repo_safety`, since every other system really stops: after a
fault, or when the caller is done.

In `SnmpClient` two requests let the answer of one come while the other is being
made; three variables with at most two to an answer give walks of several
answers, subtrees that end inside an answer, at its end and at the end of the
MIB, and empty ones; `MaxReps` stands for the ten of line 92.

In `DeviceRepository` two writers and a reader give each write a rival between
its locks while an iteration is in progress; two keys let rivals be at the same
or at different ones and give iterations a next node.  The writers, and the
devices, are interchangeable in every definition and property, so the symmetry
sets lose nothing.  In `DeviceTracking` a device is made at most once for each
MAC address, so that two devices do for two addresses; with two hosts a MAC
address may answer for both, two for one host, and hosts may change places.  The
three versions are one that is sent, the one that the factory takes for 2, and
the one for which it returns a null pointer.

A byte of two values makes an IPv4 address 4 bits and a MAC address 6: the
operators take the number of a byte's values as a constant and treat no value
but the least and the greatest specially, and every carry from byte to byte
occurs.  `ranges` loops over all pairs of IPv4 addresses and of numbers and over
the MAC addresses next to a change of the top byte, in every form of the bounds.
Its wrapped numbers have limits strictly within the type and, as `whole`, the
type's own; limits of which one only is the type's are the theorems'.

Three clients let one count while another is between loading and saving and the
third comes after both.

**Fairness.**  A thread that can take a step does (weak fairness of each
thread as a whole), timers expire, and time passes; nothing is assumed of the
network, of the user or of new pings.  In `DeviceDiscovery`, where time is
abstract, strong fairness of the sweep of each host's request stands for the fact
that a request older than five seconds times out at the next sweep.  It is
assumed only of behaviours with `PacketsStop`, in which the poller at some point
finds the ring empty for good: as long as packets keep coming the code does not
sweep (`net/scanner/IScanner.h:54-57`).  `DiscoverEnds` has the same premise, and
TLC finds a discovery that never ends when it is left out; `StopReturns` needs
none.  `EveryPingEnds`, in `icmp_safety`, has it by `MaxPackets`.
In `SnmpClient` the caller goes on and SNMP++ calls back for what it accepted, at
the latest with a timeout.  A request that it did not accept has no such promise,
and `EveryRequestEnds` leaves it out.

## 4. Proofs

`IcmpScanner_proofs` proves, for all numbers of hosts, pings and packets, every
ring size and timeout that satisfy the named assumptions of the module:

* `TypeCorrectness`: `Spec => []TypeOK`
* `PromisesAreSetOnce`: `Spec => []SetOnce`
* `FuturesAreDistinct`: `Spec => []DistinctFutures`

all three from `Invariance`: `Spec => []IInv`.  None of the properties is
inductive.  `IInv` adds, by name: `CallerInv` (what the caller's position says of
its latest ping and of the futures handed out), `RunnerInv` (what the runner's
position says of its packet, iterator and time), `MapInv` (distinct nodes hold
distinct promises, which exist), `UnsatisfiedInv` (a promise in the map is still
pending, except the one the runner has just fulfilled and is about to erase) and
`FutureInv` (a future's promise left the map or is that of its host's node, and a
promise without a future is at most the one the caller is about to ask for).
There is one lemma for each group of actions, and `NextIInv` puts them
together.  The lemmas `NextNodeFacts`, `FindOrInsertFacts`, `EraseFacts` and
`SetValueFacts` say what the operators on the map preserve; the first rests on
the least element of a set of naturals.

Five more theorems say what the pings' results mean:

* `RepliesFit`: `Spec => []ReplyIsFromPingedHost`
* `TimeoutsFit`: `Spec => []TimeoutIsOwnAndLate`
* `ZeroAddressesAreLostAnswers`: `Spec => []ZeroAddressMeansLostAnswer`
* `BrokenNeedsRival`: `Spec => []BrokenNeedsRivalPing`
* `DanglingNeedsBlocking`: `Spec => []DanglingNeedsBlockingPing`

They follow from `History`: `Spec => []HistoryInv`, where `HistoryInv` is `IInv`
and the history of the map.  A request in the map is
that of a ping to its host, and its future that of the last one (`RequestInv`), or
`operator[]` made it up, and then its future stands for a lost promise
(`MadeUpInv`); a result that a request has, or left behind, fits the host's pings
(`AnsweredInv`, `ResultsInv`); `AnsweringInv`, `AskingInv`, `ErasingInv` and
`GoneInv` carry this through the runner's and the caller's places between two
accesses.  `TimeoutsFit` says that a ping's timeout is late, except for one whose
request replaced an expired one between a sweep's test and its `set_value`
(`overtook`), and that what the sweep had found expired was then the request of
an earlier ping to the host that had waited the full timeout, or one that
`operator[]` made up, with the epoch as its time, when an earlier ping had lost
its answer.  `MakerInv` says who makes up a request, and `ExpiredInv` what a sweep
may have found expired; `LateResults` is what the futures say of it, which holds
because lost promises stay lost and sending times do not change (`RobbedLost`,
`LateKept`, `OverdueKept`).  What was sent changes by `Ping` and `Assign` only; every other step is a
`MapMoves`: nodes stay, are erased or are made up, a promise changes only while
it is pending and its node is erased or answered, and a future is taken from the
request of the last ping.  One lemma shows that a `MapMoves` keeps the history,
and one for each group of actions that it is one.

`SnmpClient_proofs` proves, for all numbers of requests, sizes of the agent's MIB
and of its answers:

* `TypeCorrectness`: `Spec => []TypeOK`
* `SettingOnce`: `Spec => []SetOnce`
* `WalkSafety`: `Spec => []WalksAreSafe`
* `PointerValidity`: `Spec => []PointersAreValid`
* `WalkCorrectness`: `Spec => []WalkReturnsSubtree`
* `WalkFailure`: `Spec => []WalkFailsOnlyAtEndOfMib`
* `LeaksAreNamed`: `Spec => []OnlyWalksAndUnsentLeak`
* `FuturesAreReady`: `Spec => []FuturesEndWithClient`

again from an inductive `IInv`: `CallerInv` (what exists of the caller's latest
request), `PointerInv` (what SNMP++ points to is in the map and has no result
yet), `PollInv` (what is about to be erased is a get with a result), `KeepInv` (a
walk's request stays in the map) and `WalkInv` (a walk without a result has read
the segment of its subtree up to `from`).  `PointerInv` is why a promise is set
once, `PollInv` and `KeepInv` are why only gets race and dangle, and `WalkInv` is
the loop invariant of the walk: `WalkAdvances` shows that the variables of an
answer that lie under the OID extend the segment.  `LeakInv` (every request in the
map is accounted for, and none is left when the members are destroyed) gives
`LeaksAreNamed`, and `PendingInv` (a promise without a result has its request in
the map, whose destruction breaks it) gives `FuturesAreReady`.

`DeviceRepository_proofs` proves, for all numbers of clients, writers, keys and
devices:

* `TypeCorrectness`: `Spec => []TypeOK`
* `RivalNeeded`: `Spec => []WrongNeedsRival`
* `CreatingKeeps`: `Spec => CreateNeverReplaces`
* `IterationIsConsistent`: `Spec => []IterationSeesMap`
* `Refinement`: `Spec => ImplementsRepository`, assumed that there is at most one
  writer

The first two follow from an inductive `IInv`: `ArgInv` (a called operation has
its arguments), `WriterInv` (only writers write) and `CheckInv` (between its two
locks an operation that is not overlapped still finds what it checked).
`IterInv` adds what an iteration has not reached yet.  For the refinement,
`OverlapStep` shows that nothing is overlapped with one writer, so that by
`CheckInv` the second lock does what the atomic operation does; `StepSimulation`
maps each step to a step of `Repository` or to a stutter.  The assumption is the
application's: only the runner's thread, which runs the callback, writes.  It is
needed: with two writers TLC finds an `update` that throws `out_of_range`.
`OneWriterIsSafe` adds, on the same assumption, that no operation throws and no
`create` claims a device that it did not store.

`OnlyOverlappedDiffer` (`Spec => AtomicUnlessOverlapped`) needs no such
assumption: with any number of writers each step is the atomic repository's, or a
stutter, but for the second lock of a write that another writer came between.

`DeviceLookup_proofs` extends these proofs to the threads that use the repository,
for any numbers of hosts, addresses, devices and times:

* `LatestKept`: `LookupSpec => []LatestResultKept`
* `PingsReach`: `LookupSpec => []PingsReachStableHosts`
* `RequestsReach`: `LookupSpec => []RequestsReachTheirHost`

Each step of the callback or the main thread is a step of `DeviceRepository`
(`StepIsRepository`, `UsesRepository`: `LookupSpec => Spec`), so that its `IInv` holds.  `LookupInv` adds `CallInv` (what
`read` found is still there, because nobody else writes), `NewDeviceInv` (at most
one device is made and not yet stored, for an address that has none: `create`
cannot be in vain), `DeviceInv` (a device is stored under the address that it was
made with, which has answered for its host), `HandledInv` (every result handled
has its device, with the latest time) and `FindInv` (the search holds the lock, and
what it has passed is not of the host).  A search that finds nothing, although a
result of the host was handled, has passed that address's device: it was made
for another host, so the addresses did not stay together.

From `UsesRepository` the repository's theorems become the application's.  It has
one writer, the callback, so `ApplicationRefines` (`LookupSpec =>
ImplementsRepository`) and `ApplicationIsSafe` hold without an assumption.
`StoredDevicesStay` is the action property that a stored device is never removed
or replaced, from `CreatingKeeps`, since nothing in the application updates or
removes; and `FoundDevicesAreStored` follows: what the main thread found under the
lock is still the repository's whenever it uses it without one.

`TaskRunner_proofs` proves, for any set of tasks, from an inductive `IInv` (what
the queue, the timers and `current` hold was posted and is not in two places;
until the runner is stopped what was posted and has not ended is somewhere; how
far the owner and the thread have come together):

* `TasksDoNotMultiply`: `Spec => []OnePlace`
* `TasksAreKept`: `Spec => []NoTaskLost`
* `DestructionIsComplete`: `Spec => []NothingOutlivesRunner`
* `ReleasedUse`: `Spec => []ReleasedUseIsLast`

`DeviceDiscovery_proofs` proves, for any resolvers and hosts and any finite set of
pollers (`PollersAssumption`), on top of `TaskRunner`'s invariant, since every step
of the discovery is one of the runner:

* `TypeCorrectness`: `DiscoverySpec => []TypeOK`
* `StoppingIsComplete`: `DiscoverySpec => []StopEndsOnlyPoller`
* `PingsDieSafely`: `DiscoverySpec => []PendingPingsDieSafely`

all from `DiscoveryInvariance`.  `PollerInv` (while `start()` is not called on a
started scanner, the runner holds no poller but the last one, and none once
`stop()` has returned) gives the second; `PingInv` (a host's request is that of a
resolver with a pending future), `StoringInv` and `ReadyInv` (no future becomes
ready once the task is freed) give the third.  `StartsInv` counts the pollers, so
that each `start()` has one of its own.

Of the composition itself it proves

* `UsesRunner`: `DiscoverySpec => RunnerInit /\ [][Next]_runnerVars`: no step of
  the task, the poller or a resolver does with the runner what `TaskRunner` does not
  allow
* `RunnerServesDiscovery`: the four properties of `TaskRunner` hold in it
  (`Promises` derives them from the runner's invariant)
* `FuturesSettleOnce`: `DiscoverySpec => [][SettledStays]_vars`: a ping's future
  gets one result, whatever answers, timeouts, second pings of its host and the
  destructor do
* `ResolversWait`: `DiscoverySpec => []EndedIsSettled`: no resolver ends while its
  ping is pending

the last two from `FutureInv`, which adds that a resolver that was not posted has
no future: `discover()` makes one and breaks at most the promise of a pending
request.  The runner's fairness is not part of `UsesRunner`, as the theorem is
about steps.

In `EngineBoots_proofs`, `NumbersGrow` (`Spec => []BootsGrow`) holds for any number of
clients, from `KeptInv` (the file holds the greatest of the numbers that it has
kept) and `BeforeInv` (a client's number is beyond those that were kept when it
loaded).

`EngineBoots_proofs!DestructorsNeverReturn` (of `T == INSTANCE TaskContext`) is about the defect next to the one
that `context_stop` shows: a context's thread cannot end while its work guard
lives, which is destroyed after the join (`GuardInv`).

`Sequence_proofs` is about the loops and the values they run over, for any number of
values of a byte (`ByteAssumption`: two or more), any limits within the type
(`LimitsAssumption`) and any bounds of a range that are values of their type
(`BoundsAssumption`):

* `IncrementWraps`, `DecrementWraps`: for all limits of all integer types, `++` and
  `--` are the next number or the other limit, each on the condition that makes it
  true; `StuckAtTheEdge`: without the condition the number stays where it is
* `Inverses`: `--` undoes `++` and `++` undoes `--`, for limits both within the type
  or both the type's own (`Within`)
* `RangesAreExact`: `Spec => []RangeIsExact`, assumed that `++` of the numbers wraps
  (`MaxWraps`, the condition of `IncrementWraps`)
* `NoValueTwice`: `Spec => []VisitsDiffer`, on the same assumption
* `ConversionsAgree`: `Spec => []ValuesAgree`, assumed `Within`

The addresses need an argument that their lengths do not matter to.  `Numbers[k]`
is the number of values of `k` bytes; `NumberOf` is below it (`NumberFits`) and
determines its bytes (`SameNumber`), which `BytesOf` finds again
(`NumberOfBytes`, `BytesOfNumber`) because a quotient and a remainder are unique
(`Unique`).  As the bytes lie with the least significant first, an address's integer
is the number of its text (`TextIsNumber`), so that `++` moves an address to the next
one in the order of the texts, modulo the number of addresses (`IncrementIsNext`).
`LoopInv` then says that the loop is at the begin's position plus the number of
rounds, modulo that number; it meets the end's position after `(stop - start) %
Count` rounds and not before (`LastIsReached`), as positions determine values
(`PositionIsUnique`).  The lengths 4 and 6 of the addresses are small enough to unfold
`Numbers` and `NumberOf` step by step: no induction is needed.

The assumptions exclude what the code does not get right: with the greatest value
alone at the type's edge a loop that has to pass it does not end, as `StuckAtTheEdge`
shows.  Nothing in the repository makes such a `WrapAround`.

Only model-checked is liveness: `EveryPingEnds`, `QueuedTaskRuns`,
`DestructorReturns`, `StopReturns`, `DiscoverEnds` and `EveryRequestEnds` need
fairness, which the prover's backends do not reason about.

## 5. Not modelled, and why

* What packets contain beyond their source; parsing failures are the packet
  `None`.  Sending: its failure is only logged and changes no state.
* The socket thread's re-arming of receives: it has no state but the ring.
* `DeviceDiscoveryService` beyond its loop over a range, which is `Sequence`'s:
  it forwards calls to its tasks, one after another.
* The characters of a text: an address is parsed from, and printed as, the
  numbers between its separators.
* SNMPv3: its users are calls of SNMP++ and `UserTarget` is created by nothing in
  the repository.  `SnmpService`'s resolver only logs; what it asks, and whom, is
  in `SnmpClient` and `DeviceLookup`.
* `TaskContext`: the end of the process, which destroys the registry's static
  map, and a handler that drops the last pointer to its own context.
* `WrapAround` of a signed type as wide as `int`, whose overflow is undefined,
  and of types that are not numbers.
* `Device::knownSnmpVersions` is written out and never read.
* `SocketPool` and the raw sockets are system calls and constructors;
  `NetworkInterface` reads the system's interfaces.
* `RepositoryRegistry`: one thread registers one repository when the program
  starts, and nothing looks one up.
* Logger, Enum, `Result`, traits, packet builders, protos, cmake: no protocol
  state.

## 6. Plan

Done: every component of section 1 that has a state of its own or an algorithm.
All safety properties that the runs check are proved, and so is what the composed
systems use of each other (`UsesRunner`, `UsesRepository`).  What could follow: an
abstract specification of promises (made, settled once, taken once), implemented by
`IcmpScanner`, `SnmpClient` and `DeviceDiscovery`, of which `PromisesAreSetOnce`,
`SettingOnce` and `FuturesSettleOnce` are the step lemmas.  Out of the prover's reach
is liveness.

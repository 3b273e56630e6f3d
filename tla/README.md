# PhxQueue in TLA+

PhxQueue is a distributed queue: producers add items to stores, a store
replicates them with paxos (the phxpaxos library), consumers fetch and handle
them, a lock service and a scheduler spread the queues over the consumers.
This directory holds TLA+ modules translated from `src/phxqueue`, TLC
configurations that check them on small instances, and TLAPS proofs.

## 1. Inventory

Paths are relative to `src/phxqueue`.

| Component | State | Operations | What makes it correct |
|---|---|---|---|
| store: `store.cpp`, `basemgr.cpp`, `storemeta.cpp`, `storesm.cpp` | paxos log; per queue an in-memory index of cursor ids (`StoreMetaQueue`) | `Add`, `Get`, `Execute`, restart, checkpoint transfer | an accepted item reaches every consumer group it is addressed to, at least once and in log order |
| store cursors: `syncctrl.cpp` | per node, consumer group and queue a *prev* (acknowledged) and a *next* (handed out) cursor, mmap'd | `AdjustNextCursorID`, `UpdateCursorID`, `SyncCursorID`, `ClearSyncCtrl` | prev covers handled items only |
| store thread: `keepsyncthread.cpp`, `checkpointstat.cpp` | checkpoint per group, mmap'd | `MakeCheckPoint`, `SyncCursorID`, `Replay`, `ClearSyncCtrl`, `ReportBacklog` | checkpoint and index cut cover handled items only |
| store master thread: `keepmasterthread.cpp` | rate of mastership | `KeepMaster`, `AdjustMasterRate`, `UpdatePaxosArgs` | mastership settles where the weights put it |
| consumer: `consumer.cpp` | context (prev, next cursor), item buckets per handler | `ChildRun`, `Process`, `Consume`, `AfterConsume`, `TaskDispatch` | an item is acknowledged only after its handler ran; items of one uin in order |
| consumer queue lock: `hblock.cpp` | queue to process assignment in shared memory, lock versions and lease times | `Sync`, `DistubePendingQueues`, `Lock`, `DoLock` | each queue has one holder, and has one eventually |
| consumer limits: `freqman.cpp` | quotas, balance | `UpdateLimitInfo`, `Judge`, `UpdateConsumeStat` | limits are kept, no starvation |
| lock: `lock.cpp`, `lockdb.cpp`, `locksm.cpp`, `lockmgr.cpp` | versioned records in memory and in leveldb, two checkpoints | `GetLockInfo`, `AcquireLock`, `SetString`, `DeleteString`, execute, restart | RET_OK means acquired; one winner per version; the table survives restarts |
| lock threads: `cleanthread.cpp`, `keepmasterthread.cpp` | - | `CleanRecord`, `WriteRestartCheckpoint`, master placement | only dead records are removed; the checkpoint does not outrun the table |
| scheduler: `schedulermgr.cpp`, `loadbalancethread.cpp`, `keepmasterthread.cpp` | topic data: consumers' load, weights, heartbeat times; master lease | `GetAddrScale`, `LoadBalance`, `Reload*Config`, `RenewMaster` | dead consumers get no queues, weights follow the load, one master |
| producer: `producer.cpp`, `batchhelper.cpp`, `selector.cpp` | batches under construction, notifiers | `Enqueue`, `SelectAndAdd`, `BatchRawAdd`, flush daemon | every waiting request gets one answer, its own |
| config: `config/`, and `FileLoader` of `src/phxqueue_phxrpc` | per thread a tree of config objects, each with the mtime it was loaded at | `GetThreadInstance`, `LoadIfModified`, `Rebuild`, look-ups | a thread ends up with what the files say |
| comm: `masterclient.h`, `resourcepool.h`, `notifierpool.cpp`, `multiproc.cpp` | cached master addresses, pooled connections and pipes | `ClientCall`, `Get`/`Put` | the master is found; no answer is that of another call |
| plugin, break points, utilities, phxrpc services and stubs | - | glue, I/O, hooks | - |

**Interactions.** A producer calls `Store::Add` on the master of a paxos
group; paxos delivers chosen values in order to `StoreSM::Execute` on every
node.  A consumer process takes a queue from `HeartBeatLock` (which talks to
the scheduler and to the lock service), then loops: `Get` on the store's
master, handlers, `Get`.  The `Get` carries the cursor of the previous reply
and so acknowledges it.  A failed item is put back with `Add`.  `KeepSyncThread`
of the master replicates the prev cursors through the same log; on every node
it cuts the index and moves the checkpoint, from which phxpaxos replays after
a restart and behind which it may delete log files.

**What is hard.** `Get` reads the cursors under a lock, works, and writes them
back under another lock, next to other Gets, to the state machine and to the
checkpoint thread. A Get can outlive the call that made it. Cursors and
checkpoint survive a restart while the index does not. Mastership moves
between nodes whose cursors differ. Several queues share one checkpoint. Two
consumers may drain one queue when a lease is misjudged. Leases are judged by
clocks read before a request whose answer is late. Counters, slots and pipes
are shared between processes without a lock. What a dead host leaves behind
must be found and taken over by others that hear of it at different times.
`PROJECT.json` lists these hazards with the line where each one bites and the properties that look
after it.

## 2. Modules

| Module | Content |
|---|---|
| `Store` | one paxos group of a store and its consumers: state, actions, fairness, properties; refines `AtLeastOnce` |
| `AtLeastOnce` | what a store promises: a queue of which each item is delivered to its groups before it is acknowledged, and acknowledged before it may be forgotten |
| `StoreInvariant` | the inductive invariants `IInv` and `BoundInv` of the safety proofs |
| `MCStore`, `MCStore_*.cfg` | instances for TLC |
| `StoreProofs` | type correctness, the safety theorems and the refinement of `AtLeastOnce`, for all constants |
| `LockDb` | one record table of the lock service and the operations on it |
| `LockTable` | what the lock service promises: one table, one operation at a time |
| `Lock` | one paxos group of the lock service; refines `LockTable` |
| `LockInvariant` | the inductive invariants `DurableInv`, `AgreeInv`, `VersionInv` |
| `MCLock`, `MCLock_*.cfg` | instances for TLC |
| `LockProofs` | type correctness, durable checkpoints, agreement of the replicas, refinement of `LockTable` |
| `QueueLock` | `HeartBeatLock::Lock` and `DoLock` of the consumer processes over the lock table, with time |
| `SchedulerMaster` | the schedulers' lease on mastership, held in the name of an ip |
| `LeaseProofs` | proofs about `QueueLock` and `SchedulerMaster` |
| `QueueShare` | hosts share out queues by scales on a hash ring, and put them into the slots of their processes |
| `Scheduler` | extends `QueueShare`: reports, dead hosts, balancing, restart and loss of mastership |
| `ShareProofs` | proofs about both |
| `Delivery` | from `Enqueue` over routing, splitting and adding to `Consume` and the last retry |
| `BatchHelper` | `BatchRawAdd`, the daemon thread, the pool of pipes |
| `Dispatch` | one batch in the buckets of handler coroutines |
| `FreqMan` | limits and statistics in shared memory |
| `ServiceProofs` | proofs about `BatchHelper`, `Dispatch` and `FreqMan` |
| `Cursor` | the cursors of one group in one queue at the grain of `SyncCtrl`'s locks, with `Replay` and `ClearSyncCtrl` |
| `CursorProofs` | proofs about `Cursor`, the binary search included |
| `Placement` | where the master of a paxos group of a store or a lock service ends up |
| `MasterClient` | extends `Placement`: how a client finds that master |
| `ClientProofs` | proofs about `MasterClient` and `Delivery` |
| `LockClean` | the walk of the clean thread over the records |
| `ConfigLoad` | when config files are loaded and config objects rebuilt |
| `Ordered` | the elements of a set of numbers in their order, which is how the code walks its maps, and the sums its loops make |
| `Induction` | induction over numbers, sequences and loops, for the proofs |
| `MCClients`, `MCClients_*.cfg` | instances of `QueueLock`, `SchedulerMaster`, `Delivery`, `MasterClient`, `FreqMan`, `Cursor`: safety |
| `MCServices`, `MCServices_*.cfg` | instances of `Scheduler`, `BatchHelper`, `Dispatch`, `FreqMan`, `Placement`, `LockClean`, `ConfigLoad`: safety and liveness |

`Store` and `Lock` are the replicated services. The other modules are the
parts around them and use them as what they were shown to be: `QueueLock` and
`SchedulerMaster` see the lock service as the one table of `LockTable`, with
the time at which a record was written; `Delivery` sees a queue of a store as a
log and an acknowledged cursor that outlives the consumer process, which is what
`AtLeastOnce` leaves of it. Compositions
are `Scheduler` (hosts of `QueueShare`, and the scheduler that sets their
scales) and `MasterClient` (a client, and the nodes of `Placement`). In
`MCClients` and `MCServices` a behaviour is that of one component: `part` names
it, the variables of the others stay as they are.

### Store: state

| Variable | Code |
|---|---|
| `log` | values chosen by paxos; instance id `i` is `log[i+1]` and is the cursor id of its items. An entry holds a set of items (`BatchPropose` puts several AddRequests in one instance) or synchronised cursors |
| `pend` | SyncCtrlInfo values proposed and not chosen |
| `applied`, `minc` | the node's current instance (`GetNowInstanceID`), first instance still stored (`GetMinChosenInstanceID`) |
| `metas` | `StoreMetaQueue` of each queue: an ordered set, since cursors are pushed in increasing order (`NeedSkipAdd`) |
| `prevc`, `nextc` | `SyncCtrl` |
| `cp` | `CheckPointStat` |
| `mk` | local variables of `MakeCheckPoint` |
| `op` | local variables of a `Get` on a server thread; `cli` is the caller, `Nobody` once it gave up |
| `cons` | `ConsumerContext` of a consumer process and its phase |
| `delivered` | history: the items whose handlers ran |
| `master`, `faults` | the master lease; a budget for faults |

`-1` is the largest `uint64_t` in the code. Here `NoCursor` is the integer -1
and each comparison the code makes with it is written out.

### Store: actions

`PaxosAdd` is a successful (or timed out, but chosen) `Store::Add`.
`SyncCursorID`, `SyncChosen`, `SyncLost`, `Execute` follow the replicated
cursors. `Restart` keeps the files (`prevc`, `nextc`, `cp`) and loses the
index; `LoadCheckpointState` takes over a peer's checkpoint. `MakeCheckPoint`,
`ScanCursors`, `ScanMetas` (once per queue) and `DumpCheckPoint` are the
stretches of `KeepSyncThread::MakeCheckPoint` between which other threads run.
`Get` to `UpdateNextCursorID` are those of `BaseMgr::Get`: one step for
`AdjustNextCursorID`, one for the checkpoint, one per iteration of the loop,
one per `UpdateCursorID`. `ChildRun`, `Consume`, `GetFails` and
`ConsumerRestart` are the consumer. The queue lock is not assumed to exclude
anybody: several consumers of a group may work on one queue.

Steps that are coarser than the code: `Execute` applies a SyncCtrlInfo in one
step (the code compares and updates under separate locks); `ScanCursors` reads
the cursors of all groups of a queue in one step; `ScanMetas` cuts the index and
reads its front in one step. Left out of `Store`: delay queues (`atime`),
random Gets (they move no cursor), the frequency limit of a Get (the loop may
end after any iteration), the CRC chain of the index, statistics.

### Lock: state

| Variable | Code |
|---|---|
| `log`, `pend`, `master` | chosen paxos values (`LockPaxosArgs`, or a value for another state machine, `Blank`), proposals in flight, the master lease |
| `map`, `db` | `GroupData::map` and `GroupData::leveldb`: key to record, a record being its version (the instance that wrote it) and its owner |
| `synced` | the part of leveldb that was written synchronously, with the first instance it has not executed |
| `applied`, `dbnext` | first instance that memory (`Execute`), leveldb (`ExecuteForCheckpoint`) has not executed |
| `last`, `mem`, `disk`, `rst` | `last_instance_id`, memory, disk and restart checkpoint |
| `minc` | first instance that paxos still stores |
| `wr` | local variables of `CleanThread::WriteRestartCheckpoint` |
| `call` | a client's request: waiting for its proposal, or done with `LockContext::result` |
| `granted`, `hist` | history: operations answered with RET_OK; the table after each instance, as its first executor had it |

### Lock: actions

`AcquireLock` (lease zero is a release) checks the version against the
master's `map` and proposes; `SetString` and `DeleteString` propose at once.
Requests that are refused before the proposal change nothing and are no steps. `Chosen`,
`ProposalLost`, `MasterElect`, `CleanPaxosLog` stand for phxpaxos. `Execute`
runs an operation on `map` and hands its result to the waiting call; `Answer`
and `CallFails` end the call, with the deletion that follows a release
(`DeleteLock`). `ExecuteForCheckpoint` runs it on `db`; whether the write is
synchronous depends on an interval and on the time, and is free here.
`CleanRecord` proposes to free a record in the version it saw; times are left
out, so that any record may be found expired. `ReadNowInstanceID` to
`WriteRestartCheckpoint` are the stretches of the clean thread between which
others run. `Restart` reads `map` from leveldb, which a power cut may have
taken back to `synced`, and starts from the larger checkpoint;
`LoadCheckpointState` does so from a peer's leveldb.

Coarser than the code: a power cut loses everything or nothing of what was not
written synchronously; the files of a checkpoint transfer are copied in one
step and then durable; opening leveldb is not relied upon to flush it.
`MasterLost` covers the drops of `KeepMasterThread` and of `LockSM::Execute`,
which reads the name of a wanted master in the value of a keep-master thread.
Left out: the option `no_leveldb`, empty keys, and the two read-only requests
(`GetLockInfo`, `GetString`), of which `Versions` keeps what a client can learn.

### QueueLock and SchedulerMaster

`table` holds the lock records with the time they were written; `instance` the
latest version of each paxos group; `pc`, `queue`, `began` where a process is in
`ChildRun` and when its request or its round of `Process` began; `version` and
`overdue` are the thread-local variables of `DoLock`. A process sends
`GetLockInfo` (`StartLock`, `GetLockInfo`), then `AcquireLock` if the record is
its own, gone or overdue, then works until the lock interval is over
(`Acquired`, `InTime`, `LeaveProcess`). `Lost` is a failed request, `Crash` a
process that exits and is forked again, `Clean` the clean thread. `Tick` lets
no request take longer than `Delay` and no round longer than `Body`.
`SchedulerMaster` is built alike: `readAt` is the clock that `KeepMaster` read,
`seen` and `over` its thread-local variables, `expire` the end of mastership in
`SchedulerMgr`. One clock stands for all, as only differences are used.

Who holds a record is told by its client id, which leaves out the port in both.
A scheduler's is its ip (`keepmasterthread.cpp:133`): `IpOf` places the
schedulers on ips, a record carries the ip, and `NeedAcquireLock` compares it.
Schedulers on one ip therefore take each other's record for their own and renew
it: the three of `etc/schedulerconfig.conf`, all on 127.0.0.1, are all masters
for as long as they run. `MastersOverlapBriefly` is about schedulers on different
ips, and nothing is claimed of those on one. A consumer process's id is
`ip-vpid` (`hblock.cpp:684-689`), so that a process of `QueueLock` stands for
one number on one ip, which takes one consumer server per ip.

### QueueShare and Scheduler

`ApplySync` is `HeartBeatLock::Sync` after the answer of the scheduler: it
clears slots of dropped groups, compares config and scales with what was last
applied, computes the share of the host (`Pending`, by `GetQueueByAddrScale`)
and distributes it over the slots, where queues stay that are there already
(`Kept`) and the rest fills free slots (`Left`). Hashes are constants: the
points of hosts and queues on the ring; of two nodes with one hash the first
that is entered stays, which is the host's with the smaller number
(`FallsTo`). `Scheduler` adds the reports of hosts
(`GetAddrScale`), their ageing, the round of `LoadBalance` in two steps
(`UpdateLive`, `AdjustScale`), a start that balances only after three sync
intervals (`WarmUp`), config reload, loss of mastership and restart. Loads are
drawn from a small set and stand for the mean of the reports.

### Delivery

`Enqueue` takes the items queue info by queue info, splits them by number and
size (`OfInfo`, `MakeAddRequests`; an item that is too large fails the call
when it is the first of its queue info and otherwise gets a request of its
own, `TooLarge`) and hands the requests to `SelectAndAdd`, which chooses store
and queue for every attempt (`GetStoreID`, with the hash ring that each thread
keeps, `GetQueueInfoIDByCount`, `GetQueueByLoopRank`); an attempt succeeds, is lost, or is chosen although it failed. `Process` is a Get, the
handlers, of which any may fail or change the size of an item, and the
collection of failed items in `AfterConsume`; they are added by `SelectAndAdd`
before the worker goes on. `Replaced` is the death of a worker or the loss of its
queue.

### BatchHelper, Dispatch, FreqMan

The steps are those between which another thread, coroutine or process runs.
`BatchHelper`: a task joins a batch, a full batch is taken by the caller, a due
one by a routine; sending, notifying, and reading the pipe are steps of their
own. `Dispatch`: handle coroutines yield between items, and the byte that wakes
the dispatch coroutine and the byte it answers with are stages. `FreqMan`:
`UpdateConsumeStat` reads, adds and writes in two steps while
`ClearAllConsumeStat` clears one worker after another.

### Cursor

`StartGet`, `UpdatePrev`, `UpdateNext` are a Get; `CompareSync` and two
`ApplySyncStep`s a `SyncCursorID`; `StartReplay` and two `ReplayStep`s a
`Replay`, with the binary search for a timestamp as a recursive function
(`SearchPoint`). `GivenElsewhere` is what other masters delivered. An instance
may hold no `StorePaxosArgs`, as a master lease does (`NoStamp`), or none with an
item of the queue (`NoItems`); a Get that reads the log instance by instance walks
over it (`WalkedOver`). A probe of the search meets an instance that is not
chosen, that the log cleaner has deleted since the search began (before `gone`),
that cannot be read (in `bad`, one of `BadReads`), that holds no
`StorePaxosArgs`, or that has a timestamp. `MovesUp` has the two cases that move
`l`, deleted and older; all others move `r`, so that one probe of a master lease
sends the search into the older half and it may end any distance before the last
older instance. That costs deliveries made again, never items: what the search
passes over that is still there is older than the time. The exceptions are the first
instance of the log and the one at the point where it ends, which may be the next
one to be chosen; both become the acknowledged cursor and are passed over
unseen. `jumped` keeps what replays pass over, and `CursorCoversGiven` excepts it.

### Placement and MasterClient

phxpaxos is external: a node that tries may become master when nobody is, a
lease that is dropped or whose holder died runs out, nodes learn of masters
late, and a node that dropped tries again after the others had their turn.
`KeepMaster`, `ProposeMaster`, `ExecuteMasterAddr` are the store's; the lock
service does the same. `MasterClient` tries the cached address, then the
addresses in turn and every redirect (`TryCached`, `TryNext`); a pooled
connection carries the late answers that nobody read.

### LockClean and ConfigLoad

`LockClean` walks over the map of the master, `MaxClean` records a round, from
the key after the last one (`ForwardLoopKey`), and proposes deletions that may
fail or come too late. `ConfigLoad` has one thread, the global file and one
file per topic (the five kinds are handled alike); files are written in place,
moved into place, broken or missing, with mtimes in seconds, and read between a
`stat` and the `read`.

## 3. Runs

Every run is finite: `MaxLog` bounds the log, `MaxPend` the proposals in
flight, `MaxScan` the nodes making a checkpoint at once, `MaxFault` the
restarts, timeouts of live calls and losses of mastership. In `twoqueues`
the constraint `RivalsOrSync` keeps the two instances it joins apart. With the log full
and every item handled the system stops, hence `CHECK_DEADLOCK FALSE`.

| Run | Instance | Shows |
|---|---|---|
| `failover` | 2 nodes, log 2, 1 cursor proposal, log deletion, 1 fault | `TypeOK`, `CheckpointCoversDelivered`, `CheckpointNeverRetreats` across a change of master, a Get that is given up and a checkpoint transfer; `DeliversAtLeastOnce`: `Store` implements `AtLeastOnce`, without gaps among first deliveries; and `IInv`, which the proofs show for all instances |
| `twoqueues` | 2 queues in one group, 2 items, no fault; 1 consumer and 1 cursor proposal, or 2 consumers on one queue with 2 threads | `AckedWasDelivered`, `FirstDeliveryInOrder`, `UndeliveredIsIndexed`: neither a rival nor the other queue acknowledges or skips an item; `SyncNeverRetreats`: cursors chosen late do not undo newer ones |
| `live` | 2 nodes, 1 consumer, 1 fault | `EveryItemIsDelivered` under `FairSpec` |
| `twoqueues_restart` | 2 queues, log 3, 1 restart | **violated**: finding 1 |
| `lock_replicas` | 2 nodes, 2 clients, locks and strings on one key, clean thread, log 3, 1 time-out or loss of mastership | `TypeOK`, `ReplicasAgree`, and `ActsAsOneTable`: `Lock` implements `LockTable` |
| `lock_restart` | 2 nodes, 1 client, log 3, log deletion, 1 crash, power cut or transfer | `LeveldbFollows`, `CheckpointIsDurable`, `VersionsNeverRetreat`, and `DurableInv` |
| `lock_release` | 2 nodes, 2 clients, locks and releases, log 4 | **violated**: finding 2 |
| `clients` | see below | `OneConsumerPerQueue` and its invariant `LockInv`; `MastersOverlapBriefly`; `NoItemLost`, `RetriesAreOwn`; `MasterIsFound`; `HandledWithinLimit`; `CursorCoversGiven`, `ReplayStartsClose` |
| `lease_groups` | 2 processes, 2 queues whose keys are in 2 paxos groups | **violated**: finding 3 |
| `pubs_apart` | 2 pubs, each with a store of its own, 2 items | **violated**: finding 5 |
| `services` | see below | `SlotsAreDistinct`, `SameScalesSplitQueues`, `OthersKeepWeight`, `ServedInTheEnd`; `SentOnceWithOwnCode`, `CallsReturn`; `HandledInOrder`, `ConsumeReturns`; `LimitedGoesOn`; `HomeInTheEnd`; `CleanedInTheEnd`; `ConfigInTheEnd` |
| `idle_consumers` | 2 hosts that may report a load of 0 | **violated**: finding 4 |

The instances of `clients`: 2 processes and 2 queues, lease 2, requests that take
up to 1, clock up to 4, 2 versions; 3 schedulers on 2 ips, of which the third
rests or takes its rounds in turn with the others (`RoundsInTurn`), lease 2, rounds
of up to 1, clock up to 4, 3 records; 1 pub with 2 groups, a queue for new items and one
for retries, 2 stores, 1 item, 1 loss, 1 retry; 3 nodes, 1 of which may fail or give
a wrong answer; 1 worker on 2 queues with two limits; a log of 3
with a master lease in the middle, Gets of 1 item in 2 threads, searches that may find
the last instance unreadable, synchronised cursors of items only (`SyncsItems`), 2
late events. Those of `services`: 2 hosts with 2 slots each, 2 queues, two
configs of which the second drops a host, 1 fault; 2 threads, 2 keys, 1
routine, 2 pipes; batches of up to 3 items of 2 uins or none on 2 handlers; 2
workers; 3 nodes and 2 paxos groups at a master rate of 50, 1 fault; 3 keys cleaned
2 a round, 4 requests, 1 fault; 2 writes of config files after the first.

Why these bounds are enough to be of interest: two items are the least for
"acknowledge one, read the other" and for a checkpoint between two queues'
fronts; a third instance is for cursors that are chosen after both were
acknowledged, or for the item after a restart; two nodes give an old and a new
master; two threads a Get and its late predecessor; one fault is a failover,
two are a failover during a failover. In the lock service the first instance
elects the master, so that a log of 3 holds two operations and a log of 4
either three or two masters with an operation each; `Background` limits the
replayer and the clean thread's proposals to one node and `MaxWrite` the
threads in `WriteRestartCheckpoint` to one, since these steps of different nodes do
not touch each other. In the parts around the services, two of a kind (processes,
hosts, threads, queues) are the least that can be in each other's way, one
fault is one chance to leave something behind, and the lease of 2 with delays
of 1 is the shortest that covers its requests (`LeaseCovers`): one less, and
`OneConsumerPerQueue` is violated. `ReplicasAgree` and `ActsAsOneTable` are stated for
instances without restarts and releases, which break them (finding 2, and the
replay of section 5). Each property has a mutant of the code
(operators marked *Mutant* next to the definition they replace) that its run
refutes.

**Finding 1.** In `twoqueues_restart` queue 0 is empty when `MakeCheckPoint`
visits it (`keepsyncthread.cpp:193`), then receives instance `i`, then queue 1
receives `i+1` and is visited: its front makes the checkpoint `i`. A restart
replays from `i+1`, so item `i` is in no index; the next acknowledgement in
queue 0 covers it. It is never delivered, against the At-Least-Once guarantee of
`src/README.md:5`. It bites where the group has no cursor in queue 0 yet: a Get whose
cursor lies before the checkpoint reads the log up to the checkpoint instance by
instance (`basemgr.cpp:283`) and still finds the item, unless the log cleaner, which
the checkpoint lets go on, has deleted it. With one queue per paxos group this cannot happen, and this
is proved.

**Finding 2.** In `lock_release` a client releases a lock in a version that is
no longer current when the release is executed. The replicas refuse it, but
`Lock::AcquireLock` then deletes the key from its own server's table
(`lock.cpp:432`) and returns the result of the deletion. The next AcquireLock
finds no record on the master, is accepted there and answered with RET_OK,
while the other replicas still hold the record of another owner and refuse the
operation. `lock.cpp:346` says "RET_OK if acquired, others if not acquired".

**Finding 3.** `DoLock` keeps the version and the end of the lease it last saw
in thread-local variables. `last_lock_key` is to tell to which key they belong,
but is assigned only when it is not empty (`hblock.cpp:693`), which it never is.
In `lease_groups` a process watches one queue's lease run out, is then given
another queue whose record, in another paxos group of the lock service, has the
same version, takes that lease for over as well and acquires the queue of a
holder that has just renewed it. `src/README.zh_cn.md:244` says that deploying
Lock avoids that a queue is consumed twice. With all keys in one paxos group versions
are unique and this cannot happen; this is proved.

**Finding 4.** When the scheduler starts, every listed host has its configured
scale and none is live. In `idle_consumers` a host reports and dies before the
first dynamic round, while no consumer reports any load. `UpdateLive` marks the
other host live and sets `live_modified`, `GetMeanLoad` returns an error because
the sum of loads is 0, and `LoadBalance` goes on to the next topic
(`schedulermgr.cpp:286`) without `AdjustScale`. The note is lost with the local
variable: later rounds find nothing changed and the weights within
`scheduler_weight_sticky` of each other. The dead host, never marked live, is never
marked dead either; it keeps its scale, and the queues that fall to it are served by
nobody until the loads change. This is against the "disaster recovery" of
`src/README.md:265`. A host that was live and stops reporting does lose its scale,
whatever the loads: `UpdateLive` calls `Reset`, which sets its weight to 0
(`schedulermgr.cpp:663`, `schedulermgr.h:125`). With positive loads (`services`) the
queues are taken over.

**Finding 5.** In `pubs_apart` a thread enqueues an item of one pub and then
one of another. `GetStoreID` keeps the hash ring of stores per thread and topic
(`selector.cpp:157`) but fills it with the stores of the pub of the call that
found the config changed, so that the second item is put in a store that does not
serve its pub. The store accepts it, `Enqueue` returns RET_OK, and no consumer of
the pub is given a queue of that store. The item is never delivered, against
`src/README.md:5`. Where all pubs have the same stores this cannot happen; this
is proved. The proof's hypothesis led to the run.

**Fairness.** `FairSpec` assumes that paxos elects a master when there is
none, that nodes go on learning, that a server thread finishes its Get, and
that a consumer's loop goes on: takes a queue, calls Get, gives up a lost call
(the RPC timeout), runs its handlers. All are weak fairness of steps that are the
next statement of a running thread or a library's own duty. Nothing is assumed
of checkpoints, cursor synchronisation or faults.

`ServicesFairness` is weak fairness of what threads and clocks do by
themselves: the sync process of a host that runs, the ageing of its report and
the load balance thread (all loop for ever, with sleeps); the election of a
scheduler; senders, the daemon thread and callers that wait on a pipe; the
dispatch thread and handlers (that handlers return is assumed; `Consume` can wait
for ever for one that does not); workers and the process of `FreqMan`; phxpaxos'
elections and the keep-master threads; the clean thread and the end of leases;
a thread that goes on using its config. No fairness is given to faults, to new
requests, to config changes or to hosts coming back, and every run bounds the
faults, which is what "when nothing goes wrong any more" means.

## 4. Proofs

`StoreProofs!TypeCorrect` proves `TypeOK` for all constants. `StoreProofs`
proves further, for every number of nodes, groups, consumers, threads and faults, every log
and every batch:

- with **one queue in the paxos group** (`NQueue = 1`; finding 1 shows that it
  is needed) `AtLeastOnce`, `InOrder`, `SafeCheckpoint` and `NothingLost`, and
  that the store implements the abstract queue `AtLeastOnce`
  (`ImplementsAtLeastOnce`);
- for **any number of queues**, if paxos deletes none of its log (`~Trimming`) and
  no node is restarted (`NoRestart`), `AtLeastOnceOfMany`, `InOrderOfMany`,
  `NothingLostOfMany` and `ImplementsAtLeastOnceOfMany`: finding 1 comes out only
  when somebody relies on a checkpoint. Lost calls, late Gets, rival
  consumers, late synchronised cursors and changes of master are included;
- for any number of queues and every fault, `SyncAdvances` and
  `CheckpointAdvances`. The latter needs only what is about numbers:
  `BoundInv` (`Bounded`) keeps indexes, checkpoints, the trimmed log and a
  checkpoint in the making within what the node has executed, so that a
  checkpoint that is taken over from a peer lies past the node's own.

The properties are not inductive: a wrong cursor may sit in a proposal, in the
log, in a Get under way, in a consumer or in the half-made checkpoint long
before it reaches `SyncCtrl`. `IInv` says of every place that holds a cursor
that the cursor is *settled*, i.e. within the log and covering delivered items
only; a Get's or a consumer's position is settled but for the items in its
reply; a consumer's pending Get works for the consumer's own queue and group;
and what is executed and not delivered is in the index. `log` and `delivered`
only grow (`GrowsStep`), so what is settled stays settled (`CoveredStays`), and each
action has one lemma that treats only the parts it disturbs (`...Kept` lemmas
carry the others). The case that needs `NQueue = 1` is `ScanMetas`: the front
of the only queue bounds the checkpoint of the whole group, while the instance
read at the start bounds it when the queue is empty. With several queues a
checkpoint in the making may cover too much, and `IInv` says nothing of it then
(`CheckpointsSettled`, `ScanOK`); that nobody starts from one is what the second group of
theorems assumes.

The refinement maps the log to `batches`, and a group's acknowledged items to those that
some node's prev cursor covers; what some node has trimmed is `gone`. A step
of the contract may acknowledge or forget only what was delivered, so that
`UpdatePrevCursorID`, `SyncCursorID` on a node that learns, and a transfer have
to show it of the cursors and positions they bring in; `IInv` does. `ItemsAddressed` adds
that handlers get only items that are addressed to their group, which no
safety property above says: a Get's items come from an index and from log entries
that are filtered by group.

`LockProofs` proves for all constants `TypeCorrect` and `DurableCheckpoint`:
a checkpoint never covers an operation that leveldb has not executed or would
lose in a power cut. `CheckpointIsDurable` is not inductive either. A
synchronous write makes durable what the replayer has executed, so
`DurableInv` says that checkpoints cover nothing beyond `dbnext` too; and the
restart checkpoint is computed from three positions read one after another.
That it is safe rests on the order of the reads: the current instance is read
first, and the last operation, read last, is one that leveldb had executed, so
no operation lies between `dbnext` and the instance that was read (`LastOK`,
`WriteOK`; the mutant `WriteCurrentInstance` reads it later and fails).

`StoreProofs!Invariant` and `LockProofs!Invariant` state `IInv` and
`DurableInv` themselves.

Four more theorems are about the contents of the lock tables.

- `ReplayerFollows` (`LeveldbFollows`): once the replayer has caught up,
  leveldb holds the table in memory, through restarts, power cuts, replays from an
  old checkpoint and checkpoint transfer. Its invariant `FollowInv` says that
  the operations between `dbnext` and `applied` lead from one table to the
  other (`Leads`); that they do so again after a restart, where memory is read
  from leveldb, is `LeadsMore` and `LeadsLess`. Hypothesis: no client releases a
  lock, the one request that changes memory outside the log (finding 2).
- `VersionsAdvance` (`VersionsNeverRetreat`): an operation never replaces a
  record by an older version of it, although a node replays operations on a
  leveldb that is ahead of its checkpoint. `VersionInv`: an operation names
  a version of the past, and tables hold versions of the past. Hypothesis:
  nobody sets a string, since a string is set whatever the version.
- `Agreement` and `TablesAgree` (`ReplicasAgree`): all nodes have the same
  tables at the same instance. `AgreeInv` ties tables, proposals, calls and answers
  to one history, in which each table is what the operation makes of the
  one before.
- `ImplementsTable` (`ActsAsOneTable`): `Lock` implements `LockTable`. The
  refinement mapping takes the last table of the history, which the node that is
  ahead made. That node's next `Execute` is the table's `Perform` or `Skip`, an
  answer with RET_OK its `Answer`, every other step a stutter.

The last two assume that no client releases a lock and that no node restarts
(`MaxRestart = 0`); a restart on a leveldb that is ahead of its checkpoint can
accept what was refused before (section 5).

`LeaseProofs` proves `OneConsumerPerQueue` (`ExclusiveQueues`) for every
number of processes and queues, every lease and delay and any clock, under two
hypotheses: `SameGroup`, all lock keys are in one paxos group (finding 3 shows
that it is needed), and `LeaseCovers`, a lease outlasts a lock interval, a
round of work and the requests on either side. It is not inductive: whether a
rival may take a record over was settled when it first saw the record's version.
`LockInv` adds how old requests and rounds can be (`Clocks`), that a held
queue's record is the holder's and young (`HolderOwnsRecord`), that a version
names one record (`VersionsAreUnique`), and that who knows a record's version
counts at least a lease from its writing, less a delay, and goes on to acquire
only after that (`SeenLeaseIsCounted`). The last two together exclude the takeover of
a record that was renewed: renewal changes the version.

`LeaseProofs` also proves `MastersOverlapBriefly` (`MastershipPasses`)
for all constants, every placement of the schedulers on ips included: two masters at
once that are on different ips. Its invariant `MasterInv` follows every *claim*, the end of
mastership that a scheduler has or is about to get from an answer under way: a
claim ends before the lease of a record in the name of the scheduler's ip, or
within a round (`ClaimsAreCovered`). Who takes a record from another ip read its clock after
`over`, which is at most a round short of the record's lease, so that the
claims it covered end within a round.

`CursorProofs` proves for every log, thread and late update that the
acknowledged cursor covers only what the group was given (`AcknowledgedWasGiven`). What
has to be added in `CursorInv` are the values that threads carry from one lock of
`SyncCtrl` to the next: a Get's two updates, the second half of a
`SyncCursorID` or `Replay`. Each is covered before it is stored, and the
covered set only grows. `ReplayFindsTime` shows where the binary search of
`Replay` ends (`ReplayStartsClose`), for every log and time, whatever is deleted or
unreadable: of the instances that are still there only older ones lie strictly
between the first one and the point, and if an older one lies beyond the point, one
without `StorePaxosArgs` or that could not be read lies between and led the search
away. `Encloses` is the loop invariant: `l` is the first instance or one that moves
up, and the one after `r` is not chosen or moves down. The interval shrinks with
every turn, and the recursive function `SearchPoint` is unfolded turn by turn.

`ClientProofs` proves two things. A call finds the master while the nodes that run
agree on it (`CallsFindMaster`): `RouteInv` says that the loop is at the master or
has more tries left than addresses before it comes to the master
(`LoopHasTriesEnough`), which a wrong redirect cannot undo while the nodes agree. And no
accepted item is lost (`AcceptedIsDelivered`), for every topic config, number of
items, limits, lost and late answers and replaced workers. `DeliveryInv`
(`RequestsAreRouted`) says that each request holds items of one queue info and
that a retried copy is for the one group that failed on the copy before, which
is `RetriesAreOwn` (`FailuresStayPrivate`). `ReachInv` follows an item of a group: it is in a log
that the group's workers read, or was got and was handled, failed for the last
time or is in a worker's list of retries, in which case its entry in the log is not
acknowledged. Two hypotheses are needed. `SameStores`: all pubs have the same
stores (finding 5). `NoneGrowsTooLarge`: handlers do not make an item too large
to be added again; `AfterConsume` gives up all items that failed with
such an item when it comes first.

`ServiceProofs` proves that a batch is handled in the order of the queue for
each uin, each item once, and that no coroutine works on it when `Consume`
returns (`BatchHandledInOrder`); `DispatchInv` (`BucketsHoldBatch`) says where the
items that are not handled are, in which order, and that the counters count them. And
that a batched request is sent once and answered with its own code
(`RequestsAreSentOnce`); `BatchInv` (`TasksAndPipesAreOwn`) says that a task is in
one batch, job or pipe only and that a pipe is in the pool, and empty, or belongs to one
thread, which is what a pipe that is returned with a byte in it would break. And that
the limits of `FreqMan` are held for every number of workers, limits and rounds
(`JudgeHoldsLimits`): a clearing that is lost makes a worker's statistics too
large, never too small, which is `CountsCoverHandled` in `FreqInv`
(`CountsAreKept`); the quotients and sums of `UpdateLimitInfo` stay numbers.

`ShareProofs` proves that no two processes of a host get the same queue
(`ProcessesHaveOwnQueues`) and that hosts with the same scales split the queues
(`HostsSplitQueues`), for every ring, ties included. `SchedInv`
(`ScalesAreUsable`) also bounds every weight that the scheduler can compute
by the virtual nodes a host has, without which a queue could fall to nobody. And
a host that was always answered keeps a positive scale
(`AnsweredHostsKeepWeight`, for `OthersKeepWeight`). `WeightInv` says when such a host's
report is fresh, so that the thread that compares times never finds it dead, and that
live hosts have reported a load; the mean load is then at least the least
load (`MeanLoadAtLeast`). Its hypothesis `WeightsSuffice` is about configs and loads:
`AdjustScale` computes init * mean / load in integers, so that a host with a small
initial weight and more than that multiple of the mean load gets weight 0, and one
that was given scale 0 by an earlier config has none until the next
`AdjustScale`. The instance of `services` satisfies it.

**Induction.** The provers cannot instantiate an induction theorem over an
operator, but they can over a set. `Induction` derives from the
library's well-founded induction that a set of numbers has a least element,
and from it induction over a set of numbers (`NatSetInduction`), the existence of
a recursive function given by its steps (`IterationExists`), and what
`InOrder` returns. With these the proofs follow the loops of the code:
the binary search, the flattening and splitting of requests, the rounds over
the groups in `DistubePendingQueues`, sums of loads.

Assumptions on constants: `ConstantsAssumption`, `RecordAssumption`,
`LockAssumption`, `LeaseAssumption`, `SchedLeaseAssumption` and those of the
other modules (types, limits that are not 0, and that the value for "none" is no
other value).

Only model-checked:

- liveness, since the prover does not do fairness: `EveryItemIsDelivered`,
  `ServedInTheEnd`, `CallsReturn`, `ConsumeReturns`, `LimitedGoesOn`,
  `HomeInTheEnd`, `CleanedInTheEnd`, `ConfigInTheEnd`
  (`live` has one consumer: with two and no fault TLC found
  `EveryItemIsDelivered` to hold too, with two and a fault it does not end in time;
  readers that reset each other are shown only not to lose items, in `twoqueues`);
- several queues in one paxos group with restarts or trimming, as far as they do
  not fail (finding 1);
- `ClientsTypeOK` and `ServicesTypeOK`, which put the types of the parts
  together for TLC; the invariants of the proofs contain those of `Delivery`,
  `MasterClient`, `Cursor`, `QueueLock`, `SchedulerMaster`, `Scheduler`,
  `BatchHelper`, `Dispatch` and `FreqMan`.

## 5. Not modelled, and the plan

`PROJECT.json` lists every component with its status. Next, in this order:

1. **Proofs, further**: the types of `Placement`, `LockClean` and `ConfigLoad`; a
   condition on the order of additions and scans under which several queues may share a
   checkpoint.
2. **Lock service, further**: a node whose leveldb is ahead of its checkpoint
   executes operations a second time, and one that was refused may then be
   accepted when its record was cleaned in between; the logs that show it are
   longer than the present runs reach.
3. **Store, further**: delay queues (`atime`).

Limits of what is modelled: `FreqMan` has no limit infos of limit 0 and not the
halving of a Get's limit after a failed Get (`consumer.cpp:748`); `OthersKeepWeight` says nothing of a host
after the scheduler it reports to lost its mastership; in the run of `NoItemLost`
no item is larger than a request may be, so that what `AfterConsume` does with one
(`consumer.cpp:1078`) is covered only by the hypothesis of the proof; several
schedulers on one ip are followed in `SchedulerMaster` only, `Scheduler` has
one.

Left out for good: look-ups in configs that route nothing (constants of the
models), `UpdatePaxosArgs` (hands config values to phxpaxos), the option
`no_leveldb`, break points, logging, file and mmap I/O, factories, generated RPC
code and tools. A crash inside the copying of a checkpoint needs leveldb's own
recovery, which is not in the repository.

# TLA+ models of redis-rs-py

redis-rs-py is a Python client for Redis and Valkey whose I/O runs in Rust: PyO3
classes on top of the `redis` crate and one tokio runtime per process. What is hard
to get right, and hard to test, is where Python threads and asyncio tasks on one side
meet tokio tasks on the other, and where small pieces of state are read before a round
trip and used after it. Most of the lines, though, are command methods, written twice
(`Redis` and `AsyncRedis`) and by hand, where the question is whether the two copies,
and the request and the call, agree. This directory models both, checks them with TLC
and proves the main results with TLAPS.

Paths below are relative to `src/crates/redis-rs-py-driver/src/`.

## 1. Inventory

| Component | State | Operations | Meets |
|---|---|---|---|
| asyncio bridge, `async_bridge.rs`, `helpers.rs` | `RedisRsAwaitable`: receiver, result slot, callbacks, value, cancelled flag, poll counter | `__next__`, `_wake`, `add_done_callback`, `result`, `exception`, `cancel`; the watcher task | tokio operation; asyncio's Task and loop |
| `Pipeline`, `transaction()`, `facade/pipeline.rs` | `PipelineState`: commands, watched keys, flags, reserved connection | `watch`, `unwatch`, `multi`, `discard`, `reset`, `close`, buffered and immediate commands, `execute`; the retry loop | `ReservedConnection` and the shared connection |
| `AsyncPipeline`, `atransaction`, same file | the same state behind a mutex that is not held over a round trip | the `a...` methods, each a spawned tokio task; the retry coroutine | the asyncio bridge, `ReservedConnection` |
| `PubSub`, `AsyncPubSub`, `facade/pubsub.rs` | handlers; `SubscriptionState`, command and outbound channels | subscribe/unsubscribe of three kinds, reading, closing, `run_in_thread`; supervisor loop, reconnect, replay | server, reader threads |
| `Lock`, `facade/sync.rs` | the token of each `Lock` object | `acquire`, `release`, `extend`, `with` | the key on the server; `sentinel_retry` |
| `ValkeyConn`, `SentinelConn`, `connection.rs` | the regular and the lazily built blocking connection; behind a Sentinel, the current master connection | the dispatch macros, `get_blocking`, `rediscover`, the retry of a failed command | every command; sentinels, servers |
| Sentinel facades, `facade/sentinel.rs` | sentinel clients | `discover_master`, `discover_slaves`, `master_for` | `SentinelConn` |
| cluster facades, `facade/cluster.rs` | none of their own | slot computation, fan-out of multi-key commands, scans over nodes | `JoinSet` of per-slot commands |
| runtime registry, `runtime.rs` | the runtime and the PID it belongs to | `get_runtime`, renewal after fork | everything that spawns |
| connection construction, `connection.rs` | configuration | URLs, TLS, client-side cache options | |
| command methods, `commands/`, facades | the `closed` flag of the client | about 240 methods in two variants: tests, one command, conversion of the reply; `close`, `aclose` | `async_op!`, `sync_op!`, `ValkeyConn` |
| errors, `errors.rs`, `exceptions.rs` | none | reply to exception class | |
| conversions, `facade/kwargs.rs`, `facade/decode.rs`, `raw_result.rs` | none | arguments and results | |

Where it is hard, and what makes each part correct:

* **bridge**: completion, polling, the watcher's wake and cancellation meet in any
  order. The awaitable settles once; what is delivered is the operation's outcome; a
  suspended task is woken; a done callback runs on a done awaitable.
* **pipelines**: a value read under WATCH is used rounds later, through errors,
  unwatching and retries, with replies that get lost. No lost update, no block
  applied twice, the retry loop ends, the reserved connection is released.
* **pubsub**: the connection dies at any point, also while subscriptions are being
  replayed; close() meets blocked readers and callers. The record agrees with the
  server; nobody waits for ever; a confirmation precedes the first message.
* **lock**: keys expire under their holders, replies get lost, commands are repeated,
  Lock objects are shared by threads. Mutual exclusion, a key that only its own Lock
  object ends or prolongs, a holder that can release, acquire() that returns.
* **connection**: several calls share one connection while the master changes, sentinels are
  out of date, answers never come and the blocking connection is built by whoever needs it
  first. A call says truly what became of its command; it returns; in quiet times it succeeds.
* **cluster fan-out**: groups of keys answer in any order and fail one by one. A fan-out that
  succeeds is the one command it stands for.
* **runtime**: first calls race, and a process forks in the middle of them. A process gets a
  runtime of its own, and not one per call.
* **command methods**: the checks of the macros are forgotten where a method is written without
  them; the two copies drift apart; an option is dropped on the way to the wire.

`PROJECT.json` lists every hazard with its line. Where the code does run into a hazard and no
property can hold, the note of the hazard says so: an `aclose()` or a second call beside a given-up
`awatch()`, names the server refuses in a replay, a Lock object two threads use at once, a lock extended by less
than a millisecond, a sentinel that names an unreachable master, and two moments of a fork in the
middle of `get_runtime`.

## 2. Modules

| Module | Models |
|---|---|
| `Awaitable` | `RedisRsAwaitable`, its watcher, and asyncio as its user |
| `AsyncFuture` | abstract: what an awaitable promises its awaiters |
| `AtomicUpdate` | abstract: what `transaction()` and `atransaction()` promise a caller |
| `ReservedConnection` | the reserved connection and its server side; shared by the next two |
| `Transaction` | `Pipeline` under `transaction_helper` |
| `AsyncPipeline` | `AsyncPipeline` under `atransaction_helper` |
| `PubSubBridge` | `PubSub`/`AsyncPubSub`, supervisor, server, readers |
| `Lock` | `Lock` objects on one key |
| `ValkeyConn` | the connection all calls of a client share: arms, blocking connection, sentinel retry |
| `CommandCall` | abstract: what a client promises the caller of one command |
| `Crc16` | the CRC that takes a key, or its hash tag, to a slot |
| `ClusterFanout` | the fan-out of MGET, MSET, DEL, UNLINK, EXISTS, for any function from keys to slots |
| `Client` | composes the two: the arm a client was built with decides which takes its calls |
| `Runtime` | the per-process tokio runtime and its renewal after a fork |
| `Requests` | what a command method can do with a call: refuse, answer, send |
| `SetCommands`, `ListCommands`, `HashCommands`, `StringCommands`, `ZSetCommands`, `StreamCommands`, `ServerCommands` | the methods of each family, sync and async (`ServerCommands`: scripts, functions, administration) |
| `Commands` | the two facades called in step, closed at any time, answered well or badly |
| `MC...` | the same, for TLC |
| `AwaitableProofs`, `TransactionProofs`, `AsyncPipelineProofs`, `PubSubBridgeProofs`, `LockProofs`, `RuntimeProofs`, `ValkeyConnProofs`, `ClientProofs` | TLAPS proofs |

`PROJECT.json` maps each definition to its lines.

**Awaitable.** `op` is the tokio task, `rx`, `slot`, `cb`, `callbacks`, `value`,
`cancelled`, `polls` are the fields of the object (`resolved` is `value # "none"`),
`watcher` the task spawned on entering callback mode. `Poll` has one disjunct per exit
of `__next__`. `polls` is a `u8` (modulo 256). A `_wake` in progress (`running`) holds
the loop. asyncio is external: `TaskStep`, `Wakeup` and `TaskCancel` follow
`Task.__step`, `__wakeup` and `cancel`. The ready queue is a set, so every order of
ready handles is explored, FIFO among them. An outcome is whether `into_py` succeeds,
raises, or the sender was dropped.

**Transaction.** One thread per worker, each with its own pipeline and reserved
connection. The data is one key, represented by a version that each write increases.
A round trip ends `ok`, `lost` (done, but an error) or `refused` (not done). The user's
function calls the pipeline's methods in any order, catches errors or lets them go; it
leaves `execute()` to the helper and raises no WatchError itself. `counts` and `seen` are
history: does the program count on a watch, and which version did it read under it. As an
`AtomicUpdate` a worker's call is open until `execute()` has answered with anything but WatchError
(`Status`); its block writes the key if a SET is buffered (`Writes`), and rests on the version read under
the watch while the call is open (`RestsOn`).

**AsyncPipeline.** Each `a...` method is a task in one of `Slots`, with one step per
stretch of code between two points where the state's lock is free: check, reserve and
store, take, round trip, put back, note. The program awaits one call at a time; `GivesUp` is a
timeout or cancellation, which ends the await and not the task (`cancel()` does not reach
the operation). `gaveUp` records whether
that happened and whether another call than `aclose()` was then made with it in flight.
Tasks left over from an earlier attempt act on that attempt's pipeline object and are
dropped; a write one of them still makes is among those of `OtherWrite`. As an `AtomicUpdate` the call of
`atransaction` is `abandoned` once the program has an error while an `aexecute()` is not yet decided
(`Undecided`): that one still ends, once. The read is part of the block until calls overlap.

**PubSubBridge.** `sup` is where the supervisor is in its loop; the acknowledgement
(`CommandDone`) and the record (`Record`) are two steps because they are two in the code,
with the caller free to run in between. Both classes are covered (`class`): PyO3's
borrow keeps a sync `close()` out while a sync method runs. A message is its name.

**Lock.** `call[t]` is the call a thread is in, with the token the code keeps in a
local variable; `token[l]` is `self.token`. `again` is a round trip repeated by
`sentinel_retry` after its first run took effect. Tokens are numbers in order:
`generate_token` does not repeat one, and programs that pass their own are taken not to.
`granted` and `shared` are history. A `with` statement is one call from `__enter__` to the end
of `__exit__`. `owned()` and `locked()` only read and are left out.

**ValkeyConn.** A call is one command of one thread or task. `cell` holds the regular connection
and the blocking one, empty until `get_blocking`'s OnceCell is filled (`building` is the call
inside its initialiser). A multiplexed connection is a queue that the server works off in order; one that
died without anybody knowing is in `broken`. `Dispatch` is what the macros make of an answer: on the
Sentinel arm a first answer that `is_failover_error` accepts leads to `Walk` (one sentinel after
the other), `connect`, `Swap` and the second attempt. A call is `plain`, `block` (served by the blocking
connection) or `wait` (WAIT, WAITAOF, DEBUG SLEEP, which stall the regular one). The
environment fails over, restarts and stops nodes, drops connections, and lets sentinels be outdated or
silent; `calm` is history: the calls that met none of this. As a `CommandCall` a call has made `Sent`
attempts, of which `Owed` are still in a queue, and is `Unsure` when one of them ended with a connection error.

**ClusterFanout.** The hash tag of `cluster_slot`, and next to it the server's own rule; the function from
bytes to slots is a constant (`SlotOf`), which the run takes from `Crc16` (on `Bitwise`). A fan-out groups
keys by slot, spawns a task per group, and `JoinNext` merges what finishes, in any order; the first error
ends it and drops the tasks not yet finished. A group whose keys the server has in different slots is
refused (`Refuse`) or split further by the library's cluster connection (then it is an `Execute`); which of the
two is up to the library and so left open.

**Runtime.** `once`, `recorded`, and `forkPid`/`forkRt` are RUNTIME, RUNTIME_PID and FORK_RUNTIME in
each process; one step per atomic access, initialiser and lock of `get_runtime`. `Fork` copies the memory
and one thread; a lock held by another thread is held by a `Ghost` in the child, which waits for it for
ever. `clean` has the processes `LiveRuntime` is about: all but those forked between `get_or_init` and the
store of the PID (their memory has a dead runtime and no PID) and those given a PID their memory had
recorded. PIDs are used
again after a process ends.

**Requests, the families and Commands.** A method is a function from a call to an outcome: an exception, an
answer without a request, or a command as a sequence of words with the connection it is sent on,
the Python type of the reply, whether `decode_responses` reaches it, and what becomes of a reply of the wrong
shape. Each family has what is put on the wire (shared by both variants, as the code shares it)
and, per variant, the tests around it in the order in which the code makes them. `Commands` makes the same call on a `Redis` and an
`AsyncRedis`. Arguments are reduced to which options are given (every subset
the signature allows, modes outside the accepted words included) and how many variadic
arguments there are. A `close()` during a call of `Redis` raises (PyO3's borrow); an
`aclose()` does not.

## 3. Runs

Passing:

| Run | Bounds | Shows |
|---|---|---|
| `awaitable_one_task` | 1 task, 2 observers, 5 busy polls | `NoLostWakeup`, `CallbackSeesDone`, `AwaiterResumes`, `AcceptedCallbackFires` |
| `awaitable_shared` | 2 tasks, 1 observer, 5 busy polls | `TypeOK`, `AnswersAgreeWithOp`, `CallbackModeInv`, `ImplementsFuture` (refinement of `AsyncFuture`) |
| `transaction` | 2 workers, 3 calls per run of the function, 1 write from outside | `ReadIsProtected`, `AppliedAtMostOnce`, `AppliedToWhatWasRead`, `ImplementsUpdate` (refinement of `AtomicUpdate`), `TransactionEnds` |
| `async_pipeline` | 2 calls in flight, 3 calls per run of the function, 1 write from outside | `ReadIsProtected`, `ConnectionReleased`, `AppliedToWhatWasRead`, `ImplementsUpdate` (refinement of `AtomicUpdate`), `AtransactionEnds` |
| `pubsub_bridge` | 1 channel, 1 pattern, 2 callers of one call each, 1 reader, 2 connect attempts, 1 message, 1 lost connection | `TypeOK`, `RecordAgreesWithServer`, `ConfirmedFirst`, `CallerIsQueued`, `CallsReturn`, `ListenEnds`, `Resubscribed` |
| `lock` | 2 threads, 2 Lock objects (one with a timeout), 3 calls, Sentinel connection | `HoldersHaveKey`, `OthersLeaveTheKey`, `OwnerCanRelease`, `AcquireReturns`, `TimedLockComesFree` |
| `runtime` | 3 processes, 2 alive at a time, 2 threads, 3 PIDs | `LiveRuntime`, `BuiltOnce` |
| `client` | 2 calls of mixed kinds, 2 nodes, 2 sentinels, 1 fault; or 1 fan-out of up to 3 keys with 1 failing node | `TellsTheTruth`, `CalmCallSucceeds`, `FanoutIsOneCommand`, `CallsReturn` |
| `commands` | every method of the families, every subset of its options, 0 to 2 variadic arguments | `ClosedIsQuiet`, `VariantsAgree`, `RequestIsFaithful` |

Why the bounds are enough to make the cases happen: the busy polls are the code's own
number, and a second task is what it takes for two polls to compete. In `transaction` a
worker's block and the outside write each dirty the other's watch, and three calls
allow watch, read, write, or watch, unwatch, watch again, on top of the helper's own
`watch`. In `async_pipeline` two slots are a given-up call and the one made after it.
In `pubsub_bridge` two callers let a subscribe and an unsubscribe of the
same name, or a call and a shutdown, queue behind each other; one loss is enough for a
reconnect with and without a replay to do, and two attempts for one that gives up and
one that does not (the code's 32 only repeat them). In `lock` three calls are an acquire that
expires, another Lock's acquire and the late release of the first. In `runtime` two of the three
processes alive is a parent and its child, and the third one is a grandchild or the one that
gets an old PID back. In `client` two calls are one that fails over and one that overtakes it
or waits for the same blocking connection, and the fault comes at any point; three keys
are two groups of which one is not contiguous, with braces in every order, and one pair of keys
(`}{a}` and the character of bytes 208, 132) that `cluster_slot` puts in one slot and the server in two. In `commands` two
variadic arguments are what it takes to see order and repetition; no method counts further.
`CHECK_DEADLOCK FALSE` is set because every model may come to rest: the calls end.

Each passing property has a mutant of the code in `PROJECT.json` that breaks it; the
mutants are the definitions marked `Mutant:` in the modules.

Violations, each a disagreement of the code with one of its own statements:

| Run | Property | What happens |
|---|---|---|
| `awaitable_shared_wakeup` | `AwaiterResumes` | with two awaiters, the second one's poll takes the outcome between the watcher filling the slot and `_wake` and drops the first one's wakeup with `self.cb`; that task waits for ever |
| `async_pipeline_reserved` | `ReservedPresent` | `atransaction` cancelled during `awatch()`: the helper's `aclose()` takes the connection between `awatch()` storing and taking it, and the `expect("reserved must be present")` panics in the tokio task |
| `pubsub_worker` | `WorkerHasHandlers` | `subscribe()` is acknowledged before it is recorded, so `run_in_thread()` right after it can miss the name and start without a handler |

Seen while modelling, not given a run of their own:

* `cluster_slot` calls itself "the canonical algorithm from the Redis cluster spec" and says that it looks
  for a `{` "followed later by" a `}` (cluster.rs:319-323), but it takes the first `}` of the key wherever it
  is, the specification the first one after the `{`. A key such as `}{a}` is therefore hashed whole, and a
  key that happens to share that slot lands in its group. `FanoutIsOneCommand` says that only such a key
  can get a group refused; that it does happen is in the run's state space.
* Awaiting: `cancel()` leaves the operation running although PLAN.md says that the tokio future is
  dropped; `async for` over a PubSub gets `None` after a millisecond although the comment says it
  waits; `with lock:` runs its body when `acquire()` returned False.
* `get_runtime` loads RUNTIME_PID twice (runtime.rs:33), so two racing first calls can leak a second
  runtime; `BuiltOnce` bounds it.
* `rediscover` gives up with the connect error of the node the first answering sentinel named
  (connection.rs:159). Pub/sub and pipelines on a client with several URLs use the first one only.
  `transaction=True` is ignored by cluster pipelines.
* A retry after a timeout or a dead connection applies a command twice when the first one had arrived;
  `TellsTheTruth` says that this is the only case. WAIT and WAITAOF run on the regular connection and
  hold up everything behind them.
* Closed clients still send from the blocking pops, from `xread` and `xreadgroup` of `Redis`, and from
  `hrandfield`, `hscan` and `zrandmember` of `AsyncRedis`; tasks that AsyncRedis had spawned go on
  after `aclose()` (`ClosedIsQuiet` names exactly these).
* The variants differ where `VariantsDiffer` says: `hrandfield` and `hscan` of `AsyncRedis` are never
  decoded, empty variadic calls are answered before or after the test of `closed`, `scan` is a tuple or a list,
  `bgsave` and `bgrewriteaof` return the message or None, and malformed replies of the scans
  and of `zmscore` end differently.
* Options dropped without a word (`Dropped`): WITHVALUES and WITHSCORES without a count, MINID
  together with MAXLEN, LIMIT and `approximate` of `xadd` without a trim, IDLE and consumer of `xpending` without a
  range, `value` of `config_set` with a mapping. RESTORE sends IDLETIME and FREQ together if asked to.
* When the connection for a blocking command cannot be built, `bzpopmin`, `bzpopmax` and `bzmpop` of `Redis` raise the
  builtin `ConnectionError` (zsets.rs:1092), those of `AsyncRedis` the driver's class for the error
  (zsets.rs:1882). `VariantsAgree` compares calls that were answered; exception classes are not modelled.
* A fork between `get_or_init` and the store of the PID, or a child that is given a PID its memory had recorded,
  leaves a process with a dead runtime, and a fork while another thread is inside `get_or_init` or holds
  FORK_RUNTIME one that waits for ever, although PLAN.md:175 says that users "don't have to think about" forks.
* A cursor that cannot be parsed is taken as 0, which ends a scan; a score as 0.0.

**Fairness.** Only what a scheduler guarantees. The loop runs the handles it was given;
tokio polls a task that was woken; a Python thread keeps running; a round trip ends, well or
badly; a deadline passes and a key with an expiry expires. In `PubSubBridge` taking the
outbound mutex is strongly fair, as tokio's mutex is a FIFO queue. Never assumed: that an
operation ends (the bridge's properties start from its end), that anyone calls, cancels,
publishes or closes. In `ValkeyConn` tokio runs every call that can go on, the response timeout fires, and a server
works off a queue whose head is not a blocking command; a sentinel or a node that is down need not come
back. `Runtime` and `Commands` state safety only. For the two transaction loops the user's function is assumed to return or
raise, and the writes from outside are bounded by `MaxBare`: with writers that never stop, a
retry loop rightly may not end either.

## 4. Proofs

All theorems hold for every value of the constants, under the `ASSUME`s of the
modules (kinds of the bounds, disjointness of names).

* `AwaitableProofs`: `TypeCorrect`; `CallbackModeCorrect`, the inductive
  `CallbackModeInv`, which ties `self.cb`, the receiver, the watcher, the slot and the
  callback lists together: without it neither a `_wake` in progress nor a pending
  `call_soon` says anything of the awaitable. From it `CallbacksSeeDone` (the awaiting
  task's wakeup is always first among the callbacks, so it polls before any observer is
  called), `AnswersCorrect` (with `OutcomeInv`: slot and value agree with the operation),
  `OneTaskNeverStranded` (for one task; with two it is false, see
  `awaitable_shared_wakeup`), and `Refinement`: the awaitable implements `AsyncFuture`.
* `TransactionProofs`: `TypeCorrect`; `ReadsProtected` by the inductive
  `ProtectionInv`, per worker: counting on a watch implies that pipeline, client flag and server
  still have it, a read implies counting, and a clean watch that the version read is current. Every
  write dirties every clean watch, so a bystander stays protected. `NoLostUpdate` is the
  action property that follows at EXEC; `AtMostOneBlock` is inductive by itself. `Refinement`: each worker's
`transaction()` implements `AtomicUpdate`, whatever the others do. It takes `SeenBound` (a version that was
read existed), `ProtectionInv` at EXEC, where the block must find the version it rests on, and
`AppliedAtMostOnce` for a block that is repeated; the steps of `FuncCalls` are updates of the block, an
EXEC with WatchError is none, and a lost reply is a block applied and reported as failed.
* `LockProofs`: `TypeCorrect`, `MutualExclusion`, `NoForeignHand`, `HolderKnowsToken` from one inductive
  invariant. `HoldersHaveKey` alone is not inductive: a `release()` under way could carry a
  token another Lock was granted. `Fresh` (all tokens in sight are below the next one),
  `Unique` (a token belongs to one Lock object, in calls and in `self.token`) and
  `OwnerInv` (where a Lock's granted token is at each step of its calls) close the gap. `NoForeignHand`
  (the action property `OthersLeaveTheKey`) takes `Storer` on top: whoever has the token of the key is the Lock
  object that stored it, also when the answer to its SET was lost.
* `RuntimeProofs`: `TypeCorrect`, `LiveRuntimeHolds` and `BuiltOnceHolds` from one
  inductive invariant. `Held` ties the locks to the threads inside them, `Sound` says what a recorded PID that
  matches stands for in a process of `clean`, `Owned` and
  `Unborn` say that a runtime in any memory belongs to a process that was started, and `Counted` that a
  process still points to every runtime it built, which is what bounds their number.
* `PubSubBridgeProofs`: `TypeCorrect`; `RecordsAgree` by `Agreement`, which says what the server has at every
  stage of the supervisor: ahead of the record by the command that was acknowledged and not yet recorded, behind
  it by the names a replay has still to do. `ConfirmationComesFirst` by `ConfirmedInv`: the server and the stream
  may know a name before its confirmation is out, but only while the supervisor is between acknowledging and
  recording it, and then it forwards nothing. `CallersAreQueued` is inductive by itself once the types are.
* `AsyncPipelineProofs`: `TypeCorrect`, `AtMostOnce`, `Releases`, `ReadsAreProtected`, `AppliedToTheRead` from
  one inductive invariant. `Shape` and `Helper` say which stages a call of each method goes through and what the
  program awaits where; `Blocks` that an attempt has one `aexecute()` and that only a block answered with
  Nil is followed by another attempt. `Released` is what holds until an await is given up. `Orderly` holds until
  a call other than `aclose()` is made with a given-up one in flight: the watched connection is in the state or in
  one task, never both; a read is remembered only while the program counts on a watch; and once
  something was read a further `awatch()` finds a watch that is there, for a new one would be clean although the
  read is old. `Refinement`: `atransaction` implements `AtomicUpdate`, also when it gives up waiting. Two
  facts more carry it: `ReadBound` (a version in sight existed) and `Standing` (what the `aexecute()` of an attempt
  copied, or was answered, decides what the update is, together with where the program is); `Blocks` says that there
  is only one. An `aexecute()` nobody waits for is a step of an abandoned update; a write that only dirties the
  watch is one from outside.
* `ValkeyConnProofs`: `TypeCorrect`, `CallersHearTheTruth`, `CalmCallsSucceed`, for the specification `ConnSpec`
  of the connection by itself. `Truth` counts the commands of a call against the queues: one that met no connection
  error has at most the command it waits for in a queue and was executed if and only if its answer says
  so; `SentOnce` bounds executions by attempts, those still in a queue included. `Links`, `Opens` and `OneServer`
  say to which node the connections of a call and of the two slots were opened, and `Calm` what a call needs to
  succeed: the master is up and known (`Healthy`), nothing that stalls is in front of its command
  (`OutOfTheWay`), its walk over the sentinels has not failed and its second attempt goes to the
  master (`OnCourse`). `Refinement`: every call implements `CommandCall`. Of a call that is not about
  to move nothing may change unless it missed an answer; that is `Truth` again, with `Waited`, which says that
  whoever waits has its attempt in a queue: a step of another call, a served command or a connection that dies
  takes it away only together with the answer or the error.
* `ClientProofs`: `ClientHasConnection`, every step of the client is one of `ConnSpec` or leaves the connection
  alone, and with it `ClientTellsTheTruth`, `ClientCalmCallsSucceed` and `ClientImplementsCall`. `FanoutsAreOneCommand` by
  `FanoutInv`: what is on the servers (`Applied`), what was answered (`Replied`) and what was put together
  (`Merged`) are, group by group, those of the one command over the groups executed or joined so far. It rests on
  `AscendingIsBijection` (`group_by_slot` has every position of a group once), from which the positions of an
  `mget` answer and the counts of `del` and `exists` follow, whatever the slots are and however often a key is
  repeated.

Each of these inductive invariants was checked with TLC on the instance of the run before it was proved, and so
was `ImplementsCall` on that of `client`; that run has `TellsTheTruth`, which `ImplementsCall` includes, because
the two together with `CallsReturn` take too long. `TypeOK` of `Transaction`, `Lock`, `Runtime`,
`AsyncPipeline` and `ValkeyConn` is proved and in no run.

Only model-checked: everything about liveness (`AwaiterResumes`, `AcceptedCallbackFires`,
`TransactionEnds`, `AtransactionEnds`, `CallsReturn`, `ListenEnds`, `Resubscribed`,
`AcquireReturns`, `TimedLockComesFree`), because fairness and ENABLED are beyond the prover; the CRC
itself, a recursion over data on top of `Bitwise` (the proofs hold for any function in its place); and
`Commands`, whose three properties compare finite tables that the run goes through entirely, in everything
but the number of variadic arguments: a proof would be the same enumeration, method by method, of words built with
`@@` and `ToString`, which the provers cannot expand.

## 5. Not modelled

* Two Python threads in one sync `Pipeline`; pipelines with `transaction=False`; the Cluster and
  Sentinel branches of `reserve_connection`.
* The loop of `PubSubWorkerThread`, confirmation counts and the health-check PING.
* The wake that cannot be posted because the interpreter or the loop is going away.
* The 256th poll of one awaitable: the counter wraps in the model too, but no run
  goes that far.
* `select` (sends nothing, keeps nothing), the iterators over the scans, the CLUSTER administration commands
  and the single-slot methods of the cluster facade: they forward one command.
* The values themselves: encodings, numbers, the text of replies; the mapping of replies to exception
  classes; URLs, TLS and client-side cache options. They have neither state nor order.
* The Sentinel facades: `discover_master` and `discover_slaves` are a walk over the sentinels like `rediscover`'s
  and keep nothing.

## 6. Plan

Done, in this order: `Awaitable` and `AsyncFuture`, `Transaction`, `PubSubBridge`, `Lock`,
`AsyncPipeline`, `Runtime`, `ValkeyConn`, `ClusterFanout` and `Client`, `Requests`, the families and `Commands`;
proofs of every safety property of these but for `Commands`; `AtomicUpdate` and `CommandCall`, with the refinements
proved. To come: `aget_message` on top of `Awaitable`, for a cancelled read that swallows a message; two threads in
one `Pipeline`.

# Verification of the python-rs-driver

TLA+ models of the driver's Python layer. The concurrent core is how the outcome of
a request travels from the tokio runtime to Python threads, asyncio tasks and
callbacks (`DriverFuture`, `ResponseFuture`, `Batcher`). Around it are the views of
the cluster (`ClusterViews`) and what an application does with a session: build it,
configure and send requests, bind values, read rows and pages (`Client`). TLC checks
all of it on small instances. TLAPS proves every safety property the passing runs check
for every instance, but for the one about values and rows.

## The system

| Part | Source (under `src/src/`) | Module |
|---|---|---|
| `DriverFuture`: the future of the asyncio API and its state machine | `future/mod.rs` | `DriverFuture`, `Promise` |
| `StateLock`: mutex and condvar with counted waiters | `future/state_lock.rs` | both futures |
| guarded tasks, runtime, shutdown | `future/task.rs`, `lib.rs` | both futures |
| `AsyncioWaker`, coroutine | `future/asyncio/` | `DriverFuture` |
| `Batcher`: wakes many asyncio futures at once | `future/asyncio/batcher.rs` | `Batcher`; `DriverFuture` has the part one future sees |
| `ResponseFuture` and its drainer: the future of the legacy API | `future/response_future/` | `ResponseFuture` |
| cluster state and its Python views, `Cache`, Python load balancing | `cluster/state.rs`, `cache.rs`, `core/session.rs`, `policies/load_balancing.rs` | `ClusterViews`, `Cache` |
| pager, results, async iterators | `core/results.rs`, `results/` | `Paging`, `PagedResults` |
| `ResultSet` | `legacy/result_set.rs` | `ResultSet`, `PagedResults` |
| statements, profiles, the settings of a request | `statement.rs`, `execution_profile.rs`, `core/session.rs`, `legacy/session.rs` | `Settings` |
| session builder, TLS context, contact points | `session_builder.rs`, `tls.rs`, `utils.rs` | `Builder` |
| values, bind values, row factories, rows | `serialize/`, `deserialize/`, `cql_types.rs` | `Values`, `Rows` |
| retry policies and sessions | `policies/retry` | `Policies` |
| errors, enums, query traces, metadata views | the rest | not modelled, see below |

`PROJECT.json` lists every part with its files, the lines each definition
models, and the hazards with the properties that cover them.

The two futures share one pattern. A request runs as a task on tokio. It settles
the future's state under the `StateLock`, then, with the lock released, runs the
callbacks on the blocking pool, wakes the asyncio side and notifies blocked
threads. Anyone may meanwhile register a callback, wait, cancel, or page on, and
the `atexit` hook may shut the runtime down under them.

## DriverFuture

A critical section of the state mutex, or of the waker slot's mutex, is one step.
What a function does after unlocking is a list of steps in `todo`, one actor's
steps in order and interleaved with everyone else's. `mine`, `captured` and `val`
are the callbacks, the waiters count and the result the actor carries out of the
critical section.

| Code | Actions |
|---|---|
| `start`, `register_callback` | `Start`, `RegisterCallback` |
| `block_until_ready`, `wait_while` | `BlockUntilReady`, `WaitWhile`, `SpuriousWakeup`, `Expire`, `Recheck`, `ReadResult` |
| `done`, `cancelled` and other readers | `Inspect` |
| `close`, `cancel`, `throw` | `CloseFuture`, `ThrowInto` |
| `__next__`, `yield_asyncio_future` | `PollCoroutine`, `YieldAsyncioFuture`, `YieldPanics` |
| `fire_and_notify` and the tails of close and throw | `Convert`, `Fire`, `Wake`, `Notify` |
| the guarded task and the completion | `TaskPoll`, `TaskComplete`, `TaskDrop` |
| the blocking-pool job | `PoolStart`, `PoolDrop` |
| the `atexit` hook | `Shutdown`, `Stopped` |
| an entry point that finds the mutex poisoned | `Refused` |
| the wrapped future, a stale wake, the loop's batcher | `InnerReady`, `StaleWake`, `Drain` |

`Promise` says what all this amounts to: one outcome, fixed once; whoever is told
anything is told that outcome; a callback is called at most once, afterwards, and
only if its kind fits. The refinement mapping reads `outcome` from `result` once it
is converted (a raw result is not visible to Python), `told` from what entry points
and callbacks reported, and `calls` from the count of invocations.

Abstractions:
- The GIL is not modelled. Critical sections interleave freely, which allows more
  orders than the GIL does; a lock-order inversion with the GIL is out of scope.
- Callbacks are Python code and are taken to return. They form sets: the order in
  which one batch of callbacks runs is not checked.
- A wake takes the parked asyncio future and hands it to the batch in one step; the code
  unlocks the slot in between, while nobody else has the future. `Batcher` has the two
  steps apart.
- Cancelling an asyncio task and throwing into the coroutine are one action.
- The shutdown's timeout does not expire: no worker runs after `Stopped`.
- `Futs` are identities of asyncio futures, reused when nobody refers to them, so
  a small set is enough; `KeepDone` forgets the ones that are garbage.

## ResponseFuture

The legacy future is re-armed for every page. The model has the request state with
its page, the callbacks registered and those not yet run for the current page
(`unfired`), the queue of pages paged past (`queue`), the drain token (`permit`),
the condvar's waiters, and the threads and drainers that build rows and run
callbacks outside the lock.

| Code | Actions |
|---|---|
| `register`, `clear_callbacks` | `Register`, `ClearCallbacks` |
| `wait_rows`, `wait_while` | `WaitRows`, `WaitWhile`, `SpuriousWakeup`, `Recheck` |
| `start_fetching_next_page`, `spawn_request` | `StartFetchingNextPage`, `SpawnRequest` |
| `build_rows`, `store_rows` | `BuildRows`, `RowsBuilt` |
| callback invocation | `Invoke`, `FireDropped` |
| completion, teardown | `TaskPoll`, `Complete`, `TaskDrop`, `Notify` |
| the drainer | `WakeDrainer` (part of `Complete`), `DrainStart`, `DrainNext`, `DrainDrop` |
| the `atexit` hook | `Shutdown`, `Stopped` |

Abstractions: a row factory may raise and is taken to return, as are callbacks;
every callback is registered once. `PageOrder` is about the drainer: a late
registration may run after the future was paged on, a window `register`
documents (`mod.rs:218-224`), and errbacks of a torn-down request run on the
thread that dropped it. A request need not ever complete.

## Batcher

Workers complete requests and hand asyncio futures to the batcher of the futures'
event loop; the first one of a batch gets the loop to run `drain`, the others ride
along. A critical section of a batcher's mutex, or of `BATCHERS`, is one step.

| Code | Actions |
|---|---|
| asyncio: a loop is created, closed, deallocated | `Open`, `Close`, `Die` (the weak reference's `evict_fn` runs in it) |
| `batcher_for` | `ParkHit`; `ParkMiss`, `NewBatcher`, `Register` |
| the waker: reset, wake | `Forget`, `TakeParked` |
| `push`, `notify`, `discard` | `Push`, `NotifyPipe`, `NotifyCallSoon`, `Discard` |
| the loop: pipe readable, `drain` | `Readable`, `DrainStart`, `DrainTake` |

CPython reuses addresses: `AddrOf` puts several loops at one address, one after the
other. `call_soon_threadsafe` may fail although the loop is open; `push` then discards the
batch, as for a loop that is gone, and `NotifyCallSoon` has both outcomes. An asyncio
future refers to its loop, so a loop dies only when none of its futures is parked, taken
or queued; `SharedBatcher` rests on that and on the eviction coming before the reuse.

## ClusterViews

The driver publishes a new `ClusterState` at every refresh. A session and a Python
policy each keep one `PyClusterState` and replace it when its address differs from
the current state's; the allocator reuses an address once nobody holds the state
(`LiveVersions`). A view answers `get_keyspace` and the mapping of keyspaces from a
`Cache` (module `Cache`: lookup, insert, freeze), whose values are computed without
the lock, so two threads compute one value and a freeze may come first.

| Code | Actions |
|---|---|
| `SessionCore::cluster_state` | `Compare`, `Replace`, `ReplaceFails` |
| `get_keyspace`, `keyspaces`, the cache | `GetKeyspace`, `InsertKeyspace`, `GetKeyspaces`, `FreezeKeyspaces`, `BuildFails` |
| replica queries | `Replicas` |
| a Python policy's `fallback` and its iterator | `ShowCluster`, `PickTargets`, `PlanFails`, `NextTarget`, `Advance` |
| the driver, garbage collection | `Refresh`, `StartRequest`, `EndRequest`, `Release` |

## Client and its parts

`Client` is a choice between six modules that share no state; a behaviour is one of
one of them, so their states add up instead of multiplying.

- `Paging` and `ResultSet` put pages together with `Concatenation`. `PagedResults` is both
  of them and the property they share.
- `Paging`: a pager is the number of the page it fetches next. Tasks share a rows
  iterator and a pages iterator behind their mutexes (`RowsNext`, `RowsLock`,
  `RowsFetched`, `PagesNext`, `PagesLock`, `PagesFetched`, `ResolvePage`) or read by
  themselves on a copy of the pager (`ReadRows`, `FetchAfter`, `CloneStep`,
  `CloneFetched`). Every await may fail, and `Cancel` drops the future there.
- `ResultSet`: the legacy iterator, its list mode and paging by hand, over pages
  that a `ResponseFuture` stores. A fetched page whose rows cannot be built is
  skipped by the next call (`skipped`). One reader at a time.
- `Settings`: one thread sends requests while another sets options of the
  statement, session defaults, the fetch size and the shutdown flag. The request
  copies the statement (`CallLegacy`), reads the session's settings under their lock
  (`Configure`) and is sent (`Send`); `CallSession` is the new API. `wish` records
  what the application set, and the property derives from it what must be sent.
- `Builder`: setters by kind (plain, optional, Python object), contact points, port
  range, TLS context; `connect_legacy` reads the builder in two lock sections.
- `Values` and `Rows`: serialization and deserialization as operators by type, bind
  values by position and by name, row factories, the naming of namedtuple fields and
  their bounded cache. Widths are narrowed (8-bit integers stand for all, with range
  checks, the date's epoch and the duration's overflow kept); text is a sequence of
  letters only where names are cleaned. `Stored` is what is assumed of the database:
  it gives back what was stored, with nulls for the elements a shorter tuple lacks. What
  a vector with a `None` element becomes is left open (`Unspecified`): the Rust driver
  writes it without an error. A set, or the keys of a map, may come back as lists or
  dicts, which Python cannot hash; reading such a row raises (`Unreadable`).
- `Policies`: retry policies and sessions, the driver's own and Python ones with answers
  of the wrong class and exceptions. A session of a built-in class is shared with the
  object the application handed out, by every request that was given it; requests ask
  and reset it (`Decide`, `ResetSession`), and so does the application (`AskObject`,
  `ResetObject`). What a built-in session decides, one retry until it is reset, is
  external, and stands for the errors it retries once.

## Runs

| Run | Instance | Shows |
|---|---|---|
| `df_safety` | 2 threads, 1 awaiter, 1 callback, 3 asyncio futures, shutdown and bad loop allowed | types, one outcome, callbacks once and accounted for, waiters and awaiters covered, panics isolated, losses only at shutdown, terminal states final, `Promise` implemented |
| `df_live` | 1 thread, 1 awaiter, 1 callback, shutdown allowed | waiters return, awaiters resume, callbacks run, cancel stops the task |
| `rf_safety` | 2 threads, 2 drainers, a callback and an errback, 2 requests | callbacks once per page, one drainer that covers what is due, nothing forgotten, one list of rows per page, callbacks released, waiters covered |
| `rf_paging` | 2 threads, 1 drainer, a callback, 3 requests | one request in flight although two threads page; several pages paged past are run in order and none is forgotten |
| `rf_live` | 1 thread, 1 drainer, a callback and an errback, 2 requests, shutdown allowed | `result()` returns and callbacks are delivered; once per page also with a shutdown |
| `batcher` | 2 loops at 1 address, 2 batchers, 2 workers, 3 futures, a pipe of 2 bytes | a future goes to its own loop's one batcher; queued for an open loop it has a drain or a discard to come, exactly one per batch, and is released |
| `cluster_views` | 2 threads, 1 request, 3 states at 2 addresses, 3 views, 2 keyspaces, 2 nodes | `cluster_state` is never older than the call; one object per keyspace; a plan is what the policy yielded for the state it was shown |
| `client` | 3 and 4 pages (one empty), 2 tasks; 3 setter calls on statement and session, 3 on the builder; about 360 bindings of values; 2 requests, a retry session object, 3 calls on a session | pages and rows once and in order; request settings in their order of precedence; sessions as built; values and rows faithful; retry sessions obeyed |
| `df_teardown`, `df_two_awaiters`, `legacy_row_factory`, `nulls_in_fields` | small, the last two that of `client` | a sentence of the docs the code does not keep, see below |

Bounds. Two threads are the least that race for everything a thread can do; one
awaiter uses at most one asyncio future in the slot and one in the batch or
done, so three identities always leave one free (four for two awaiters). Two requests
give a page that is paged past and a current one, so the drainer's queue and the
current page compete. They are too few for two threads to page at once (the second
would need a third request) and for a queue of two pages, so `rf_paging` has three.
Threads, and for `ResponseFuture` drainers too, are symmetric; symmetry is used in safety
runs only.

For the batcher, two workers race to push, and a third future can ride along; a
second loop at the first one's address is the least that shows a reuse; the pipe holds
two bytes, so that it is the code and not the bound that keeps it at one. In `cluster_views` three states do not fit two addresses, so the third can
only be published at the address of one that was dropped. In `client` three setter
calls are enough for a statement, a session default and a profile to compete; every
pair and triple of column names from a set that collides after cleaning is bound;
`CacheLimit = 1` makes the cache of namedtuple classes overflow at the second shape.

Two runs use a `VIEW`. That of `client` tells apart only the part in use; a request in
flight holds copies of what it was sent with, so the statement it came from is left
out until it is done (every state of the statement is also reached with no request in
flight, where it is checked).
`cluster_views` leaves out what garbage objects contain.

Fairness. Weakly fair are the steps that need nobody's decision: a thread inside a
call, an awaiter its loop can resume, tokio's workers and blocking threads, the
loop's drain, and callbacks. In `Batcher` these are a worker that has taken a
future, and the loop running a drain it was asked for. Not fair: calls users make, requests completing,
timeouts, spurious and stale wakes, and the shutdown. Liveness properties exempt
`lost` completions; `LostOnlyAtShutdown` bounds when there are any.

## Where docs and code differ

- `df_teardown`: `task.rs:16` promises that whoever waits is always told. The guard
  that does it is built on the task's first poll; a task dropped before that at
  shutdown tells nobody.
- `df_two_awaiters`: `future.pyi:110` has `cancel()` reach everyone who awaits. Two awaiters
  of a started future both read it pending in `__next__` and drop the state guard
  (`mod.rs:337`) before they come to the one waker slot. The wake of the cancel finds
  nothing parked and leaves the slot `Woken`; the first awaiter consumes that, and the
  second finds the slot `Idle`, parks, and is woken by nobody. The run starts after the
  move to tokio, so nothing depends on the first poll.
- `legacy_row_factory`: `legacy.pyi:111` has a legacy session's `row_factory` apply to
  requests that set none; it goes before the statement's own. `RequestSettings` leaves
  out requests where both have one, and says the order of all others.
- `nulls_in_fields`: `data-types.md:39` maps `null` to `None` both ways. A `None` inside a
  UDT or a tuple is refused when it is bound (`value.rs:705`), while a tuple shorter than
  its type is read back with `None`s. `RowsFaithful` leaves such values out.

Differences the models keep as the code has them, without a run of their own:

- `batcher.rs:26-27` has the map never keep a loop alive, and `:301` a dead loop never
  accumulate a queue. A loop closed while a drain is pending leaves its batcher armed:
  later pushes queue without a notification, and the queued futures keep the loop.
- `session_builder.pyi:24` calls `get_config()` a read-only snapshot of the
  configuration. `user()` does not show in it, and a refused port range does:
  `SessionAsBuilt` says nothing of either.
- `tls.pyi:28` has `CERT_REQUIRED` as the default of a TLS context. It is kept as `PEER`, and
  read back by a test for `FAIL_IF_NO_PEER_CERT` (`tls.rs:61`), so the context and its
  snapshot show `CERT_NONE` while the driver verifies the peer. `SessionAsBuilt` says
  nothing of the verify mode.
- `mod.rs:22` has every entry point report `panicked_err()` in `Panicked`. The panic that
  leads there poisons the mutex, so entry points panic on taking it.
- `mod.rs:645` has `cancelled()` mean that `cancel()` was called. A task dropped at
  shutdown settles with the same class of error, and makes it true as well.
- `legacy/session.rs:86`: "the first one used locks out the other" holds of session
  defaults; a profile passed with one request does not commit the session.
- A profile with `timeout=None` keeps the driver's default timeout.
- A Python retry policy that returns one built-in session object for several requests
  makes them share its single retry, and a reset by one gives it back to all.
- `connect_legacy` may give a session without a profile the profile mode, if the
  profile is set between its two reads; the converse cannot happen (`SessionAsBuilt`).

## Proofs

The theorems are about every instance: the constants are arbitrary sets, functions and
numbers that satisfy the named assumptions of the module (actors are distinct, markers
are nobody's name, the threads or workers that are counted are finite, page contents are
sequences). A proof has one lemma per action, or per group of actions that change the
same variables.

### DriverFuture

| Theorem | Module | Says |
|---|---|---|
| `Invariance` | `DriverFutureInvariance` | `Spec => []IInv` |
| `TypeCorrect` | | `Spec => []TypeOK`, in particular the waiters count never underflows |
| `OutcomeIsOne`, `CallbacksOnce` | | `Spec => []OneOutcome`, `Spec => []CallbackOnce` |
| `FinalOutcome` | | `Spec => TerminalIsFinal` |
| `PromiseKept` | | `Spec => ImplementsPromise` |
| `CallbacksAccounted` | `DriverFutureCoverage` | `Spec => []CallbackAccounted` |
| `WaitersCovered` | | `Spec => []WaiterCovered` |
| `AwaitersCovered` | | `Spec => []AwaiterCovered`, for at most one awaiter |
| `PanicLeavesNobody` | | `Spec => []PanicIsolated` |
| `NothingElseLost` | | `Spec => []LostOnlyAtShutdown` |

None of these properties is inductive. `IInv` adds what the argument needs:
`waiters` is exactly the number of threads counted in `wait_while` (`TypeInv`); an
awaiter that parks holds the mutex of a future not yet started (`ParkInv`); there
is a result exactly in `Ready`, callbacks are queued only in `PendingTokio`, and a
task that is not gone has nothing left to tell (`SettledInv`); what an actor still
has to do is one of a few known lists of steps, and one that took callbacks is going
to fire them with the settled result (`PlanInv`); a callback is unregistered, queued,
taken by one actor or done, and in one of these places only (`OwnInv`). The count is
expressed by a numbering of the threads from 1 to `waiters` (`Numbered`), which a thread
that enters or leaves extends or closes up.

Coverage rests on three more invariants. `StillInv`: no thread is inside a call on a
future that was not started, so a panic there finds nobody. `AccountedInv`: a callback
that was passed over does not fit a result that is converted; the property itself says so
of raw results too, whose kind only the conversion decides, and is not inductive.
`SlotInv`: the asyncio future an awaiter is parked on is in the slot, in the batch or
done. `AwaitersCovered` has the hypothesis `OneAwaiter`, because the statement is false
without it: `df_two_awaiters` shows one of two awaiters stay parked.

### ResponseFuture

| Theorem | Module | Says |
|---|---|---|
| `ActorInvariance` | `ResponseFutureTypes` | `Spec => []ActorInv` |
| `ResponseTypes` | | `Spec => []TypeOK` |
| `ResponseOneInFlight`, `ResponseOneDrainer` | | `Spec => []OneInFlight`, `Spec => []OneDrainer` |
| `ResponseDrainerCovers`, `ResponseWaiterCovered` | | `Spec => []DrainerCovers`, `Spec => []WaiterCovered` |
| `ResponseCallbacksReleased` | | `Spec => []CallbacksReleased` |
| `PageInvariance` | `ResponseFutureInvariance` | `Spec => []IInv` |
| `ResponseOncePerPage`, `ResponseNothingForgotten` | | `Spec => []OncePerPage`, `Spec => []NothingForgotten` |
| `ResponseSameRows` | | `Spec => []SameRows` |
| `ResponsePageOrder` | | `Spec => PageOrder` |

`ActorInv` is about who holds what: an actor has a page exactly while it builds rows or
runs callbacks (`JobInv`), a page paged past is of an earlier request (`QueueInv`), the
token is parked only when there is nothing to drain and away only with a drainer or a
runtime that shut down (`TokenInv`). `IInv` adds the pages: what rows the current page
has and who has them (`RowsInv`); the queue is in the order of the requests and behind
the page a drainer works on (`OrderInv`); nothing ran for a request not yet settled
(`FutureInv`), nor for a callback not registered (`AddedInv`). The core is `PlaceInv`:
for every callback and request, a callback that may still run is in one place only - the
state, the queue, with an actor, or set aside by a late registration - and has not run.

### Batcher

| Theorem | Says |
|---|---|
| `BatcherTypes` | `Spec => []TypeOK` |
| `BatcherShared` | `Spec => []SharedBatcher` |
| `BatcherQueueCovered` | `Spec => []QueueCovered` |
| `BatcherOneDrain` | `Spec => []OneDrainPerBatch`, for finitely many workers |

`QueueCovered` says nothing of an armed batcher whose queue is empty, yet a push into
one schedules nothing. The invariant (in `BatcherProofs`) therefore has `ArmedInv`: an
armed registered batcher of an open loop has a drain to come, queue or not. It rests on
`RegistryInv` (a registered batcher is of the loop that lives at the address), `FutsInv`
(a batcher being built is nobody else's), `WorkersInv` (what a worker holds between its
steps) and `QueueInv` (what is queued was pushed to this batcher after it was armed).
`OneDrainPerBatch` balances a sum (`Tally`) whose first term counts workers; `PlacesInv`
says where the other terms can be nonzero, so that a batcher registered at a reused
address starts with none.

### ClusterViews

| Theorem | Says |
|---|---|
| `ClusterSnapshotFresh` | `Spec => SnapshotFresh` |
| `ClusterViewsFaithful` | `Spec => []ViewsFaithful` |
| `ClusterPlanFollowsPolicy` | `Spec => []PlanFollowsPolicy` |

The core is `AddrInv` (in `ClusterViewsProofs`): two states that are alive are at
different addresses, and none is newer than the published one. A kept view holds its
state alive, so an equal address means an equal state; this is what the comparison by
address relies on. `CacheInv` adds that what a thread computed outside the lock is of the
view it asked, and that every answer given so far is what the cache holds; `PlanInv` that
what was tried and what is left make up what the policy yielded.

### The parts of Client

`Client` reaches the recursive operators of `Values`, which the prover cannot work with,
so the theorems are about the specifications of its parts. A behaviour of `Client` is one
of one part, the others at their initial states.

| Theorem | Module | Says |
|---|---|---|
| `PagingOnce` | `PagingProofs` | `PagingSpec => [](RowsOnceInOrder /\ PagesOnce)` |
| `ResultSetReads` | | `SetSpec => []ResultSetRows` |
| `PagedOnce` | | `ReadersSpec => []PagedReads`, the two together |
| `SettingsHold` | `ClientProofs` | `SettingsSpec => []RequestSettings` |
| `BuilderSession` | | `BuilderSpec => []SessionAsBuilt` |
| `PolicyDecisions` | | `PolicySpec => []PoliciesObeyed` |

- `Paging`, any pages and tasks: for the rows iterator, what was given, what is left of
  its page and what its pager is still to fetch make up the result, and whoever fetches
  holds its lock (`RowsState`, `RowsFetching`); for a read of one's own, what it collected
  does (`CloneState`, `Answers`); for the pages iterator, every page is to come, on its way
  to one task, given or lost (`PagesState`, `PagesFetching`). The rows of the first pages
  are a `Concat`; that one more page adds its rows at the end is an induction over the
  number of pages, done by a least counterexample (`Least`).
- `ResultSet`, any pages: what was yielded is the rows of the pages from `start`, without
  the skipped ones, up to the position in the current page (`Yields`); of the pages
  received after the one shown, the rows could not be built, but for one the reader has
  yet to take (`Skips`); a drain has listed what it yielded (`Reader`).
- `Settings`, any profiles whose timeout argument is not the driver's own marker
  (`ProfilesAssumption`): `CallInv` says of a request, by the stage it is in, how the
  options it will be sent with follow from what was set on the statement when it was
  copied. The statement's options and `wish` correspond field by field (`Hold`).
- `Builder`: the driver's configuration and the mirror that `get_config()` shows differ
  only where the property says so, and a TLS context and its snapshot were built together
  (`BuilderHolds`). `connect_legacy` reads the configuration first and whether a profile
  was set afterwards; that flag never goes down, so it is up when the configuration that
  was read has a profile (`ConnectHolds`).
- `Policies`, any requests, session objects and calls: of the calls about one request all
  but the last decided to retry it, and the last gave it the state it is in
  (`RequestObeys`); a request has the session its policy handed it; a built-in session
  has used its retry up exactly when it retried and was not reset since (`SessionObeys`),
  which one more call, of whoever, keeps.

### Only model-checked

`RowsFaithful`, because serialization and deserialization are recursive over types; all
liveness (`df_live`, `rf_live`, the drains of `batcher`), which together with fairness and
`ENABLED` is out of the prover's reach; and the counterexamples of the four runs above.

## Not modelled

- Errors, enums: one-to-one tables from Rust to Python, no state.
- Query traces and the metadata views: getters that build a Python value once.
  `QueryTrace.events` takes its events before it builds the tuple, so a build that
  fails loses them (`query_trace.rs:104-114`).
- The default load balancing policy, speculative execution and timestamp generators:
  settings or single calls handed to the Rust driver.
- Host filter, address translator and authenticator: one call of Python each, without
  state. A filter that raises accepts the node (`host_filter.rs:36`); an error of the
  other two is handed to the Rust driver, which fails that attempt to connect.
- The statements and values of a batch: `add` and `add_all` append to both lists in one
  lock section. The cached columns of a prepared statement: guarded by a pointer
  comparison, the pattern `AddrInv` is about.
- Floats, decimals, uuids, addresses: library conversions without a case of their own.
- Two threads iterating one `ResultSet`: each may see `has_more_pages` before the other
  pages, so a page can be lost or repeated; no doc allows the sharing.
- A request that passed the shutdown check of a legacy session goes on; the flag is
  in `Settings`, and nothing is promised about it.
- The GIL, and a runtime shutdown that times out.

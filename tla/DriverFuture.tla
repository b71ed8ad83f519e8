---------------------------- MODULE DriverFuture ----------------------------
(***************************************************************************)
(* One DriverFuture (src/src/future/mod.rs) and everyone who touches it:   *)
(*   - Threads: Python threads calling start, on_*, result, cancel, close; *)
(*   - Awaiters: asyncio tasks driving it through __next__ and throw;      *)
(*   - "task": the guarded task spawned on the tokio runtime (task.rs);    *)
(*   - "pool": the blocking-pool job that runs callbacks (mod.rs:242);     *)
(*   - the runtime, which the atexit hook shuts down (lib.rs).             *)
(* A critical section of the state mutex or of the waker slot's mutex is   *)
(* one step; what a function does after it unlocks is a list of further    *)
(* steps (todo) that interleave with everybody else's.                     *)
(***************************************************************************)
EXTENDS Naturals, Sequences, Functions

CONSTANTS Threads,    \* Python threads that use the future
          Awaiters,   \* asyncio tasks that await it
          Callbacks,  \* callbacks, each registered at most once
          KindOf,     \* what each callback was registered with
          Futs,       \* identities of asyncio.Future objects, reused when free
          CanStop,    \* whether the atexit hook may run
          BadLoop     \* whether an awaiter's loop may refuse weak references

Callers == Threads \cup Awaiters
Actors == Callers \cup {"task", "pool"}
Raw == {"raw_ok", "raw_err"}
Closings == {"closed", "cancelled"}
Outcomes == {"value", "conv_err", "err", "closed", "cancelled", "thrown", "dropped"}
Steps == {"convert", "fire", "wake", "notify"}

ASSUME ActorsAssumption == /\ Threads \cap Awaiters = {}
                           /\ Callers \cap {"task", "pool", "free"} = {}
ASSUME KindsAssumption == KindOf \in [Callbacks -> {"success", "error", "done"}]
ASSUME FutsAssumption == Futs \cap {"Idle", "Woken", "none"} = {}
ASSUME SwitchesAssumption == CanStop \in BOOLEAN /\ BadLoop \in BOOLEAN

VARIABLES
  state,      \* the FutureState variant
  result,     \* ReadyResult: "none", a raw outcome (Unconverted) or an outcome
  callbacks,  \* callbacks queued in PendingTokio
  lock,       \* who holds the state mutex across steps, or "free"
  poisoned,   \* the state mutex was poisoned by a panic
  waiters,    \* Inner.waiters: threads counted in wait_while
  inner,      \* whether the wrapped Rust future can complete
  task,       \* "none", "spawned", "polled" (guard armed) or "gone"
  aborted,    \* abort_handle.abort() was called
  runtime,    \* "up", "stopping" or "stopped"
  polled,     \* the coroutine was polled, so its AsyncioWaker exists
  slot,       \* WakerSlot: "Idle", "Woken" or the parked asyncio future
  slotPoisoned,  \* the slot's mutex was poisoned by a panic
  batch,      \* asyncio futures handed to the loop's batcher
  doneFuts,   \* asyncio futures that are done
  pc,         \* where each actor is
  fut,        \* the asyncio future an awaiter is parked on
  timed,      \* whether a result() call has a timeout
  todo,       \* steps an actor still makes after it released the mutex
  mine,       \* callbacks an actor took to fire
  captured,   \* waiters an actor read under the mutex
  val,        \* the result an actor fires its callbacks with
  registered, \* history: callbacks registered so far
  fired,      \* history: how often each callback was invoked
  seen,       \* history: what entry points and callbacks reported
  lost        \* history: completions nobody will act on, by cause

coreVars == <<state, result, callbacks>>
lockVars == <<lock, poisoned>>
taskVars == <<task, aborted, runtime>>
wakerVars == <<polled, slot, slotPoisoned, batch, doneFuts>>
jobVars == <<todo, mine, captured, val>>
histVars == <<registered, fired, seen, lost>>
vars == <<coreVars, lockVars, waiters, inner, taskVars, wakerVars,
          pc, fut, timed, jobVars, histVars>>

-----------------------------------------------------------------------------
(* Helpers. *)

\* FutureState::is_terminal.
Terminal == state \in {"Ready", "Panicked"}

\* What a result reads as once converted; conversion may itself fail.
Conversions(r) == CASE r = "raw_ok" -> {"value", "conv_err"}
                    [] r = "raw_err" -> {"err"}
                    [] OTHER -> {r}

\* CallbackKind::invoke: whether a callback is called for outcome v.
Matches(kind, v) == \/ kind = "done"
                    \/ kind = "success" /\ v = "value"
                    \/ kind = "error" /\ v # "value"

Idle(t) == pc[t] = "idle" /\ todo[t] = <<>>

\* Taking the state mutex: lock_py_attached / lock_detached on a sound mutex.
MutexFree == lock = "free" /\ ~poisoned

\* Mutant: the converted result is not stored.
GetOrConvertAgain(v) == v \in Conversions(result) /\ result' = result

\* ReadyResult::get_or_convert returning v: the first conversion is kept.
GetOrConvert(v) == v \in Conversions(result) /\ result' = v

\* An entry point returns the Ready result to its caller.
ReportResult == \E v \in Outcomes : GetOrConvert(v) /\ seen' = seen \cup {v}

\* The asyncio futures a new park can create: objects nobody refers to.
FreeFuts == {f \in Futs : f # slot /\ f \notin batch /\ \A t \in Awaiters : fut[t] # f}
FreshFut == CHOOSE f \in FreeFuts : TRUE

\* An asyncio future nobody refers to any more is freed.
KeepDone(fs) ==
  doneFuts' = {f \in fs : f = slot' \/ f \in batch' \/ \E t \in Awaiters : fut'[t] = f}

\* Mutant: a wake that finds nobody parked is forgotten.
TakeParkedForgets ==
  IF slot \in Futs THEN slot' = "Idle" /\ batch' = batch \cup {slot}
                   ELSE UNCHANGED <<slot, batch>>

\* take_parked and deliver: record a wake, hand a parked future to the batcher. deliver
\* locks the batcher once the slot is unlocked. Nobody else has the future in between,
\* and a batch may be drained as late as it likes: one step shows the same as two.
TakeParked ==
  IF slot \in Futs THEN slot' = "Idle" /\ batch' = batch \cup {slot}
                   ELSE slot' = "Woken" /\ batch' = batch

\* spawn_guarded, under the state mutex. A runtime that stopped drops the task
\* at once, before its first poll could build the DropGuard.
SpawnGuarded ==
  /\ task' = IF runtime = "stopped" THEN "gone" ELSE "spawned"
  /\ lost' = IF runtime = "stopped" THEN lost \cup {"task"} ELSE lost

\* ensure_started: PendingAsyncio -> PendingTokio, no-op otherwise.
EnsureStarted ==
  IF state = "PendingAsyncio" THEN state' = "PendingTokio" /\ SpawnGuarded
                              ELSE UNCHANGED <<state, task, lost>>

\* Mutant: a completion does not look whether the future settled meanwhile.
StillPendingUnchecked == TRUE

\* resolve_on_tokio's match: the task's outcome counts only while PendingTokio.
StillPending == state = "PendingTokio"

\* Mutant: the callbacks are copied and the state stays as it was.
SettleLate(r) == result' = r /\ UNCHANGED <<state, callbacks>>

\* The move to Ready; the caller takes the queued callbacks.
Settle(r) ==
  /\ state' = "Ready" /\ result' = r
  /\ callbacks' = {}

\* Mutant: the task is left running.
AbortForgotten == aborted' = aborted

\* abort_handle.abort(): the runtime is to drop the task.
Abort == aborted' = TRUE

\* What an actor does after it unlocked: steps, callbacks, waiters and result.
Continue(a, steps, cbs, n, v) ==
  /\ todo' = [todo EXCEPT ![a] = steps]
  /\ mine' = [mine EXCEPT ![a] = cbs]
  /\ captured' = [captured EXCEPT ![a] = n]
  /\ val' = [val EXCEPT ![a] = v]

\* One of those steps is done; the locals go with the last one.
Advance(a) ==
  /\ todo' = [todo EXCEPT ![a] = Tail(@)]
  /\ captured' = [captured EXCEPT ![a] = IF Tail(todo[a]) = <<>> THEN 0 ELSE @]
  /\ val' = [val EXCEPT ![a] = IF Tail(todo[a]) = <<>> THEN "none" ELSE @]

\* Mutants: the callbacks are not fired, the blocked threads not notified.
CloseStepsNoFire == <<"notify", "wake">>
FireAndNotifyNoNotify(cbs) == IF cbs = {} THEN <<"wake">> ELSE <<"convert", "fire", "wake">>

\* The order of the steps after a close or cancel, a throw, a completion.
CloseSteps == <<"notify", "wake", "fire">>
ThrowSteps == <<"wake", "notify", "fire">>
FireAndNotify(cbs) == IF cbs = {} THEN <<"wake", "notify">>
                                  ELSE <<"convert", "fire", "wake", "notify">>

Init ==
  /\ \/ state = "PendingAsyncio" /\ result = "none" /\ task = "none"     \* spawn
     \/ state = "PendingTokio" /\ result = "none" /\ task = "spawned"    \* spawn_on_tokio
     \/ state = "Ready" /\ result \in {"value", "err"} /\ task = "none"  \* ready
  /\ callbacks = {} /\ lock = "free" /\ poisoned = FALSE /\ waiters = 0
  /\ inner = "pending" /\ aborted = FALSE /\ runtime = "up"
  /\ polled = FALSE /\ slot = "Idle" /\ slotPoisoned = FALSE
  /\ batch = {} /\ doneFuts = {}
  /\ pc = [a \in Actors |-> "idle"]
  /\ fut = [t \in Awaiters |-> "none"]
  /\ timed = [t \in Threads |-> FALSE]
  /\ todo = [a \in Actors |-> <<>>]
  /\ mine = [a \in Actors |-> {}]
  /\ captured = [a \in Actors |-> 0]
  /\ val = [a \in Actors |-> "none"]
  /\ registered = {} /\ fired = [c \in Callbacks |-> 0]
  /\ seen = {} /\ lost = {}

-----------------------------------------------------------------------------
(* Python threads. *)

\* start(): force the move to tokio.
Start(t) ==
  /\ Idle(t) /\ MutexFree
  /\ state = "PendingAsyncio"
  /\ EnsureStarted
  /\ UNCHANGED <<result, callbacks, lockVars, waiters, inner, aborted, runtime,
                 wakerVars, pc, fut, timed, jobVars, registered, fired, seen>>

\* register_callback: invoked at once on a Ready future, queued otherwise.
RegisterCallback(t, c) ==
  /\ Idle(t) /\ MutexFree
  /\ c \notin registered
  /\ registered' = registered \cup {c}
  /\ \/ /\ state = "Ready"
        /\ \E v \in Outcomes : /\ GetOrConvert(v)
                               /\ Continue(t, <<"fire">>, {c}, 0, v)
        /\ UNCHANGED <<state, callbacks, task, lost>>
     \/ /\ ~Terminal
        /\ EnsureStarted
        /\ callbacks' = callbacks \cup {c}
        /\ UNCHANGED <<result, jobVars>>
  /\ UNCHANGED <<lockVars, waiters, inner, aborted, runtime, wakerVars,
                 pc, fut, timed, fired, seen>>

\* result(timeout): block_until_ready, up to the release of the state mutex.
BlockUntilReady(t, timeout) ==
  /\ Idle(t) /\ MutexFree
  /\ \/ /\ state = "Ready"
        /\ ReportResult
        /\ UNCHANGED <<state, task, lost, pc, timed>>
     \/ /\ ~Terminal
        /\ EnsureStarted
        /\ pc' = [pc EXCEPT ![t] = "enter"]
        /\ timed' = [timed EXCEPT ![t] = timeout]
        /\ UNCHANGED <<result, seen>>
  /\ UNCHANGED <<callbacks, lockVars, waiters, inner, aborted, runtime,
                 wakerVars, fut, jobVars, registered, fired>>

\* Mutant: the state is not looked at again after relocking.
WaitWhileBlind(t) ==
  /\ pc[t] = "enter" /\ MutexFree
  /\ waiters' = waiters + 1
  /\ pc' = [pc EXCEPT ![t] = "waiting"]
  /\ UNCHANGED <<coreVars, lockVars, inner, taskVars, wakerVars,
                 fut, timed, jobVars, histVars>>

\* wait_while: relock detached, and join the condvar if still pending.
WaitWhile(t) ==
  /\ pc[t] = "enter" /\ MutexFree
  /\ IF state = "PendingTokio"
     THEN /\ waiters' = waiters + 1
          /\ pc' = [pc EXCEPT ![t] = "waiting"]
     ELSE /\ waiters' = waiters
          /\ pc' = [pc EXCEPT ![t] = "read"]
  /\ UNCHANGED <<coreVars, lockVars, inner, taskVars, wakerVars,
                 fut, timed, jobVars, histVars>>

\* The condvar may return without a notification.
SpuriousWakeup(t) ==
  /\ pc[t] = "waiting"
  /\ pc' = [pc EXCEPT ![t] = "woken"]
  /\ UNCHANGED <<coreVars, lockVars, waiters, inner, taskVars, wakerVars,
                 fut, timed, jobVars, histVars>>

\* The timeout of wait_timeout_while elapses.
Expire(t) ==
  /\ pc[t] = "waiting" /\ timed[t]
  /\ pc' = [pc EXCEPT ![t] = "expired"]
  /\ UNCHANGED <<coreVars, lockVars, waiters, inner, taskVars, wakerVars,
                 fut, timed, jobVars, histVars>>

\* Mutant: a waiter uncounts itself on every wakeup, also when it waits on.
RecheckUncounts(t) ==
  /\ pc[t] \in {"woken", "expired"} /\ MutexFree
  /\ waiters' = waiters - 1
  /\ pc' = [pc EXCEPT ![t] = IF state # "PendingTokio" THEN "read"
                             ELSE IF pc[t] = "woken" THEN "waiting" ELSE "idle"]
  /\ UNCHANGED <<coreVars, lockVars, inner, taskVars, wakerVars,
                 fut, timed, jobVars, histVars>>

\* Back from the condvar with the mutex: wait again, time out, or go on.
Recheck(t) ==
  /\ pc[t] \in {"woken", "expired"} /\ MutexFree
  /\ IF state = "PendingTokio" /\ pc[t] = "woken"
     THEN /\ pc' = [pc EXCEPT ![t] = "waiting"]
          /\ waiters' = waiters
     ELSE /\ pc' = [pc EXCEPT ![t] = IF state = "PendingTokio" THEN "idle" ELSE "read"]
          /\ waiters' = waiters - 1
  /\ UNCHANGED <<coreVars, lockVars, inner, taskVars, wakerVars,
                 fut, timed, jobVars, histVars>>

\* The end of wait_for_ready: lock once more and read the result.
ReadResult(t) ==
  /\ pc[t] = "read" /\ MutexFree
  /\ ReportResult
  /\ pc' = [pc EXCEPT ![t] = "idle"]
  /\ UNCHANGED <<state, callbacks, lockVars, waiters, inner, taskVars, wakerVars,
                 fut, timed, jobVars, registered, fired, lost>>

\* cancelled() and __repr__ convert the result of a Ready future.
Inspect(t) ==
  /\ Idle(t) /\ MutexFree
  /\ state = "Ready" /\ result \in Raw
  /\ \E v \in Outcomes : GetOrConvert(v)
  /\ UNCHANGED <<state, callbacks, lockVars, waiters, inner, taskVars, wakerVars,
                 pc, fut, timed, jobVars, histVars>>

\* close_future, for close() and cancel(); a terminal future is left alone.
CloseFuture(t, exc) ==
  /\ Idle(t) /\ MutexFree
  /\ ~Terminal
  /\ Settle(exc)
  /\ IF state = "PendingTokio"
     THEN /\ Abort
          /\ Continue(t, CloseSteps, callbacks, waiters, exc)
     ELSE /\ aborted' = aborted
          /\ Continue(t, IF polled THEN <<"wake">> ELSE <<>>, {}, 0, "none")
  /\ UNCHANGED <<lockVars, waiters, inner, task, runtime, wakerVars,
                 pc, fut, timed, histVars>>

-----------------------------------------------------------------------------
(* Awaiters. *)

\* The event loop runs the awaiter: it is not parked, or what it parked on is done.
Resumable(t) == \/ pc[t] = "yielded"
                \/ pc[t] = "parked" /\ fut[t] \in doneFuts

\* Mutant: the guard is kept while the slot is taken.
YieldLocked(t) == lock' = t /\ pc' = [pc EXCEPT ![t] = "park"]

\* poll_coroutine on PendingTokio: the guard is dropped before the slot is taken.
YieldUnlocked(t) == lock' = lock /\ pc' = [pc EXCEPT ![t] = "yield"]

\* poll_coroutine (__next__, send), up to where it takes the waker slot.
PollCoroutine(t) ==
  /\ Idle(t) \/ Resumable(t)
  /\ MutexFree
  /\ fut' = [fut EXCEPT ![t] = "none"]
  /\ \/ /\ state = "Ready"
        /\ ReportResult
        /\ pc' = [pc EXCEPT ![t] = "idle"]
        /\ UNCHANGED <<state, lock, polled, slot>>
     \/ /\ state = "PendingTokio"
        /\ YieldUnlocked(t)
        /\ UNCHANGED <<state, result, polled, slot, seen>>
     \/ /\ state = "PendingAsyncio"
        /\ polled' = TRUE /\ slot' = "Idle"   \* poll_waker resets the slot
        /\ IF inner = "ready"
           THEN /\ state' = "Ready"
                /\ result' \in UNION {Conversions(r) : r \in Raw}
                /\ seen' = seen \cup {result'}
                /\ pc' = [pc EXCEPT ![t] = "idle"]
                /\ lock' = lock
           ELSE /\ lock' = t                  \* the guard is held while parking
                /\ pc' = [pc EXCEPT ![t] = "park"]
                /\ UNCHANGED <<state, result, seen>>
  /\ UNCHANGED <<callbacks, poisoned, waiters, inner, taskVars, slotPoisoned,
                 batch, timed, jobVars, registered, fired, lost>>
  /\ KeepDone(doneFuts)

\* yield_asyncio_future, with the state mutex held ("park") or not ("yield").
YieldAsyncioFuture(t) ==
  /\ pc[t] \in {"yield", "park"} /\ ~slotPoisoned
  /\ lock' = IF pc[t] = "park" THEN "free" ELSE lock
  /\ \/ /\ slot = "Woken"                     \* None: the loop polls again soon
        /\ slot' = "Idle"
        /\ pc' = [pc EXCEPT ![t] = "yielded"]
        /\ UNCHANGED <<state, poisoned, slotPoisoned, fut, doneFuts>>
     \/ /\ slot \in Futs \ doneFuts           \* still parked: the same future
        /\ pc' = [pc EXCEPT ![t] = "parked"]
        /\ fut' = [fut EXCEPT ![t] = slot]
        /\ UNCHANGED <<state, poisoned, slot, slotPoisoned, doneFuts>>
     \/ /\ slot \in {"Idle"} \cup doneFuts    \* park on a new future
        /\ FreeFuts # {}                      \* the bound Futs
        /\ slot' = FreshFut
        /\ pc' = [pc EXCEPT ![t] = "parked"]
        /\ fut' = [fut EXCEPT ![t] = FreshFut]
        /\ doneFuts' = doneFuts \ {slot, FreshFut}
        /\ UNCHANGED <<state, poisoned, slotPoisoned>>
     \/ /\ slot \in {"Idle"} \cup doneFuts    \* no running loop: an error
        /\ pc' = [pc EXCEPT ![t] = "idle"]
        /\ UNCHANGED <<state, poisoned, slot, slotPoisoned, fut, doneFuts>>
     \/ /\ slot \in {"Idle"} \cup doneFuts    \* batcher_for panics, guards held
        /\ BadLoop
        /\ slotPoisoned' = TRUE
        /\ poisoned' = (poisoned \/ pc[t] = "park")
        /\ state' = IF pc[t] = "park" THEN "Panicked" ELSE state
        /\ pc' = [pc EXCEPT ![t] = "idle"]
        /\ UNCHANGED <<slot, fut, doneFuts>>
  /\ UNCHANGED <<result, callbacks, waiters, inner, taskVars, polled, batch,
                 timed, jobVars, histVars>>

\* The same call on a poisoned slot panics into the awaiter.
YieldPanics(t) ==
  /\ pc[t] = "yield" /\ slotPoisoned
  /\ pc' = [pc EXCEPT ![t] = "idle"]
  /\ UNCHANGED <<coreVars, lockVars, waiters, inner, taskVars, wakerVars,
                 fut, timed, jobVars, histVars>>

\* throw_into; a cancelled asyncio task first cancels the future it is parked on.
ThrowInto(t) ==
  /\ pc[t] \in {"idle", "yielded", "parked"} /\ todo[t] = <<>>
  /\ MutexFree
  /\ pc' = [pc EXCEPT ![t] = "idle"]
  /\ fut' = [fut EXCEPT ![t] = "none"]
  /\ IF Terminal
     THEN UNCHANGED <<state, result, callbacks, aborted, jobVars>>
     ELSE /\ Settle("thrown")
          /\ IF state = "PendingTokio"
             THEN /\ Abort
                  /\ Continue(t, ThrowSteps, callbacks, waiters, "thrown")
             ELSE UNCHANGED <<aborted, jobVars>>
  /\ UNCHANGED <<lockVars, waiters, inner, task, runtime, polled, slot,
                 slotPoisoned, batch, timed, histVars>>
  /\ KeepDone(doneFuts \cup ({fut[t]} \ {"none"}))

\* Any entry point on a poisoned state mutex: the unwrap of its lock panics.
Refused(t) ==
  /\ Idle(t) \/ (t \in Awaiters /\ Resumable(t))
  /\ poisoned
  /\ seen' = seen \cup {"PanicException"}
  /\ pc' = [pc EXCEPT ![t] = "idle"]
  /\ fut' = [x \in Awaiters |-> IF x = t THEN "none" ELSE fut[x]]
  /\ UNCHANGED <<coreVars, lockVars, waiters, inner, taskVars, wakerVars,
                 timed, jobVars, registered, fired, lost>>

-----------------------------------------------------------------------------
(* The steps an actor makes after it released the state mutex. *)

\* The pool's steps run once a blocking thread picked the job up.
Acting(a, step) == /\ todo[a] # <<>> /\ Head(todo[a]) = step
                   /\ a = "pool" => pc[a] = "running"

\* fire_and_notify reads the result before it fires.
Convert(a) ==
  /\ Acting(a, "convert") /\ MutexFree
  /\ \E v \in Outcomes : GetOrConvert(v) /\ Continue(a, Tail(todo[a]), mine[a], captured[a], v)
  /\ UNCHANGED <<state, callbacks, lockVars, waiters, inner, taskVars, wakerVars,
                 pc, fut, timed, histVars>>

\* fire_all: one callback, invoked if its kind matches the outcome.
Fire(a) ==
  /\ Acting(a, "fire")
  /\ \/ \E c \in mine[a] :
          /\ mine' = [mine EXCEPT ![a] = @ \ {c}]
          /\ IF Matches(KindOf[c], val[a])
             THEN /\ fired' = [fired EXCEPT ![c] = @ + 1]
                  /\ seen' = seen \cup {val[a]}
             ELSE UNCHANGED <<fired, seen>>
          /\ UNCHANGED <<todo, captured, val>>
     \/ /\ mine[a] = {}
        /\ Advance(a)
        /\ UNCHANGED <<mine, fired, seen>>
  /\ UNCHANGED <<coreVars, lockVars, waiters, inner, taskVars, wakerVars,
                 pc, fut, timed, registered, lost>>

\* StateLock::notify: notify_all, skipped when no waiter was counted.
Notify(a) ==
  /\ Acting(a, "notify")
  /\ pc' = [x \in Actors |-> IF captured[a] > 0 /\ pc[x] = "waiting"
                             THEN "woken" ELSE pc[x]]
  /\ Advance(a)
  /\ UNCHANGED <<coreVars, lockVars, waiters, inner, taskVars, wakerVars,
                 fut, timed, mine, histVars>>

\* AsyncioWaker::wake_*: on a poisoned slot it panics and the rest is not done.
Wake(a) ==
  /\ Acting(a, "wake")
  /\ IF slotPoisoned
     THEN /\ Continue(a, <<>>, {}, 0, "none")
          /\ lost' = lost \cup {"panic"}
          /\ UNCHANGED <<slot, batch>>
     ELSE /\ TakeParked
          /\ Advance(a)
          /\ UNCHANGED <<mine, lost>>
  /\ UNCHANGED <<coreVars, lockVars, waiters, inner, taskVars, polled, slotPoisoned,
                 doneFuts, pc, fut, timed, registered, fired, seen>>

-----------------------------------------------------------------------------
(* The wrapped future, the event loop, the runtime. *)

\* The wrapped future can complete. It wakes the waker of its last poll: the
\* AsyncioWaker until the tokio task has polled it.
InnerReady ==
  /\ inner = "pending"
  /\ state = "PendingAsyncio" \/ task \in {"spawned", "polled"}
  /\ inner' = "ready"
  /\ IF polled /\ task \in {"none", "spawned"} /\ ~slotPoisoned
     THEN TakeParked
     ELSE UNCHANGED <<slot, batch>>
  /\ UNCHANGED <<coreVars, lockVars, waiters, taskVars, polled, slotPoisoned,
                 doneFuts, pc, fut, timed, jobVars, histVars>>

\* A clone of the AsyncioWaker kept from an earlier poll wakes it again.
StaleWake ==
  /\ polled /\ ~slotPoisoned
  /\ TakeParked
  /\ UNCHANGED <<coreVars, lockVars, waiters, inner, taskVars, polled, slotPoisoned,
                 doneFuts, pc, fut, timed, jobVars, histVars>>

\* The loop drains its batcher: set_result on every queued future.
Drain ==
  /\ batch # {}
  /\ batch' = {}
  /\ UNCHANGED <<coreVars, lockVars, waiters, inner, taskVars, polled, slot,
                 slotPoisoned, pc, fut, timed, jobVars, histVars>>
  /\ KeepDone(doneFuts \cup batch)

\* The first poll of the spawned task builds its DropGuard.
TaskPoll ==
  /\ task = "spawned"
  /\ task' = "polled"
  /\ UNCHANGED <<coreVars, lockVars, waiters, inner, aborted, runtime, wakerVars,
                 pc, fut, timed, jobVars, histVars>>

\* The task completed: on_done(Ok(_)).
TaskComplete ==
  /\ task = "polled" /\ inner = "ready" /\ MutexFree
  /\ task' = "gone"
  /\ \/ /\ ~StillPending                      \* closed or thrown into before
        /\ UNCHANGED <<coreVars, jobVars, pc, lost>>
     \/ /\ StillPending /\ callbacks = {}
        /\ \E r \in Raw : Settle(r)
        /\ Continue("task", FireAndNotify({}), {}, waiters, "none")
        /\ UNCHANGED <<pc, lost>>
     \/ /\ StillPending /\ callbacks # {}
        /\ \E r \in Raw : Settle(r)
        /\ \/ /\ runtime # "stopped"          \* spawn_blocking
              /\ Continue("pool", FireAndNotify(callbacks), callbacks, waiters, "none")
              /\ pc' = [pc EXCEPT !["pool"] = "queued"]
              /\ lost' = lost
           \/ /\ runtime # "up"               \* refused: the closure is dropped
              /\ lost' = lost \cup {"job"}
              /\ UNCHANGED <<pc, jobVars>>
  /\ UNCHANGED <<lockVars, waiters, inner, aborted, runtime, wakerVars,
                 fut, timed, registered, fired, seen>>

\* The runtime drops the task, aborted or shutting down. Only a polled task has
\* a DropGuard, which calls on_done(Err(TaskDropped)).
TaskDrop ==
  /\ task \in {"spawned", "polled"} /\ (aborted \/ runtime # "up") /\ MutexFree
  /\ task' = "gone"
  /\ IF task = "polled" /\ StillPending
     THEN /\ Settle("dropped")
          /\ Continue("task", FireAndNotify(callbacks), callbacks, waiters, "none")
          /\ lost' = lost
     ELSE /\ lost' = IF StillPending THEN lost \cup {"task"} ELSE lost
          /\ UNCHANGED <<coreVars, jobVars>>
  /\ UNCHANGED <<lockVars, waiters, inner, aborted, runtime, wakerVars,
                 pc, fut, timed, registered, fired, seen>>

\* A blocking thread picks the job up.
PoolStart ==
  /\ pc["pool"] = "queued"
  /\ pc' = [pc EXCEPT !["pool"] = "running"]
  /\ UNCHANGED <<coreVars, lockVars, waiters, inner, taskVars, wakerVars,
                 fut, timed, jobVars, histVars>>

\* A runtime that shuts down drops the jobs no thread picked up.
PoolDrop ==
  /\ pc["pool"] = "queued" /\ runtime # "up"
  /\ pc' = [pc EXCEPT !["pool"] = "idle"]
  /\ Continue("pool", <<>>, {}, 0, "none")
  /\ lost' = lost \cup {"job"}
  /\ UNCHANGED <<coreVars, lockVars, waiters, inner, taskVars, wakerVars,
                 fut, timed, registered, fired, seen>>

\* DriverRuntime::shutdown, from the atexit hook; a second call does nothing.
Shutdown ==
  /\ CanStop /\ runtime = "up"
  /\ runtime' = "stopping"
  /\ UNCHANGED <<coreVars, lockVars, waiters, inner, task, aborted, wakerVars,
                 pc, fut, timed, jobVars, histVars>>

\* The scheduler dropped its tasks and the pool its queue.
Stopped ==
  /\ runtime = "stopping"
  /\ task \notin {"spawned", "polled"} /\ pc["pool"] # "queued"
  /\ runtime' = "stopped"
  /\ UNCHANGED <<coreVars, lockVars, waiters, inner, task, aborted, wakerVars,
                 pc, fut, timed, jobVars, histVars>>

-----------------------------------------------------------------------------
ThreadNext(t) ==
  \/ Start(t)
  \/ \E c \in Callbacks : RegisterCallback(t, c)
  \/ \E timeout \in BOOLEAN : BlockUntilReady(t, timeout)
  \/ WaitWhile(t) \/ SpuriousWakeup(t) \/ Expire(t) \/ Recheck(t) \/ ReadResult(t)
  \/ Inspect(t)
  \/ \E exc \in Closings : CloseFuture(t, exc)

AwaiterNext(t) ==
  PollCoroutine(t) \/ YieldAsyncioFuture(t) \/ YieldPanics(t) \/ ThrowInto(t)

ActorNext(a) == Convert(a) \/ Fire(a) \/ Notify(a) \/ Wake(a)

EnvNext == \/ InnerReady \/ StaleWake \/ Drain
           \/ TaskPoll \/ TaskComplete \/ TaskDrop
           \/ PoolStart \/ PoolDrop \/ Shutdown \/ Stopped

Next == \/ \E t \in Threads : ThreadNext(t)
        \/ \E t \in Awaiters : AwaiterNext(t)
        \/ \E t \in Callers : Refused(t)
        \/ \E a \in Actors : ActorNext(a)
        \/ EnvNext

Spec == Init /\ [][Next]_vars

\* What runs without anybody's decision: a thread inside a call, an awaiter its
\* loop can resume, the runtime's workers and blocking threads, the loop itself.
\* Callbacks are taken to return. Requests need not complete.
Fairness ==
  /\ \A t \in Threads : WF_vars(WaitWhile(t)) /\ WF_vars(Recheck(t)) /\ WF_vars(ReadResult(t))
  /\ \A t \in Awaiters : /\ WF_vars(Resumable(t) /\ PollCoroutine(t))
                         /\ WF_vars(YieldAsyncioFuture(t))
  /\ \A a \in Actors : WF_vars(ActorNext(a))
  /\ WF_vars(TaskPoll) /\ WF_vars(TaskComplete) /\ WF_vars(TaskDrop)
  /\ WF_vars(PoolStart) /\ WF_vars(Drain)

FairSpec == Spec /\ Fairness

-----------------------------------------------------------------------------
(* Properties. *)

PcValues == {"idle", "enter", "waiting", "woken", "expired", "read",
             "yield", "park", "yielded", "parked", "queued", "running"}

CoreTypes == /\ state \in {"PendingAsyncio", "PendingTokio", "Ready", "Panicked"}
             /\ result \in {"none"} \cup Raw \cup Outcomes
             /\ callbacks \subseteq Callbacks
LockTypes == /\ lock \in {"free"} \cup Awaiters
             /\ poisoned \in BOOLEAN
             /\ waiters \in Nat
TaskTypes == /\ inner \in {"pending", "ready"}
             /\ task \in {"none", "spawned", "polled", "gone"}
             /\ aborted \in BOOLEAN
             /\ runtime \in {"up", "stopping", "stopped"}
WakerTypes == /\ polled \in BOOLEAN
              /\ slot \in {"Idle", "Woken"} \cup Futs
              /\ slotPoisoned \in BOOLEAN
              /\ batch \subseteq Futs
              /\ doneFuts \subseteq Futs
ActorTypes == /\ pc \in [Actors -> PcValues]
              /\ fut \in [Awaiters -> Futs \cup {"none"}]
              /\ timed \in [Threads -> BOOLEAN]
JobTypes == /\ todo \in [Actors -> Seq(Steps)]
            /\ mine \in [Actors -> SUBSET Callbacks]
            /\ captured \in [Actors -> Nat]
            /\ val \in [Actors -> {"none"} \cup Outcomes]
HistTypes == /\ registered \subseteq Callbacks
             /\ fired \in [Callbacks -> Nat]
             /\ seen \subseteq Outcomes \cup {"PanicException"}
             /\ lost \subseteq {"task", "job", "panic"}

\* Every variable has its type: the count of waiters never goes below zero, and
\* the mutex is held across steps only by an awaiter that parks.
TypeOK == /\ CoreTypes /\ LockTypes /\ TaskTypes /\ WakerTypes
          /\ ActorTypes /\ JobTypes /\ HistTypes

\* Every result() caller, awaiter and callback is told the same outcome, the one
\* the future settled with: a late completion cannot overwrite a cancel, and the
\* Python conversion of the output is done once.
OneOutcome == \A v \in seen \ {"PanicException"} : state = "Ready" /\ result = v

\* No callback is invoked twice, whoever resolves the future first.
CallbackOnce == \A c \in Callbacks : fired[c] <= 1

\* No callback is forgotten: it is queued, about to be fired by the one actor
\* that took it, was fired, or is not of the kind the outcome calls for. Only a
\* lost completion (see LostOnlyAtShutdown) makes an exception.
CallbackAccounted ==
  lost = {} => \A c \in registered :
    \/ c \in callbacks /\ state = "PendingTokio"
    \/ \E a \in Actors : c \in mine[a] /\ "fire" \in Range(todo[a])
    \/ fired[c] = 1
    \/ state = "Ready" /\ ~Matches(KindOf[c], result)

Pends(a, step) == step \in Range(todo[a])

\* A thread blocked in result() on a settled future is going to be notified: the
\* waiters count read under the mutex cannot have missed it.
WaiterCovered ==
  \A t \in Threads : Terminal /\ pc[t] = "waiting" /\ lost = {} =>
    \E a \in Actors : Pends(a, "notify") /\ captured[a] > 0

\* An awaiter parked on, or about to park for, a settled future is going to be
\* woken: its asyncio future is done or queued, a recorded wake makes it poll
\* again, or the wake is still to come.
AwaiterCovered ==
  \A t \in Awaiters : Terminal /\ lost = {} =>
    /\ pc[t] = "parked" => \/ fut[t] \in doneFuts \cup batch
                           \/ fut[t] = slot /\ \E a \in Actors : Pends(a, "wake")
    /\ pc[t] = "yield" => \/ slot = "Woken" \/ slotPoisoned
                          \/ \E a \in Actors : Pends(a, "wake")

\* A panic while parking leaves nobody behind: no thread waits on the future, no
\* callback is queued on it, and its mutex is not left locked.
PanicIsolated ==
  state = "Panicked" => /\ waiters = 0 /\ callbacks = {} /\ lock = "free"
                        /\ task = "none"
                        /\ \A t \in Threads : pc[t] = "idle"

\* A completion is lost only when the runtime shuts down, or when the waker's
\* mutex was poisoned by a loop that cannot be weakly referenced.
LostOnlyAtShutdown == /\ lost \cap {"task", "job"} # {} => runtime # "up"
                      /\ "panic" \in lost => slotPoisoned

\* A terminal future keeps its state, and its result but for the one conversion.
TerminalIsFinal ==
  [][Terminal => /\ state' = state
                 /\ result' = result \/ (result \in Raw /\ result' \in Conversions(result))]_vars

\* A thread blocked in result() returns once the future settled.
WaitersReturn ==
  \A t \in Threads : (Terminal /\ pc[t] \in {"enter", "waiting", "woken"})
                        ~> (pc[t] = "idle" \/ lost # {})

\* An awaiter is resumed and told the outcome once the future settled.
AwaitersResume ==
  \A t \in Awaiters : (Terminal /\ pc[t] \in {"yield", "parked", "yielded"})
                        ~> (pc[t] = "idle" \/ lost # {})

\* A registered callback runs once the future settled, if it fits the outcome.
CallbacksRun ==
  \A c \in Callbacks : (Terminal /\ c \in registered)
                         ~> (fired[c] = 1 \/ lost # {} \/ ~Matches(KindOf[c], result))

\* cancel(), close() and throw() stop the work: the task does not outlive them.
CancelStopsWork ==
  (state = "Ready" /\ result \in Closings \cup {"thrown"}) ~> task \in {"none", "gone"}

-----------------------------------------------------------------------------
(* The future implements the promise of module Promise. *)

Fits(c, v) == Matches(KindOf[c], v)
outcomeBar == IF result \in Outcomes THEN result ELSE "none"
toldBar == seen \ {"PanicException"}

Promised == INSTANCE Promise WITH outcome <- outcomeBar, told <- toldBar, calls <- fired

\* Whatever threads, awaiters, the task and the shutdown do, what callers and
\* callbacks can tell of the future is a behaviour of Promise: raw results are
\* not visible, the conversion fixes the outcome.
ImplementsPromise == Promised!Spec

-----------------------------------------------------------------------------
(* What the repository says and the code does not do. *)

\* future/task.rs:16: "If the task is torn down first, `on_done` gets
\* `Err(TaskDropped)`, so whoever waits on the outcome is always told."
TeardownIsTold ==
  \A t \in Threads : (task = "gone" /\ pc[t] = "waiting") ~> pc[t] # "waiting"

\* future.pyi:110: "Anyone still waiting on the result (via ``result()``,
\* ``await``, or a registered callback) receives a
\* ``scylla.errors.FutureCancelledError`` instead of a normal result."
CancelReachesAwaiters ==
  \A t \in Awaiters : (result = "cancelled" /\ pc[t] = "parked") ~> pc[t] # "parked"
=============================================================================

------------------------------ MODULE Batcher ------------------------------
(***************************************************************************)
(* The wakeup batcher of src/src/future/asyncio/batcher.rs: how a worker   *)
(* that completes a request gets set_result called on the event loop's     *)
(* thread. Several loops live and die one after the other, and CPython     *)
(* gives a new loop the address of a dead one. A critical section of a     *)
(* batcher's mutex or of BATCHERS is one step. The order of a queue does   *)
(* not matter, so it is a set.                                             *)
(* An asyncio future holds its loop: a loop is deallocated only once no    *)
(* parked, taken or queued future refers to it.                            *)
(***************************************************************************)
EXTENDS Naturals, FiniteSets

CONSTANTS Loops,     \* event loops the process ever creates
          Addrs,     \* addresses of event loops
          AddrOf,    \* the address each loop is allocated at
          Batchers,  \* identities of Batcher objects, reused when free
          Futs,      \* identities of asyncio futures, reused when free
          Workers,   \* threads that deliver wakes
          PipeSize   \* bytes a notifier's socket buffer holds

ASSUME AddrAssumption == AddrOf \in [Loops -> Addrs]
ASSUME NoneAssumption == "none" \notin Batchers \cup Futs \cup Loops
ASSUME PipeAssumption == PipeSize \in Nat \ {0}
ASSUME WorkersAssumption == IsFiniteSet(Workers)

VARIABLES
  life,      \* each loop: "unborn", "open", "closed" or "dead"
  registry,  \* BATCHERS: the batcher registered under each address
  owner,     \* the loop a batcher's notifier refers to, weakly
  kind,      \* NotifierKind: "Pipe" or "CallSoon"
  queue,     \* State.queue
  armed,     \* State.armed
  pipe,      \* bytes in the notifier's socket pair
  readers,   \* batchers whose read end is registered with add_reader
  soon,      \* drain callbacks each loop has scheduled
  draining,  \* the batcher whose drain runs on each loop, after acknowledge
  where,     \* each future: "free", "build", "insert", "parked", "taken", "queued"
  home,      \* the loop of a future that is not free
  via,       \* the batcher of a future that is parked or further
  job,       \* what each worker does: "idle", "push", "notify", "discard"
  holds      \* the future a worker took from its slot, while it pushes it;
             \* its batcher from then on

loopVars == <<life, soon, draining>>
stateVars == <<queue, armed>>
notifierVars == <<owner, kind, pipe, readers>>
futVars == <<where, home, via>>
jobVars == <<job, holds>>
vars == <<loopVars, registry, stateVars, notifierVars, futVars, jobVars>>

Alive(l) == life[l] \in {"open", "closed"}

\* A batcher nobody holds an Arc to.
Free(b) == /\ \A a \in Addrs : registry[a] # b
           /\ \A f \in Futs : via[f] # b
           /\ \A w \in Workers : holds[w] # b
           /\ \A l \in Loops : draining[l] # b

\* Futures nobody refers to any more.
Drop(fs) ==
  /\ where' = [f \in Futs |-> IF f \in fs THEN "free" ELSE where[f]]
  /\ home' = [f \in Futs |-> IF f \in fs THEN "none" ELSE home[f]]
  /\ via' = [f \in Futs |-> IF f \in fs THEN "none" ELSE via[f]]

Init ==
  /\ life = [l \in Loops |-> "unborn"]
  /\ registry = [a \in Addrs |-> "none"]
  /\ owner = [b \in Batchers |-> "none"]
  /\ kind = [b \in Batchers |-> "CallSoon"]
  /\ queue = [b \in Batchers |-> {}]
  /\ armed = [b \in Batchers |-> FALSE]
  /\ pipe = [b \in Batchers |-> 0]
  /\ readers = {}
  /\ soon = [l \in Loops |-> 0]
  /\ draining = [l \in Loops |-> "none"]
  /\ where = [f \in Futs |-> "free"]
  /\ home = [f \in Futs |-> "none"]
  /\ via = [f \in Futs |-> "none"]
  /\ job = [w \in Workers |-> "idle"]
  /\ holds = [w \in Workers |-> "none"]

-----------------------------------------------------------------------------
(* Event loops: allocated, closed, deallocated. *)

\* A loop is created at an address no live loop occupies.
Open(l) ==
  /\ life[l] = "unborn"
  /\ \A m \in Loops : Alive(m) => AddrOf[m] # AddrOf[l]
  /\ life' = [life EXCEPT ![l] = "open"]
  /\ UNCHANGED <<soon, draining, registry, stateVars, notifierVars, futVars, jobVars>>

\* loop.close(), which a running loop refuses. What it had scheduled is forgotten
\* and its selector with the readers is gone.
Close(l) ==
  /\ life[l] = "open" /\ draining[l] = "none"
  /\ \A f \in Futs : home[f] = l => where[f] \notin {"build", "insert"}
  /\ life' = [life EXCEPT ![l] = "closed"]
  /\ soon' = [soon EXCEPT ![l] = 0]
  /\ readers' = {b \in readers : owner[b] # l}
  /\ UNCHANGED <<draining, registry, stateVars, owner, kind, pipe, futVars, jobVars>>

\* Mutant: the entry of a dead loop stays.
DieKeepingEntry(l) ==
  /\ Alive(l) /\ draining[l] = "none"
  /\ \A f \in Futs : home[f] # l
  /\ life' = [life EXCEPT ![l] = "dead"]
  /\ soon' = [soon EXCEPT ![l] = 0]
  /\ readers' = {b \in readers : owner[b] # l}
  /\ UNCHANGED <<draining, registry, stateVars, owner, kind, pipe, futVars, jobVars>>

\* The loop is deallocated. The weakref callback of its entry, evict_fn, runs
\* before the memory can be reused.
Die(l) ==
  /\ Alive(l) /\ draining[l] = "none"
  /\ \A f \in Futs : home[f] # l
  /\ life' = [life EXCEPT ![l] = "dead"]
  /\ soon' = [soon EXCEPT ![l] = 0]
  /\ readers' = {b \in readers : owner[b] # l}
  /\ registry' = [registry EXCEPT ![AddrOf[l]] = "none"]
  /\ UNCHANGED <<draining, stateVars, owner, kind, pipe, futVars, jobVars>>

-----------------------------------------------------------------------------
(* Parking a coroutine: create_future, then batcher_for. *)

\* batcher_for finds the loop registered.
ParkHit(f, l) ==
  /\ where[f] = "free" /\ life[l] = "open"
  /\ registry[AddrOf[l]] # "none"
  /\ where' = [where EXCEPT ![f] = "parked"]
  /\ home' = [home EXCEPT ![f] = l]
  /\ via' = [via EXCEPT ![f] = registry[AddrOf[l]]]
  /\ UNCHANGED <<loopVars, registry, stateVars, notifierVars, jobVars>>

\* batcher_for does not, and builds one with the lock released.
ParkMiss(f, l) ==
  /\ where[f] = "free" /\ life[l] = "open"
  /\ registry[AddrOf[l]] = "none"
  /\ where' = [where EXCEPT ![f] = "build"]
  /\ home' = [home EXCEPT ![f] = l]
  /\ UNCHANGED <<loopVars, registry, stateVars, notifierVars, via, jobVars>>

\* Batcher::new: a pipe where add_reader succeeds, CallSoon otherwise.
NewBatcher(f, b, k) ==
  /\ where[f] = "build" /\ Free(b)
  /\ where' = [where EXCEPT ![f] = "insert"]
  /\ via' = [via EXCEPT ![f] = b]
  /\ owner' = [owner EXCEPT ![b] = home[f]]
  /\ kind' = [kind EXCEPT ![b] = k]
  /\ queue' = [queue EXCEPT ![b] = {}]
  /\ armed' = [armed EXCEPT ![b] = FALSE]
  /\ pipe' = [pipe EXCEPT ![b] = 0]
  /\ readers' = IF k = "Pipe" THEN readers \cup {b} ELSE readers \ {b}
  /\ UNCHANGED <<loopVars, registry, home, jobVars>>

\* Mutant: the entry is overwritten although another thread registered the loop.
RegisterOverwrites(f) ==
  /\ where[f] = "insert"
  /\ where' = [where EXCEPT ![f] = "parked"]
  /\ registry' = [registry EXCEPT ![AddrOf[home[f]]] = via[f]]
  /\ UNCHANGED <<loopVars, stateVars, notifierVars, home, via, jobVars>>

\* The second half of batcher_for: the first to register wins; the other drops
\* its own batcher, whose notifier undoes add_reader.
Register(f) ==
  LET entry == registry[AddrOf[home[f]]] IN
  /\ where[f] = "insert"
  /\ where' = [where EXCEPT ![f] = "parked"]
  /\ IF entry = "none"
       THEN /\ registry' = [registry EXCEPT ![AddrOf[home[f]]] = via[f]]
            /\ UNCHANGED <<via, readers>>
       ELSE /\ via' = [via EXCEPT ![f] = entry]
            /\ readers' = readers \ {via[f]}
            /\ UNCHANGED registry
  /\ UNCHANGED <<loopVars, stateVars, owner, kind, pipe, home, jobVars>>

\* The slot forgets a parked future: the coroutine is polled again or dropped.
Forget(f) ==
  /\ where[f] = "parked"
  /\ Drop({f})
  /\ UNCHANGED <<loopVars, registry, stateVars, notifierVars, jobVars>>

-----------------------------------------------------------------------------
(* Workers: take a parked future from its slot, push it, notify the loop. *)

\* take_parked, in waker.rs.
TakeParked(w, f) ==
  /\ job[w] = "idle" /\ where[f] = "parked"
  /\ where' = [where EXCEPT ![f] = "taken"]
  /\ job' = [job EXCEPT ![w] = "push"]
  /\ holds' = [holds EXCEPT ![w] = f]
  /\ UNCHANGED <<loopVars, registry, stateVars, notifierVars, home, via>>

\* Mutant: every push notifies.
PushNotifiesAlways(w) ==
  LET f == holds[w]
      b == via[f] IN
  /\ job[w] = "push"
  /\ where' = [where EXCEPT ![f] = "queued"]
  /\ queue' = [queue EXCEPT ![b] = @ \cup {f}]
  /\ armed' = [armed EXCEPT ![b] = TRUE]
  /\ job' = [job EXCEPT ![w] = "notify"]
  /\ holds' = [holds EXCEPT ![w] = b]
  /\ UNCHANGED <<loopVars, registry, notifierVars, home, via>>

\* The critical section of push: only the first of a batch goes on to notify.
Push(w) ==
  LET f == holds[w]
      b == via[f] IN
  /\ job[w] = "push"
  /\ where' = [where EXCEPT ![f] = "queued"]
  /\ queue' = [queue EXCEPT ![b] = @ \cup {f}]
  /\ armed' = [armed EXCEPT ![b] = TRUE]
  /\ job' = [job EXCEPT ![w] = IF armed[b] THEN "idle" ELSE "notify"]
  /\ holds' = [holds EXCEPT ![w] = IF armed[b] THEN "none" ELSE b]
  /\ UNCHANGED <<loopVars, registry, notifierVars, home, via>>

\* One byte into the pipe; a full pipe is as good.
NotifyPipe(w) ==
  LET b == holds[w] IN
  /\ job[w] = "notify" /\ kind[b] = "Pipe"
  /\ pipe' = [pipe EXCEPT ![b] = IF @ < PipeSize THEN @ + 1 ELSE @]
  /\ job' = [job EXCEPT ![w] = "idle"]
  /\ holds' = [holds EXCEPT ![w] = "none"]
  /\ UNCHANGED <<loopVars, registry, stateVars, owner, kind, readers, futVars>>

\* schedule_drain_call_soon, also the way out when the write fails. A loop that is
\* closed or deallocated, or whose call_soon_threadsafe raises although it is
\* open, makes the worker discard the queue.
NotifyCallSoon(w) ==
  LET l == owner[holds[w]] IN
  /\ job[w] = "notify"
  /\ \/ /\ life[l] = "open"
        /\ soon' = [soon EXCEPT ![l] = @ + 1]
        /\ job' = [job EXCEPT ![w] = "idle"]
        /\ holds' = [holds EXCEPT ![w] = "none"]
     \/ /\ job' = [job EXCEPT ![w] = "discard"]
        /\ UNCHANGED <<soon, holds>>
  /\ UNCHANGED <<life, draining, registry, stateVars, notifierVars, futVars>>

\* Drop what is queued; the next push tries to notify again.
Discard(w) ==
  LET b == holds[w] IN
  /\ job[w] = "discard"
  /\ queue' = [queue EXCEPT ![b] = {}]
  /\ armed' = [armed EXCEPT ![b] = FALSE]
  /\ Drop(queue[b])
  /\ job' = [job EXCEPT ![w] = "idle"]
  /\ holds' = [holds EXCEPT ![w] = "none"]
  /\ UNCHANGED <<loopVars, registry, notifierVars>>

-----------------------------------------------------------------------------
(* The drain, on the loop's thread. *)

\* A reader of loop l reports its pipe readable.
Readable(l) == \E b \in readers : owner[b] = l /\ pipe[b] > 0

\* drain: look the loop up and acknowledge, whichever way it was scheduled.
DrainStart(l) ==
  LET b == registry[AddrOf[l]] IN
  /\ life[l] = "open" /\ draining[l] = "none"
  /\ \/ soon[l] > 0 /\ soon' = [soon EXCEPT ![l] = @ - 1]
     \/ Readable(l) /\ UNCHANGED soon
  /\ draining' = [draining EXCEPT ![l] = b]
  /\ pipe' = IF b = "none" THEN pipe ELSE [pipe EXCEPT ![b] = 0]
  /\ UNCHANGED <<life, registry, stateVars, owner, kind, readers, futVars, jobVars>>

\* Mutant: the drain leaves the batcher armed.
DrainKeepsArmed(l) ==
  LET b == draining[l] IN
  /\ b # "none"
  /\ draining' = [draining EXCEPT ![l] = "none"]
  /\ queue' = [queue EXCEPT ![b] = {}]
  /\ Drop(queue[b])
  /\ UNCHANGED <<life, soon, armed, registry, notifierVars, jobVars>>

\* Batcher::drain under the lock, then release_waiter on what it took: a future
\* that is cancelled already is left alone, so either way it is done.
DrainTake(l) ==
  LET b == draining[l] IN
  /\ b # "none"
  /\ draining' = [draining EXCEPT ![l] = "none"]
  /\ armed' = [armed EXCEPT ![b] = FALSE]
  /\ queue' = [queue EXCEPT ![b] = {}]
  /\ Drop(queue[b])
  /\ UNCHANGED <<life, soon, registry, notifierVars, jobVars>>

-----------------------------------------------------------------------------

LoopNext(l) == Open(l) \/ Close(l) \/ Die(l) \/ DrainStart(l) \/ DrainTake(l)

FutNext(f) == \/ \E l \in Loops : ParkHit(f, l) \/ ParkMiss(f, l)
              \/ \E b \in Batchers, k \in {"Pipe", "CallSoon"} : NewBatcher(f, b, k)
              \/ Register(f)
              \/ Forget(f)

Notify(w) == NotifyPipe(w) \/ NotifyCallSoon(w)

WorkerNext(w) == \/ \E f \in Futs : TakeParked(w, f)
                 \/ Push(w) \/ Notify(w) \/ Discard(w)

Next == \/ \E l \in Loops : LoopNext(l)
        \/ \E f \in Futs : FutNext(f)
        \/ \E w \in Workers : WorkerNext(w)

Spec == Init /\ [][Next]_vars

\* A worker finishes the delivery it began and an open loop runs what is ready
\* on it. Nobody has to park, to wake, or to close a loop.
Fairness == /\ \A w \in Workers : WF_vars(Push(w) \/ Notify(w) \/ Discard(w))
            /\ \A l \in Loops : WF_vars(DrainStart(l) \/ DrainTake(l))

FairSpec == Spec /\ Fairness

-----------------------------------------------------------------------------
(* Properties. *)

\* Every variable holds a value of its Rust type; a worker that notifies or
\* discards holds a batcher, one that pushes holds a future.
TypeOK ==
  /\ life \in [Loops -> {"unborn", "open", "closed", "dead"}]
  /\ registry \in [Addrs -> Batchers \cup {"none"}]
  /\ owner \in [Batchers -> Loops \cup {"none"}]
  /\ kind \in [Batchers -> {"Pipe", "CallSoon"}]
  /\ queue \in [Batchers -> SUBSET Futs]
  /\ armed \in [Batchers -> BOOLEAN]
  /\ pipe \in [Batchers -> 0..PipeSize]
  /\ readers \subseteq Batchers
  /\ soon \in [Loops -> Nat]
  /\ draining \in [Loops -> Batchers \cup {"none"}]
  /\ where \in [Futs -> {"free", "build", "insert", "parked", "taken", "queued"}]
  /\ home \in [Futs -> Loops \cup {"none"}]
  /\ via \in [Futs -> Batchers \cup {"none"}]
  /\ job \in [Workers -> {"idle", "push", "notify", "discard"}]
  /\ holds \in [Workers -> Batchers \cup Futs \cup {"none"}]
  /\ \A w \in Workers : /\ job[w] = "push" => holds[w] \in Futs
                        /\ job[w] \in {"notify", "discard"} => holds[w] \in Batchers

\* All who park on a loop share one batcher, the one registered under its
\* address, and it is that loop's: neither a race of two registrations nor an
\* address CPython reuses gives a future a batcher whose drain passes it by.
SharedBatcher ==
  \A f \in Futs : where[f] \in {"parked", "taken", "queued"} =>
    /\ Alive(home[f])
    /\ registry[AddrOf[home[f]]] = via[f]
    /\ owner[via[f]] = home[f]

\* A worker that armed batcher b is not done with it.
Notifies(w, b) == job[w] \in {"notify", "discard"} /\ holds[w] = b

\* A drain of batcher b is still to come on loop l, or a discard.
DrainToCome(b, l) ==
  \/ draining[l] = b
  \/ soon[l] > 0
  \/ b \in readers /\ pipe[b] > 0
  \/ \E w \in Workers : Notifies(w, b)

\* A future queued for an open loop is never left lying: only the first push of
\* a batch notifies, and whatever rides along, between a drain's acknowledge and
\* its taking the queue too, still has a drain coming, or the worker that could
\* not schedule one is about to discard the queue.
QueueCovered ==
  \A b \in Batchers : queue[b] # {} /\ life[owner[b]] = "open" =>
    armed[b] /\ DrainToCome(b, owner[b])

\* One trip to the loop per batch: while a batcher is armed there is exactly one
\* drain to come, or one worker that will schedule it or discard the queue,
\* whoever notified and however often others pushed meanwhile; there is none
\* while it is not armed.
OneDrainPerBatch ==
  \A a \in Addrs : LET b == registry[a] IN b # "none" /\ life[owner[b]] = "open" =>
    LET l == owner[b] IN
    (IF armed[b] THEN 1 ELSE 0) =
      Cardinality({w \in Workers : Notifies(w, b)})
      + soon[l] + pipe[b] + (IF draining[l] = b THEN 1 ELSE 0)

\* A future a worker took or queued is let go of: the drain wakes it, or it is
\* discarded with the queue it is in, or its loop is closed.
FuturesReleased ==
  \A f \in Futs, l \in Loops :
    (home[f] = l /\ where[f] \in {"taken", "queued"}) ~> (home[f] # l \/ life[l] # "open")
=============================================================================

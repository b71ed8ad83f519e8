------------------------ MODULE DriverFutureCoverage ------------------------
(***************************************************************************)
(* Nobody is left behind: the theorems about lost completions, a panic     *)
(* while parking, blocked threads, callbacks and a parked awaiter.         *)
(***************************************************************************)
EXTENDS DriverFutureInvariance

-----------------------------------------------------------------------------
(* A future that is not started, or that panicked. *)

\* Only a settled future was aborted. No thread is inside a call on a future that
\* is not started, and a panic while parking leaves it so.
StillInv ==
  /\ aborted => state = "Ready"
  /\ poisoned <=> state = "Panicked"
  /\ state \in {"PendingAsyncio", "Panicked"} => \A t \in Threads : pc[t] = "idle"
  /\ state = "Panicked" => lock = "free" /\ task = "none"

\* A step that starts nothing, and after which no idle thread is inside a call.
LEMMA StillFrame ==
  ASSUME IInv, StillInv, UNCHANGED <<state, lockVars, task, aborted>>,
         \A t \in Threads : pc[t] = "idle" => pc'[t] = "idle"
  PROVE  StillInv'
BY Zenon DEF StillInv, lockVars

\* A step that starts or settles a future on a sound mutex.
LEMMA StillStarts ==
  ASSUME IInv, StillInv, MutexFree, poisoned' = poisoned,
         state' \in {"PendingTokio", "Ready"},
         aborted' => state' = "Ready"
  PROVE  StillInv'
BY DEF StillInv, MutexFree

\* Every step keeps it.
LEMMA StillStep ==
  ASSUME IInv, StillInv, [Next]_vars
  PROVE  StillInv'
<1> USE AllActors, Apart
<1> /\ pc \in [Actors -> PcValues] /\ poisoned \in BOOLEAN /\ aborted \in BOOLEAN
    /\ state \in {"PendingAsyncio", "PendingTokio", "Ready", "Panicked"}
  BY DEF IInv, TypeInv, TypeOK, ActorTypes, LockTypes, TaskTypes, CoreTypes
<1>1. ASSUME NEW t \in Threads, ThreadNext(t)
      PROVE  StillInv'
  <2>1. CASE WaitWhile(t) \/ SpuriousWakeup(t) \/ Expire(t) \/ Recheck(t) \/ ReadResult(t)
    <3>1. pc[t] # "idle"
      BY <2>1 DEF WaitWhile, SpuriousWakeup, Expire, Recheck, ReadResult
    <3>2. state \notin {"PendingAsyncio", "Panicked"}
      BY <3>1 DEF StillInv
    <3>3. UNCHANGED <<state, lockVars, task, aborted>>
      BY <2>1 DEF WaitWhile, SpuriousWakeup, Expire, Recheck, ReadResult, coreVars, taskVars
    <3> QED
      BY <3>2, <3>3 DEF StillInv, lockVars
  <2>2. CASE Start(t)
    BY <2>2, StillStarts DEF Start, EnsureStarted, StillInv, lockVars
  <2>3. CASE \E c \in Callbacks : RegisterCallback(t, c)
    <3> PICK c \in Callbacks : RegisterCallback(t, c)
      BY <2>3
    <3>1. MutexFree /\ poisoned' = poisoned /\ aborted' = aborted
      BY DEF RegisterCallback, lockVars
    <3>2. state' \in {"PendingTokio", "Ready"}
      BY DEF RegisterCallback, EnsureStarted, Terminal
    <3>3. aborted => state' = "Ready"
      BY DEF RegisterCallback, Terminal, StillInv
    <3> QED
      BY <3>1, <3>2, <3>3, StillStarts
  <2>4. CASE \E timeout \in BOOLEAN : BlockUntilReady(t, timeout)
    <3> PICK timeout \in BOOLEAN : BlockUntilReady(t, timeout)
      BY <2>4
    <3>1. MutexFree /\ poisoned' = poisoned /\ aborted' = aborted
      BY DEF BlockUntilReady, lockVars
    <3>2. state' \in {"PendingTokio", "Ready"}
      BY DEF BlockUntilReady, EnsureStarted, Terminal
    <3>3. aborted => state' = "Ready"
      BY DEF BlockUntilReady, Terminal, StillInv
    <3> QED
      BY <3>1, <3>2, <3>3, StillStarts
  <2>5. CASE Inspect(t)
    BY <2>5, StillFrame DEF Inspect, taskVars
  <2>6. CASE \E exc \in Closings : CloseFuture(t, exc)
    <3> PICK exc \in Closings : CloseFuture(t, exc)
      BY <2>6
    <3> QED
      BY StillStarts DEF CloseFuture, Settle, lockVars
  <2> QED
    BY <1>1, <2>1, <2>2, <2>3, <2>4, <2>5, <2>6 DEF ThreadNext
<1>2. ASSUME NEW t \in Awaiters, AwaiterNext(t)
      PROVE  StillInv'
  <2>1. CASE YieldPanics(t)
    BY <2>1, StillFrame DEF YieldPanics, coreVars, taskVars
  <2>2. CASE PollCoroutine(t)
    <3>1. CASE state' = "Ready" \/ state = "PendingTokio"
      BY <2>2, <3>1, StillStarts DEF PollCoroutine, StillInv, taskVars
    <3>2. CASE ~(state' = "Ready" \/ state = "PendingTokio")
      <4>1. state = "PendingAsyncio" /\ state' = state /\ pc' = [pc EXCEPT ![t] = "park"]
        BY <2>2, <3>2 DEF PollCoroutine
      <4> QED
        BY <2>2, <4>1 DEF PollCoroutine, StillInv, taskVars
    <3> QED
      BY <3>1, <3>2
  <2>3. CASE YieldAsyncioFuture(t)
    <3>1. UNCHANGED <<task, aborted>> /\ lock' = IF pc[t] = "park" THEN "free" ELSE lock
      BY <2>3 DEF YieldAsyncioFuture, taskVars
    <3>2. \A x \in Threads : pc'[x] = pc[x]
      BY <2>3 DEF YieldAsyncioFuture
    <3>3. CASE UNCHANGED <<state, poisoned>>
      BY <3>1, <3>2, <3>3 DEF StillInv
    <3>4. CASE /\ poisoned' = (poisoned \/ pc[t] = "park")
               /\ state' = IF pc[t] = "park" THEN "Panicked" ELSE state
      <4>1. pc[t] = "park" => state = "PendingAsyncio"
        BY DEF IInv, ParkInv
      <4>2. state = "PendingAsyncio" => task = "none"
        BY DEF IInv, SettledInv
      <4> QED
        BY <3>1, <3>2, <3>4, <4>1, <4>2, Zenon DEF StillInv
    <3> QED
      BY <2>3, <3>3, <3>4 DEF YieldAsyncioFuture
  <2>4. CASE ThrowInto(t)
    <3>1. CASE Terminal
      BY <2>4, <3>1, StillFrame DEF ThrowInto
    <3>2. CASE ~Terminal
      BY <2>4, <3>2, StillStarts DEF ThrowInto, Settle, lockVars
    <3> QED
      BY <3>1, <3>2
  <2> QED
    BY <1>2, <2>1, <2>2, <2>3, <2>4 DEF AwaiterNext
<1>3. ASSUME NEW t \in Callers, Refused(t)
      PROVE  StillInv'
  BY <1>3, StillFrame DEF Refused, coreVars, taskVars
<1>4. ASSUME NEW a \in Actors, ActorNext(a)
      PROVE  StillInv'
  <2>1. CASE Convert(a) \/ Fire(a) \/ Wake(a)
    BY <2>1, StillFrame DEF Convert, Fire, Wake, coreVars, taskVars
  <2>2. CASE Notify(a)
    BY <2>2, NotifyMoves, StillFrame DEF Notify, coreVars, taskVars
  <2> QED
    BY <1>4, <2>1, <2>2 DEF ActorNext
<1>5. CASE EnvNext
  <2>1. CASE InnerReady \/ StaleWake \/ Drain \/ PoolStart \/ PoolDrop \/ Shutdown \/ Stopped
    BY <2>1, StillFrame DEF InnerReady, StaleWake, Drain, PoolStart, PoolDrop, Shutdown,
           Stopped, coreVars, taskVars
  <2>2. CASE TaskPoll
    BY <2>2 DEF TaskPoll, StillInv, coreVars, lockVars
  <2>3. CASE TaskComplete
    <3>1. /\ task = "polled" /\ UNCHANGED <<lockVars, aborted>>
          /\ (state' = state /\ pc' = pc) \/ state' = "Ready"
      BY <2>3 DEF TaskComplete, Settle, coreVars
    <3>2. MutexFree
      BY <2>3 DEF TaskComplete
    <3> QED
      BY <3>1, <3>2, StillStarts DEF StillInv, lockVars
  <2>4. CASE TaskDrop
    <3>1. /\ task \in {"spawned", "polled"} /\ UNCHANGED <<lockVars, aborted, pc>>
          /\ state' = state \/ state' = "Ready"
      BY <2>4 DEF TaskDrop, Settle, coreVars
    <3>2. MutexFree
      BY <2>4 DEF TaskDrop
    <3> QED
      BY <3>1, <3>2, StillStarts DEF StillInv, lockVars
  <2> QED
    BY <1>5, <2>1, <2>2, <2>3, <2>4, Zenon DEF EnvNext
<1>6. CASE UNCHANGED vars
  BY <1>6 DEF StillInv, vars, coreVars, lockVars, taskVars
<1> QED
  BY <1>1, <1>2, <1>3, <1>4, <1>5, <1>6 DEF Next

-----------------------------------------------------------------------------
(* Lost completions. *)

\* A step that loses nothing, or that loses it for the cause it is blamed on.
LEMMA LossFrame ==
  ASSUME LostOnlyAtShutdown, slotPoisoned => slotPoisoned',
         runtime # "up" => runtime' # "up",
         \/ lost' = lost
         \/ lost' \in {lost \cup {"task"}, lost \cup {"job"}} /\ runtime' # "up"
         \/ lost' = lost \cup {"panic"} /\ slotPoisoned'
  PROVE  LostOnlyAtShutdown'
BY DEF LostOnlyAtShutdown

\* A spawn on a stopped runtime is blamed on its shutdown.
LEMMA LossStart ==
  ASSUME EnsureStarted
  PROVE  lost' = lost \/ (lost' = lost \cup {"task"} /\ runtime # "up")
BY DEF EnsureStarted, SpawnGuarded

\* Every step blames a loss on the shutdown or on the poisoned slot.
LEMMA LossStep ==
  ASSUME IInv, StillInv, LostOnlyAtShutdown, [Next]_vars
  PROVE  LostOnlyAtShutdown'
<1>1. ASSUME NEW t \in Threads, ThreadNext(t)
      PROVE  LostOnlyAtShutdown'
  <2>1. UNCHANGED <<runtime, slotPoisoned>>
    BY <1>1, Zenon DEF ThreadNext, Start, RegisterCallback, BlockUntilReady, WaitWhile,
           SpuriousWakeup, Expire, Recheck, ReadResult, Inspect, CloseFuture, taskVars,
           wakerVars
  <2>2. lost' = lost \/ EnsureStarted
    BY <1>1, Zenon DEF ThreadNext, Start, RegisterCallback, BlockUntilReady, WaitWhile,
           SpuriousWakeup, Expire, Recheck, ReadResult, Inspect, CloseFuture, histVars
  <2> QED
    BY <2>1, <2>2, LossStart, LossFrame, Zenon
<1>2. ASSUME NEW t \in Awaiters, AwaiterNext(t)
      PROVE  LostOnlyAtShutdown'
  <2>1. UNCHANGED <<runtime, lost>>
    BY <1>2, Zenon DEF AwaiterNext, PollCoroutine, YieldAsyncioFuture, YieldPanics,
           ThrowInto, taskVars, histVars
  <2>2. slotPoisoned => slotPoisoned'
    BY <1>2, Zenon DEF AwaiterNext, PollCoroutine, YieldAsyncioFuture, YieldPanics,
           ThrowInto, wakerVars
  <2> QED
    BY <2>1, <2>2, LossFrame, Zenon
<1>3. ASSUME NEW t \in Callers, Refused(t)
      PROVE  LostOnlyAtShutdown'
  BY <1>3, LossFrame DEF Refused, taskVars, wakerVars
<1>4. ASSUME NEW a \in Actors, ActorNext(a)
      PROVE  LostOnlyAtShutdown'
  <2>1. CASE Convert(a) \/ Fire(a) \/ Notify(a)
    <3>1. UNCHANGED <<runtime, slotPoisoned, lost>>
      BY <2>1, Zenon DEF Convert, Fire, Notify, taskVars, wakerVars, histVars
    <3> QED
      BY <3>1, LossFrame, Zenon
  <2>2. CASE Wake(a)
    BY <2>2, LossFrame DEF Wake, taskVars
  <2> QED
    BY <1>4, <2>1, <2>2 DEF ActorNext
<1>5. CASE EnvNext
  <2>1. CASE \/ InnerReady \/ StaleWake \/ Drain \/ TaskPoll \/ PoolStart
              \/ Shutdown \/ Stopped
    <3>1. lost' = lost /\ slotPoisoned' = slotPoisoned
      BY <2>1, Zenon DEF InnerReady, StaleWake, Drain, TaskPoll, PoolStart, Shutdown,
             Stopped, taskVars, wakerVars, histVars
    <3>2. runtime # "up" => runtime' # "up"
      BY <2>1 DEF InnerReady, StaleWake, Drain, TaskPoll, PoolStart, Shutdown,
             Stopped, taskVars
    <3> QED
      BY <3>1, <3>2, LossFrame, Zenon
  <2>2. CASE TaskComplete \/ PoolDrop
    <3>1. /\ UNCHANGED <<runtime, slotPoisoned>>
          /\ lost' = lost \/ (lost' = lost \cup {"job"} /\ runtime # "up")
      BY <2>2, Zenon DEF TaskComplete, PoolDrop, taskVars, wakerVars
    <3> QED
      BY <3>1, LossFrame, Zenon
  <2>3. CASE TaskDrop
    <3>1. StillPending => runtime # "up"
      BY <2>3 DEF TaskDrop, StillPending, StillInv
    <3> QED
      BY <2>3, <3>1, LossFrame DEF TaskDrop, wakerVars
  <2> QED
    BY <1>5, <2>1, <2>2, <2>3, Zenon DEF EnvNext
<1>6. CASE UNCHANGED vars
  BY <1>6, LossFrame DEF vars, taskVars, wakerVars, histVars
<1> QED
  BY <1>1, <1>2, <1>3, <1>4, <1>5, <1>6 DEF Next

-----------------------------------------------------------------------------
(* What an actor still has to do. *)

\* Making a step leaves the others of a plan to do.
LEMMA StepsLeft ==
  ASSUME NEW s \in FirePlans \cup {ConvertPlan} \cup OtherPlans, s # <<>>,
         NEW step \in Range(s), Head(s) # step
  PROVE  step \in Range(Tail(s)) /\ Tail(s) # <<>>
<1> USE DEF ConvertPlan, FirePlans, OtherPlans, Range
<1>1. CASE s = ConvertPlan
  BY <1>1
<1>2. CASE s = <<"fire">>
  BY <1>2
<1>3. CASE s = <<"wake", "fire">>
  BY <1>3
<1>4. CASE s = <<"notify", "wake", "fire">>
  BY <1>4
<1>5. CASE s = <<"notify", "fire">>
  BY <1>5
<1>6. CASE s = <<"wake", "notify", "fire">>
  BY <1>6
<1>7. CASE s = <<"fire", "wake", "notify">>
  BY <1>7
<1>8. CASE s = <<"wake">>
  BY <1>8
<1>9. CASE s = <<"notify">>
  BY <1>9
<1>10. CASE s = <<"wake", "notify">>
  BY <1>10
<1> QED
  BY <1>1, <1>2, <1>3, <1>4, <1>5, <1>6, <1>7, <1>8, <1>9, <1>10, Zenon

\* What the plans of a settlement contain.
LEMMA PlansContain ==
  /\ "wake" \in Range(CloseSteps) /\ "notify" \in Range(CloseSteps)
  /\ "wake" \in Range(ThrowSteps) /\ "notify" \in Range(ThrowSteps)
  /\ \A cbs : "wake" \in Range(FireAndNotify(cbs)) /\ "notify" \in Range(FireAndNotify(cbs))
  /\ \A s \in FirePlans \cup {ConvertPlan} : "fire" \in Range(s)
  /\ \A step : step \notin Range(<<>>)
<1> USE DEF Range
<1>1. "wake" \in Range(CloseSteps) /\ "notify" \in Range(CloseSteps)
  BY DEF CloseSteps
<1>2. "wake" \in Range(ThrowSteps) /\ "notify" \in Range(ThrowSteps)
  BY DEF ThrowSteps
<1>3. ASSUME NEW cbs
      PROVE  "wake" \in Range(FireAndNotify(cbs)) /\ "notify" \in Range(FireAndNotify(cbs))
  <2>1. CASE cbs = {}
    BY <2>1 DEF FireAndNotify
  <2>2. CASE cbs # {}
    BY <2>2 DEF FireAndNotify
  <2> QED
    BY <2>1, <2>2
<1>4. ASSUME NEW s \in FirePlans \cup {ConvertPlan}
      PROVE  "fire" \in Range(s)
  BY DEF FirePlans, ConvertPlan
<1>5. \A step : step \notin Range(<<>>)
  OBVIOUS
<1> QED
  BY <1>1, <1>2, <1>3, <1>4, <1>5

\* What was lost stays lost.
LEMMA LostGrows ==
  ASSUME [Next]_vars
  PROVE  lost \subseteq lost'
<1>1. ASSUME NEW t \in Threads, ThreadNext(t)
      PROVE  lost \subseteq lost'
  <2>1. lost' = lost \/ EnsureStarted
    BY <1>1, Zenon DEF ThreadNext, Start, RegisterCallback, BlockUntilReady, WaitWhile,
           SpuriousWakeup, Expire, Recheck, ReadResult, Inspect, CloseFuture, histVars
  <2> QED
    BY <2>1, LossStart, Zenon
<1>2. ASSUME NEW t \in Awaiters, AwaiterNext(t)
      PROVE  lost \subseteq lost'
  BY <1>2, Zenon DEF AwaiterNext, PollCoroutine, YieldAsyncioFuture, YieldPanics,
     ThrowInto, histVars
<1>3. ASSUME NEW t \in Callers, Refused(t)
      PROVE  lost \subseteq lost'
  BY <1>3 DEF Refused
<1>4. ASSUME NEW a \in Actors, ActorNext(a)
      PROVE  lost \subseteq lost'
  BY <1>4, Zenon DEF ActorNext, Convert, Fire, Notify, Wake, histVars
<1>5. CASE EnvNext
  BY <1>5 DEF EnvNext, InnerReady, StaleWake, Drain, TaskPoll, PoolStart, Shutdown, Stopped,
         TaskComplete, TaskDrop, PoolDrop, histVars
<1>6. CASE UNCHANGED vars
  BY <1>6 DEF vars, histVars
<1> QED
  BY <1>1, <1>2, <1>3, <1>4, <1>5, <1>6 DEF Next

\* Who has a step left to do keeps it while an actor that had none is given a plan.
LEMMA PendsContinue ==
  ASSUME IInv, NEW b \in Actors, todo[b] = <<>>,
         NEW s, NEW cbs, NEW n, NEW v, Continue(b, s, cbs, n, v),
         NEW a \in Actors, NEW step, Pends(a, step)
  PROVE  step \in Range(todo'[a]) /\ captured'[a] = captured[a]
<1>1. a # b
  BY PlansContain DEF Pends
<1> QED
  BY <1>1 DEF Continue, Pends, IInv, TypeInv, TypeOK, JobTypes

\* The same while an actor makes another step.
LEMMA PendsAdvance ==
  ASSUME IInv, NEW b \in Actors, todo[b] # <<>>, Advance(b),
         NEW a \in Actors, NEW step, Pends(a, step), a # b \/ Head(todo[b]) # step
  PROVE  step \in Range(todo'[a]) /\ captured'[a] = captured[a]
<1> todo \in [Actors -> Seq(Steps)] /\ captured \in [Actors -> Nat]
  BY DEF IInv, TypeInv, TypeOK, JobTypes
<1>1. CASE a # b
  BY <1>1 DEF Advance, Pends
<1>2. CASE a = b
  <2>1. todo[a] \in FirePlans \cup {ConvertPlan} \cup OtherPlans
    BY DEF IInv, PlanInv
  <2>2. step \in Range(Tail(todo[a])) /\ Tail(todo[a]) # <<>>
    BY <1>2, <2>1, StepsLeft, Zenon DEF Pends
  <2> QED
    BY <1>2, <2>2 DEF Advance
<1> QED
  BY <1>1, <1>2

\* A wake or a notification that is due stays due until its actor makes it, and
\* the actor keeps the count it read, unless a completion is lost.
LEMMA PendsStep ==
  ASSUME IInv, [Next]_vars, lost' = {},
         NEW a \in Actors, NEW step \in {"wake", "notify"}, Pends(a, step)
  PROVE  \/ step \in Range(todo'[a]) /\ captured'[a] = captured[a]
         \/ step = "wake" /\ Wake(a) /\ ~slotPoisoned
         \/ step = "notify" /\ Notify(a)
<1> USE AllActors
<1> DEFINE Due == step \in Range(todo'[a]) /\ captured'[a] = captured[a]
<1>0. UNCHANGED <<todo, captured>> => Due
  BY DEF Pends
<1>1. ASSUME NEW t \in Threads, ThreadNext(t)
      PROVE  Due
  <2>1. CASE UNCHANGED jobVars
    BY <1>0, <2>1 DEF jobVars
  <2>2. CASE \E c \in Callbacks : RegisterCallback(t, c) /\ state = "Ready"
    <3>1. PICK c \in Callbacks, v \in Outcomes : Continue(t, <<"fire">>, {c}, 0, v)
      BY <2>2, Zenon DEF RegisterCallback, Terminal
    <3>2. todo[t] = <<>>
      BY <2>2 DEF RegisterCallback, Idle
    <3> QED
      BY <3>1, <3>2, PendsContinue
  <2>3. CASE \E exc \in Closings : CloseFuture(t, exc)
    <3>1. PICK s, cbs, n, v : Continue(t, s, cbs, n, v)
      BY <2>3 DEF CloseFuture
    <3>2. todo[t] = <<>>
      BY <2>3, Zenon DEF CloseFuture, Idle
    <3> QED
      BY <3>1, <3>2, PendsContinue, Zenon
  <2> QED
    BY <1>1, <2>1, <2>2, <2>3, Zenon DEF ThreadNext, Start, RegisterCallback, BlockUntilReady,
           WaitWhile, SpuriousWakeup, Expire, Recheck, ReadResult, Inspect, Terminal
<1>2. ASSUME NEW t \in Awaiters, AwaiterNext(t)
      PROVE  Due
  <2>1. CASE UNCHANGED jobVars
    BY <1>0, <2>1 DEF jobVars
  <2>2. CASE ThrowInto(t) /\ ~UNCHANGED jobVars
    <3>1. todo[t] = <<>> /\ Continue(t, ThrowSteps, callbacks, waiters, "thrown")
      BY <2>2 DEF ThrowInto
    <3> QED
      BY <3>1, PendsContinue
  <2> QED
    BY <1>2, <2>1, <2>2, Zenon DEF AwaiterNext, PollCoroutine, YieldAsyncioFuture, YieldPanics
<1>3. ASSUME NEW t \in Callers, Refused(t)
      PROVE  Due
  BY <1>0, <1>3, Zenon DEF Refused, jobVars
<1>4. ASSUME NEW b \in Actors, ActorNext(b)
      PROVE  \/ Due
             \/ step = "wake" /\ Wake(a) /\ ~slotPoisoned
             \/ step = "notify" /\ Notify(a)
  <2>1. CASE Convert(b)
    <3>1. PICK v : Continue(b, Tail(todo[b]), mine[b], captured[b], v)
      BY <2>1 DEF Convert
    <3>2. todo[b] # <<>> /\ Head(todo[b]) = "convert"
      BY <2>1, Zenon DEF Convert, Acting
    <3>3. CASE a # b
      BY <3>1, <3>3 DEF Continue, Pends, IInv, TypeInv, TypeOK, JobTypes
    <3>4. CASE a = b
      <4>1. todo[a] \in FirePlans \cup {ConvertPlan} \cup OtherPlans
        BY DEF IInv, PlanInv
      <4>2. step \in Range(Tail(todo[a]))
        BY <3>2, <3>4, <4>1, StepsLeft, Zenon DEF Pends
      <4> QED
        BY <3>1, <3>4, <4>2 DEF Continue, IInv, TypeInv, TypeOK, JobTypes
    <3> QED
      BY <3>3, <3>4
  <2>2. CASE Fire(b)
    <3>1. CASE UNCHANGED <<todo, captured>>
      BY <1>0, <3>1
    <3>2. CASE Advance(b)
      BY <2>2, <3>2, PendsAdvance, Zenon DEF Fire, Acting
    <3> QED
      BY <2>2, <3>1, <3>2 DEF Fire
  <2>3. CASE Notify(b)
    <3>1. CASE a = b /\ step = "notify"
      BY <2>3, <3>1, Zenon
    <3>2. CASE ~(a = b /\ step = "notify")
      BY <2>3, <3>2, PendsAdvance, Zenon DEF Notify, Acting
    <3> QED
      BY <3>1, <3>2, Zenon
  <2>4. CASE Wake(b)
    <3>1. ~slotPoisoned
      BY <2>4, Zenon DEF Wake
    <3>2. CASE a = b /\ step = "wake"
      BY <2>4, <3>1, <3>2, Zenon
    <3>3. CASE ~(a = b /\ step = "wake")
      BY <2>4, <3>1, <3>3, PendsAdvance, Zenon DEF Wake, Acting
    <3> QED
      BY <3>2, <3>3
  <2> QED
    BY <1>4, <2>1, <2>2, <2>3, <2>4, Zenon DEF ActorNext
<1>5. CASE EnvNext
  <2>1. CASE UNCHANGED jobVars
    BY <1>0, <2>1 DEF jobVars
  <2>2. CASE TaskComplete /\ ~UNCHANGED jobVars
    <3>1. todo["task"] = <<>> /\ todo["pool"] = <<>>
      BY <2>2 DEF TaskComplete, IInv, SettledInv
    <3>2. PICK b \in {"task", "pool"} : \E s, cbs : Continue(b, s, cbs, waiters, "none")
      BY <2>2 DEF TaskComplete
    <3>3. PICK s, cbs : Continue(b, s, cbs, waiters, "none")
      BY <3>2, Zenon
    <3> QED
      BY <3>1, <3>3, PendsContinue, Zenon
  <2>3. CASE TaskDrop /\ ~UNCHANGED jobVars
    <3>1. todo["task"] = <<>>
      BY <2>3 DEF TaskDrop, IInv, SettledInv
    <3>2. PICK s, cbs : Continue("task", s, cbs, waiters, "none")
      BY <2>3 DEF TaskDrop
    <3> QED
      BY <3>1, <3>2, PendsContinue, Zenon
  <2>4. ~PoolDrop
    BY DEF PoolDrop
  <2> QED
    BY <1>5, <2>1, <2>2, <2>3, <2>4 DEF EnvNext, InnerReady, StaleWake, Drain, TaskPoll,
           PoolStart, Shutdown, Stopped
<1>6. CASE UNCHANGED vars
  BY <1>0, <1>6 DEF vars, jobVars
<1> QED
  BY <1>1, <1>2, <1>3, <1>4, <1>5, <1>6 DEF Next

\* The plan an actor is given is the one it then has.
LEMMA Planned ==
  ASSUME IInv, NEW a \in Actors, NEW s, NEW cbs, NEW n, NEW v, Continue(a, s, cbs, n, v)
  PROVE  todo'[a] = s /\ captured'[a] = n
BY Zenon DEF Continue, IInv, TypeInv, TypeOK, JobTypes

\* Whoever settles a started future is going to wake the awaiter, and to notify
\* with the count of waiters. A future that is not started is settled by its
\* awaiter, or by a close that wakes the awaiter if there ever was one.
LEMMA SettlingStep ==
  ASSUME IInv, [Next]_vars, lost' = {}, ~Terminal, Terminal'
  PROVE  \/ /\ state = "PendingTokio" /\ UNCHANGED <<slot, batch, waiters>>
            /\ \A t \in Callers : pc'[t] = pc[t] \/ (t \in Awaiters /\ pc'[t] = "idle")
            /\ \E a \in Actors : /\ "wake" \in Range(todo'[a]) /\ "notify" \in Range(todo'[a])
                                 /\ captured'[a] = waiters
         \/ /\ state = "PendingAsyncio" /\ UNCHANGED <<pc, slot, batch>>
            /\ polled => \E a \in Actors : "wake" \in Range(todo'[a])
         \/ /\ state = "PendingAsyncio" /\ \A t \in Threads : pc'[t] = pc[t]
            /\ \E t \in Awaiters : pc'[t] = "idle"
<1> USE AllActors, Apart
<1> pc \in [Actors -> PcValues]
  BY DEF IInv, TypeInv, TypeOK, ActorTypes
<1>0. state' # state
  BY Zenon DEF Terminal
<1>1. ASSUME NEW t \in Threads, ThreadNext(t)
      PROVE  \/ /\ state = "PendingTokio" /\ UNCHANGED <<pc, slot, batch, waiters>>
                /\ "wake" \in Range(todo'[t]) /\ "notify" \in Range(todo'[t])
                /\ captured'[t] = waiters
             \/ /\ state = "PendingAsyncio" /\ UNCHANGED <<pc, slot, batch>>
                /\ polled => "wake" \in Range(todo'[t])
  <2>1. PICK exc \in Closings : CloseFuture(t, exc)
    BY <1>0, <1>1, Zenon DEF ThreadNext, Start, RegisterCallback, BlockUntilReady,
       EnsureStarted,
           WaitWhile, SpuriousWakeup, Expire, Recheck, ReadResult, Inspect, Terminal, coreVars
  <2>2. UNCHANGED <<pc, slot, batch, waiters>>
    BY <2>1 DEF CloseFuture, wakerVars
  <2>3. CASE state = "PendingTokio"
    <3>1. Continue(t, CloseSteps, callbacks, waiters, exc)
      BY <2>1, <2>3 DEF CloseFuture
    <3>2. todo'[t] = CloseSteps /\ captured'[t] = waiters
      BY <3>1, Planned, Zenon
    <3> QED
      BY <2>2, <2>3, <3>2, PlansContain, Zenon
  <2>4. CASE state = "PendingAsyncio"
    <3>1. polled => Continue(t, <<"wake">>, {}, 0, "none")
      BY <2>1, <2>4, Zenon DEF CloseFuture
    <3>2. polled => todo'[t] = <<"wake">>
      BY <3>1, Planned
    <3>3. "wake" \in Range(<<"wake">>)
      BY DEF Range
    <3> QED
      BY <2>2, <2>4, <3>2, <3>3
  <2> QED
    BY <2>3, <2>4 DEF Terminal, IInv, TypeInv, TypeOK, CoreTypes
<1>2. ASSUME NEW t \in Awaiters, AwaiterNext(t)
      PROVE  \/ /\ state = "PendingTokio" /\ UNCHANGED <<slot, batch, waiters>>
                /\ pc' = [pc EXCEPT ![t] = "idle"]
                /\ "wake" \in Range(todo'[t]) /\ "notify" \in Range(todo'[t])
                /\ captured'[t] = waiters
             \/ state = "PendingAsyncio" /\ pc' = [pc EXCEPT ![t] = "idle"]
  <2>1. CASE PollCoroutine(t)
    BY <1>0, <2>1, Zenon DEF PollCoroutine
  <2>2. CASE YieldAsyncioFuture(t)
    <3>1. pc[t] = "park" => state = "PendingAsyncio"
      BY DEF IInv, ParkInv
    <3> QED
      BY <1>0, <2>2, <3>1 DEF YieldAsyncioFuture
  <2>3. CASE ThrowInto(t) /\ state = "PendingTokio"
    <3>1. Continue(t, ThrowSteps, callbacks, waiters, "thrown")
      BY <2>3, Zenon DEF ThrowInto, Terminal
    <3>2. todo'[t] = ThrowSteps /\ captured'[t] = waiters
      BY <3>1, Planned, Zenon
    <3>3. UNCHANGED <<slot, batch, waiters>> /\ pc' = [pc EXCEPT ![t] = "idle"]
      BY <2>3, Zenon DEF ThrowInto
    <3> QED
      BY <2>3, <3>2, <3>3, PlansContain, Zenon
  <2>4. CASE ThrowInto(t) /\ state # "PendingTokio"
    BY <2>4, Zenon DEF ThrowInto, Terminal, IInv, TypeInv, TypeOK, CoreTypes
  <2>5. ~YieldPanics(t)
    BY <1>0 DEF YieldPanics, coreVars
  <2> QED
    BY <1>2, <2>1, <2>2, <2>3, <2>4, <2>5, Zenon DEF AwaiterNext
<1>3. ~\E t \in Callers : Refused(t)
  BY <1>0 DEF Refused, coreVars
<1>4. ~\E a \in Actors : ActorNext(a)
  BY <1>0, Zenon DEF ActorNext, Convert, Fire, Notify, Wake, coreVars
<1>5. ASSUME EnvNext
      PROVE  /\ state = "PendingTokio" /\ UNCHANGED <<slot, batch, waiters>>
             /\ \A t \in Callers : pc'[t] = pc[t]
             /\ \E a \in Actors : /\ "wake" \in Range(todo'[a]) /\ "notify" \in Range(todo'[a])
                                  /\ captured'[a] = waiters
  <2>1. ASSUME NEW a \in Actors, NEW cbs, Continue(a, FireAndNotify(cbs), cbs, waiters, "none")
        PROVE  /\ "wake" \in Range(todo'[a]) /\ "notify" \in Range(todo'[a])
               /\ captured'[a] = waiters
    <3>1. todo'[a] = FireAndNotify(cbs) /\ captured'[a] = waiters
      BY <2>1, Planned, Zenon
    <3> QED
      BY <3>1, PlansContain, Zenon
  <2>2. CASE TaskComplete
    <3>1. state = "PendingTokio" /\ UNCHANGED <<slot, batch, waiters>>
      BY <1>0, <2>2, Zenon DEF TaskComplete, StillPending, wakerVars, coreVars
    <3>2. \A t \in Callers : pc'[t] = pc[t]
      BY <2>2, Zenon DEF TaskComplete, Callers
    <3>3. \E a \in Actors, cbs \in {{}, callbacks} : Continue(a, FireAndNotify(cbs), cbs, waiters, "none")
      BY <1>0, <2>2, Zenon DEF TaskComplete, coreVars
    <3> QED
      BY <2>1, <3>1, <3>2, <3>3, Zenon
  <2>3. CASE TaskDrop
    <3>1. state = "PendingTokio" /\ UNCHANGED <<slot, batch, waiters, pc>>
      BY <1>0, <2>3, Zenon DEF TaskDrop, StillPending, wakerVars, coreVars
    <3>2. Continue("task", FireAndNotify(callbacks), callbacks, waiters, "none")
      BY <1>0, <2>3 DEF TaskDrop, coreVars
    <3> QED
      BY <2>1, <3>1, <3>2, Zenon
  <2> QED
    BY <1>0, <1>5, <2>2, <2>3, Zenon DEF EnvNext, InnerReady, StaleWake, Drain, TaskPoll,
       PoolStart,
           PoolDrop, Shutdown, Stopped, coreVars
<1>6. ~UNCHANGED vars
  BY <1>0, Zenon DEF vars, coreVars
<1>7. CASE \E t \in Threads : ThreadNext(t)
  BY <1>1, <1>7, Zenon
<1>8. CASE \E t \in Awaiters : AwaiterNext(t)
  BY <1>2, <1>8, Zenon DEF Callers
<1> QED
  BY <1>3, <1>4, <1>5, <1>6, <1>7, <1>8 DEF Next

-----------------------------------------------------------------------------
(* Blocked threads. *)

\* A thread joins the condvar only while the future is pending.
LEMMA JoinsPending ==
  ASSUME IInv, [Next]_vars, NEW t \in Threads, pc'[t] = "waiting"
  PROVE  pc[t] = "waiting" \/ (state = "PendingTokio" /\ state' = state)
<1> USE AllActors, Apart
<1> pc \in [Actors -> PcValues]
  BY DEF IInv, TypeInv, TypeOK, ActorTypes
<1>1. ASSUME NEW x \in Threads, ThreadNext(x)
      PROVE  pc[t] = "waiting" \/ (state = "PendingTokio" /\ state' = state)
  BY <1>1, Zenon DEF ThreadNext, Start, RegisterCallback, BlockUntilReady, WaitWhile,
         SpuriousWakeup, Expire, Recheck, ReadResult, Inspect, CloseFuture, coreVars
<1>2. ASSUME NEW x \in Awaiters, AwaiterNext(x)
      PROVE  pc[t] = "waiting"
  BY <1>2, Zenon DEF AwaiterNext, PollCoroutine, YieldUnlocked, YieldAsyncioFuture, YieldPanics,
         ThrowInto
<1>3. ASSUME NEW x \in Callers, Refused(x)
      PROVE  pc[t] = "waiting"
  BY <1>3 DEF Refused
<1>4. ASSUME NEW a \in Actors, ActorNext(a)
      PROVE  pc[t] = "waiting"
  BY <1>4, NotifyMoves, Zenon DEF ActorNext, Convert, Fire, Wake
<1>5. CASE EnvNext
  BY <1>5, Zenon DEF EnvNext, InnerReady, StaleWake, Drain, TaskPoll, PoolStart, PoolDrop,
         Shutdown, Stopped, TaskComplete, TaskDrop
<1>6. CASE UNCHANGED vars
  BY <1>6 DEF vars
<1> QED
  BY <1>1, <1>2, <1>3, <1>4, <1>5, <1>6 DEF Next

\* Every step keeps a notification due for a thread that waits.
LEMMA WaiterStep ==
  ASSUME IInv, StillInv, WaiterCovered, [Next]_vars
  PROVE  WaiterCovered'
<1> SUFFICES ASSUME NEW t \in Threads, Terminal', pc'[t] = "waiting", lost' = {}
             PROVE  \E a \in Actors : "notify" \in Range(todo'[a]) /\ captured'[a] > 0
  BY DEF WaiterCovered, Pends
<1> USE AllActors
<1>1. pc[t] = "waiting" \/ (state = "PendingTokio" /\ state' = state)
  BY JoinsPending
<1>2. pc[t] = "waiting"
  BY <1>1 DEF Terminal
<1>3. CASE Terminal
  <2>1. lost = {}
    BY LostGrows
  <2>2. PICK a \in Actors : Pends(a, "notify") /\ captured[a] > 0
    BY <1>2, <1>3, <2>1 DEF WaiterCovered
  <2>3. ~Notify(a)
    BY <1>2, <2>2, Zenon DEF Notify
  <2> QED
    BY <2>2, <2>3, PendsStep
<1>4. CASE ~Terminal
  <2>1. state # "PendingAsyncio"
    BY <1>2 DEF StillInv
  <2>2. waiters > 0
    BY <1>2, NumberedSome, Zenon DEF IInv, TypeInv, Counted
  <2> QED
    BY <1>4, <2>1, <2>2, SettlingStep
<1> QED
  BY <1>3, <1>4

-----------------------------------------------------------------------------
(* Callbacks. *)

\* Where a registered callback is. CallbackAccounted is inductive once a callback
\* that was passed over is known not to fit a converted result: the kind of a raw
\* result is decided only by its conversion.
AccountedInv ==
  lost = {} => \A c \in registered :
    \/ c \in callbacks
    \/ \E a \in Actors : c \in mine[a]
    \/ fired[c] = 1
    \/ state = "Ready" /\ result \in Outcomes /\ ~Matches(KindOf[c], result)

\* Queued and taken callbacks are fired by a plan, so nothing else can happen.
LEMMA AccountedFired ==
  ASSUME IInv, AccountedInv
  PROVE  CallbackAccounted
<1>1. \A a \in Actors : mine[a] # {} => "fire" \in Range(todo[a])
  BY PlansContain DEF IInv, PlanInv
<1>2. callbacks # {} => state = "PendingTokio"
  BY Zenon DEF IInv, SettledInv
<1> QED
  BY <1>1, <1>2, Zenon DEF AccountedInv, CallbackAccounted

\* A step that leaves callbacks where they are.
LEMMA AccountedFrame ==
  ASSUME IInv, AccountedInv, Final, lost \subseteq lost',
         UNCHANGED <<callbacks, mine, fired, registered>>
  PROVE  AccountedInv'
<1>1. state = "Ready" /\ result \in Outcomes => state' = "Ready" /\ result' = result
  BY Zenon DEF Final, Terminal, Outcomes, Raw
<1> QED
  BY <1>1 DEF AccountedInv

\* A step that gives an actor without callbacks those that are queued.
LEMMA AccountedTake ==
  ASSUME IInv, AccountedInv, ~Terminal, lost \subseteq lost', UNCHANGED <<fired, registered>>,
         NEW a \in Actors, todo[a] = <<>>,
         NEW s, NEW n, NEW v, Continue(a, s, callbacks, n, v)
  PROVE  AccountedInv'
<1>1. \A b \in Actors : mine'[b] = IF b = a THEN callbacks ELSE mine[b]
  BY Zenon DEF Continue, IInv, TypeInv, TypeOK, JobTypes
<1>2. mine[a] = {}
  BY IdleOwnsNothing
<1> QED
  BY <1>1, <1>2, Zenon DEF AccountedInv, Terminal

\* Every step keeps every callback in its place.
LEMMA AccountedStep ==
  ASSUME IInv, AccountedInv, [Next]_vars
  PROVE  AccountedInv'
<1> USE AllActors
<1>0. Final /\ lost \subseteq lost'
  BY FinalStep, LostGrows
<1>1. ASSUME NEW t \in Threads, ThreadNext(t)
      PROVE  AccountedInv'
  <2>1. CASE \/ Start(t) \/ (\E timeout \in BOOLEAN : BlockUntilReady(t, timeout))
              \/ WaitWhile(t) \/ SpuriousWakeup(t) \/ Expire(t) \/ Recheck(t)
              \/ ReadResult(t) \/ Inspect(t)
    <3>1. UNCHANGED <<callbacks, mine, fired, registered>>
      BY <2>1, Zenon DEF Start, BlockUntilReady, WaitWhile, SpuriousWakeup, Expire, Recheck,
             ReadResult, Inspect, coreVars, jobVars, histVars
    <3> QED
      BY <1>0, <3>1, AccountedFrame
  <2>2. CASE \E c \in Callbacks : RegisterCallback(t, c)
    <3> PICK c \in Callbacks : RegisterCallback(t, c)
      BY <2>2
    <3>1. todo[t] = <<>> /\ registered' = registered \cup {c} /\ fired' = fired
      BY Zenon DEF RegisterCallback, Idle
    <3>2. CASE state = "Ready"
      <4>1. callbacks' = callbacks
        BY <3>2, Zenon DEF RegisterCallback, Terminal
      <4>2. PICK v : Continue(t, <<"fire">>, {c}, 0, v)
        BY <3>2, Zenon DEF RegisterCallback, Terminal
      <4>3. \A b \in Actors : mine'[b] = IF b = t THEN {c} ELSE mine[b]
        BY <4>2 DEF Continue, IInv, TypeInv, TypeOK, JobTypes
      <4>4. mine[t] = {}
        BY <3>1, IdleOwnsNothing
      <4>5. result \in Outcomes => state' = "Ready" /\ result' = result
        BY <1>0, <3>2 DEF Final, Terminal, Outcomes, Raw
      <4> QED
        BY <1>0, <3>1, <4>1, <4>3, <4>4, <4>5, Zenon DEF AccountedInv
    <3>3. CASE state # "Ready"
      <4>1. callbacks' = callbacks \cup {c} /\ mine' = mine
        BY <3>3, Zenon DEF RegisterCallback, jobVars
      <4> QED
        BY <1>0, <3>1, <3>3, <4>1, Zenon DEF AccountedInv
    <3> QED
      BY <3>2, <3>3
  <2>3. CASE \E exc \in Closings : CloseFuture(t, exc)
    <3> PICK exc \in Closings : CloseFuture(t, exc)
      BY <2>3, Zenon
    <3>1. ~Terminal /\ todo[t] = <<>> /\ UNCHANGED <<fired, registered>>
      BY DEF CloseFuture, Idle, histVars
    <3>2. state # "PendingTokio" => callbacks = {}
      BY Zenon DEF IInv, SettledInv
    <3>3. \E s, n, v : Continue(t, s, callbacks, n, v)
      BY <3>2, Zenon DEF CloseFuture
    <3> QED
      BY <1>0, <3>1, <3>3, AccountedTake, Zenon
  <2> QED
    BY <1>1, <2>1, <2>2, <2>3 DEF ThreadNext
<1>2. ASSUME NEW t \in Awaiters, AwaiterNext(t)
      PROVE  AccountedInv'
  <2>1. CASE YieldAsyncioFuture(t) \/ YieldPanics(t) \/ PollCoroutine(t)
    <3>1. UNCHANGED <<callbacks, mine, fired, registered>>
      BY <2>1, Zenon DEF YieldAsyncioFuture, YieldPanics, PollCoroutine, coreVars, jobVars,
         histVars
    <3> QED
      BY <1>0, <3>1, AccountedFrame
  <2>2. CASE ThrowInto(t)
    <3>1. todo[t] = <<>> /\ UNCHANGED <<fired, registered>>
      BY <2>2, Zenon DEF ThrowInto, histVars
    <3>2. CASE ~Terminal /\ state = "PendingTokio"
      <4>1. Continue(t, ThrowSteps, callbacks, waiters, "thrown")
        BY <2>2, <3>2, Zenon DEF ThrowInto
      <4> QED
        BY <1>0, <3>1, <3>2, <4>1, AccountedTake, Zenon
    <3>3. CASE ~(~Terminal /\ state = "PendingTokio")
      <4>1. callbacks' = callbacks /\ mine' = mine
        BY <2>2, <3>3, Zenon DEF ThrowInto, Settle, jobVars, IInv, SettledInv
      <4> QED
        BY <1>0, <3>1, <4>1, AccountedFrame
    <3> QED
      BY <3>2, <3>3
  <2> QED
    BY <1>2, <2>1, <2>2 DEF AwaiterNext
<1>3. ASSUME NEW t \in Callers, Refused(t)
      PROVE  AccountedInv'
  BY <1>0, <1>3, AccountedFrame DEF Refused, coreVars, jobVars
<1>4. ASSUME NEW a \in Actors, ActorNext(a)
      PROVE  AccountedInv'
  <2>1. CASE Notify(a)
    BY <1>0, <2>1, AccountedFrame DEF Notify, coreVars, histVars
  <2>2. CASE Convert(a)
    <3>1. UNCHANGED <<callbacks, fired, registered>>
      BY <2>2, Zenon DEF Convert, histVars
    <3>2. mine' = mine
      BY <2>2, Zenon DEF Convert, Continue, IInv, TypeInv, TypeOK, JobTypes
    <3> QED
      BY <1>0, <3>1, <3>2, AccountedFrame, Zenon
  <2>3. CASE Fire(a)
    <3>1. UNCHANGED <<state, result, callbacks, registered, lost>>
      BY <2>3 DEF Fire, coreVars
    <3>2. CASE mine[a] = {}
      <4>1. UNCHANGED <<mine, fired>>
        BY <2>3, <3>2, Zenon DEF Fire
      <4> QED
        BY <1>0, <3>1, <4>1, AccountedFrame
    <3>3. CASE mine[a] # {}
      <4>1. PICK c \in mine[a] : /\ mine' = [mine EXCEPT ![a] = mine[a] \ {c}]
                                 /\ IF Matches(KindOf[c], val[a])
                                    THEN fired' = [fired EXCEPT ![c] = fired[c] + 1]
                                    ELSE fired' = fired
        BY <2>3, <3>3, Zenon DEF Fire
      <4>2. val[a] = result /\ val[a] \in Outcomes /\ state = "Ready"
        BY <2>3, <3>3, FiringPlan, Zenon DEF Fire
      <4>3. fired[c] = 0 /\ c \in Callbacks /\ c \in registered
        BY Zenon DEF IInv, OwnInv, TypeInv, TypeOK, JobTypes
      <4> fired \in [Callbacks -> Nat] /\ registered \subseteq Callbacks
        BY Zenon DEF IInv, TypeInv, TypeOK, HistTypes
      <4>4. \A b \in Actors : mine'[b] = IF b = a THEN mine[a] \ {c} ELSE mine[b]
        BY <4>1 DEF IInv, TypeInv, TypeOK, JobTypes
      <4>5. \A d \in Callbacks : d # c => fired'[d] = fired[d]
        BY <4>1, Zenon
      <4>6. fired'[c] = 1 \/ ~Matches(KindOf[c], result)
        BY <4>1, <4>2, <4>3
      <4>7. ASSUME lost = {}, NEW d \in registered
            PROVE  \/ d \in callbacks
                   \/ \E b \in Actors : d \in mine'[b]
                   \/ fired'[d] = 1
                   \/ ~Matches(KindOf[d], result)
        <5>1. CASE d = c
          BY <4>6, <5>1, Zenon
        <5>2. CASE d # c
          BY <4>4, <4>5, <4>7, <5>2 DEF AccountedInv
        <5> QED
          BY <5>1, <5>2, Zenon
      <4> QED
        BY <3>1, <4>2, <4>7, Zenon DEF AccountedInv
    <3> QED
      BY <3>2, <3>3, Zenon
  <2>4. CASE Wake(a)
    <3>1. UNCHANGED <<callbacks, fired, registered>>
      BY <2>4, Zenon DEF Wake, coreVars
    <3>2. CASE slotPoisoned
      BY <2>4, <3>2, Zenon DEF Wake, AccountedInv
    <3>3. CASE ~slotPoisoned
      BY <1>0, <2>4, <3>1, <3>3, AccountedFrame DEF Wake
    <3> QED
      BY <3>2, <3>3
  <2> QED
    BY <1>4, <2>1, <2>2, <2>3, <2>4, Zenon DEF ActorNext
<1>5. CASE EnvNext
  <2>1. CASE \/ InnerReady \/ StaleWake \/ Drain \/ TaskPoll \/ PoolStart
              \/ Shutdown \/ Stopped
    <3>1. UNCHANGED <<callbacks, mine, fired, registered>>
      BY <2>1, Zenon DEF InnerReady, StaleWake, Drain, TaskPoll, PoolStart, Shutdown,
             Stopped, coreVars, jobVars, histVars
    <3> QED
      BY <1>0, <3>1, AccountedFrame
  <2>2. CASE TaskComplete
    <3>1. UNCHANGED <<fired, registered>>
      BY <2>2, Zenon DEF TaskComplete
    <3>2. CASE ~StillPending
      BY <1>0, <2>2, <3>1, <3>2, AccountedFrame DEF TaskComplete, coreVars, jobVars
    <3>3. CASE StillPending /\ lost' = lost \cup {"job"}
      BY <3>3, Zenon DEF AccountedInv
    <3>4. CASE StillPending /\ lost' # lost \cup {"job"}
      <4>1. todo["task"] = <<>> /\ todo["pool"] = <<>>
        BY <2>2, Zenon DEF TaskComplete, IInv, SettledInv
      <4>2. PICK b \in {"task", "pool"} :
              Continue(b, FireAndNotify(callbacks), callbacks, waiters, "none")
        BY <2>2, <3>4 DEF TaskComplete
      <4> QED
        BY <1>0, <3>1, <3>4, <4>1, <4>2, AccountedTake, Zenon DEF StillPending, Terminal
    <3> QED
      BY <3>2, <3>3, <3>4, Zenon
  <2>3. CASE TaskDrop
    <3>1. UNCHANGED <<fired, registered>>
      BY <2>3, Zenon DEF TaskDrop
    <3>2. CASE task = "polled" /\ StillPending
      <4>1. todo["task"] = <<>>
        BY <3>2, Zenon DEF IInv, SettledInv
      <4>2. Continue("task", FireAndNotify(callbacks), callbacks, waiters, "none")
        BY <2>3, <3>2, Zenon DEF TaskDrop
      <4> QED
        BY <1>0, <3>1, <3>2, <4>1, <4>2, AccountedTake, Zenon DEF StillPending, Terminal
    <3>3. CASE ~(task = "polled" /\ StillPending)
      BY <1>0, <2>3, <3>1, <3>3, AccountedFrame, Zenon DEF TaskDrop, coreVars, jobVars
    <3> QED
      BY <3>2, <3>3, Zenon
  <2>4. CASE PoolDrop
    BY <2>4, Zenon DEF PoolDrop, AccountedInv
  <2> QED
    BY <1>5, <2>1, <2>2, <2>3, <2>4 DEF EnvNext
<1>6. CASE UNCHANGED vars
  BY <1>0, <1>6, AccountedFrame, Zenon DEF vars, coreVars, jobVars, histVars
<1> QED
  BY <1>1, <1>2, <1>3, <1>4, <1>5, <1>6 DEF Next

-----------------------------------------------------------------------------
(* A single awaiter. *)

\* At most one asyncio task awaits the future. With two, the one wake of a completion may
\* go to the first before the second, which found the future pending, has parked: the run
\* df_two_awaiters shows the second stay parked.
OneAwaiter == \A t, u \in Awaiters : t = u

\* The future an awaiter is parked on is in the slot until a wake takes it, and
\* the slot of a pending future holds no other. An awaiter about to take the slot
\* finds no future there. An awaiter of a future that is not started polled it.
SlotInv ==
  \A t \in Awaiters :
    /\ pc[t] = "parked" => fut[t] \in Futs /\ fut[t] \in doneFuts \cup batch \cup {slot}
    /\ pc[t] = "yield" => slot \notin Futs
    /\ state = "PendingAsyncio" => pc[t] # "yield" /\ (pc[t] # "idle" => polled)
    /\ ~Terminal /\ slot \in Futs => /\ pc[t] = "parked" /\ fut[t] = slot
                                     /\ slot \notin doneFuts \cup batch

\* A step of somebody else.
LEMMA SlotFrame ==
  ASSUME SlotInv, UNCHANGED <<fut, slot, batch, doneFuts, polled>>,
         \A t \in Awaiters : pc'[t] = pc[t],
         Terminal => Terminal', state' = "PendingAsyncio" => state = "PendingAsyncio"
  PROVE  SlotInv'
BY Zenon DEF SlotInv

\* A wake.
LEMMA SlotTaken ==
  ASSUME IInv, SlotInv, TakeParked, UNCHANGED <<state, pc, fut, doneFuts, polled>>
  PROVE  SlotInv' /\ slot' \notin Futs /\ batch \subseteq batch'
<1>1. slot' \notin Futs /\ batch \subseteq batch'
  BY FutsAssumption, Zenon DEF TakeParked
<1>2. slot \in Futs => slot \in batch'
  BY Zenon DEF TakeParked
<1>3. ASSUME NEW t \in Awaiters, pc[t] = "parked"
      PROVE  fut[t] \in Futs /\ fut[t] \in doneFuts \cup batch'
  BY <1>1, <1>2, <1>3, Zenon DEF SlotInv
<1> QED
  BY <1>1, <1>3, Zenon DEF SlotInv

\* Every step keeps it.
LEMMA SlotStep ==
  ASSUME OneAwaiter, IInv, StillInv, SlotInv, [Next]_vars
  PROVE  SlotInv'
<1> USE AllActors, Apart
<1> pc \in [Actors -> PcValues] /\ fut \in [Awaiters -> Futs \cup {"none"}]
  BY DEF IInv, TypeInv, TypeOK, ActorTypes
<1>0. Terminal => Terminal'
  BY FinalStep, Zenon DEF Final, Terminal
<1>1. ASSUME NEW x \in Threads, ThreadNext(x)
      PROVE  SlotInv'
  <2>1. UNCHANGED <<fut, slot, batch, doneFuts, polled>>
    BY <1>1, Zenon DEF ThreadNext, Start, RegisterCallback, BlockUntilReady, WaitWhile,
           SpuriousWakeup, Expire, Recheck, ReadResult, Inspect, CloseFuture, wakerVars
  <2>2. \A t \in Awaiters : pc'[t] = pc[t]
    BY <1>1, Zenon DEF ThreadNext, Start, RegisterCallback, BlockUntilReady, WaitWhile,
           SpuriousWakeup, Expire, Recheck, ReadResult, Inspect, CloseFuture
  <2>3. state' = "PendingAsyncio" => state = "PendingAsyncio"
    BY <1>1, Zenon DEF ThreadNext, Start, RegisterCallback, BlockUntilReady, WaitWhile,
           SpuriousWakeup, Expire, Recheck, ReadResult, Inspect, CloseFuture, Settle,
           EnsureStarted, coreVars
  <2> QED
    BY <1>0, <2>1, <2>2, <2>3, SlotFrame
<1>2. ASSUME NEW t \in Awaiters, AwaiterNext(t)
      PROVE  SlotInv'
  <2>0. Awaiters = {t}
    BY Zenon DEF OneAwaiter
  <2>1. CASE PollCoroutine(t)
    <3>1. CASE state = "Ready"
      <4>1. state' = "Ready" /\ pc'[t] = "idle"
        BY <2>1, <3>1, Zenon DEF PollCoroutine
      <4> QED
        BY <2>0, <4>1, Zenon DEF SlotInv, Terminal
    <3>2. CASE state = "PendingTokio"
      <4>1. state' = state /\ pc'[t] = "yield" /\ slot' = slot
        BY <2>1, <3>2, Zenon DEF PollCoroutine, YieldUnlocked
      <4>2. slot \in Futs => pc[t] = "parked" /\ fut[t] \notin doneFuts
        BY <3>2, Zenon DEF SlotInv, Terminal
      <4>3. slot \notin Futs
        BY <2>1, <4>2, Zenon DEF PollCoroutine, Idle, Resumable
      <4> QED
        BY <2>0, <3>2, <4>1, <4>3, Zenon DEF SlotInv
    <3>3. CASE state = "PendingAsyncio"
      <4>1. polled' /\ slot' = "Idle" /\ pc'[t] \in {"idle", "park"}
        BY <2>1, <3>3, Zenon DEF PollCoroutine
      <4> QED
        BY <2>0, <4>1, FutsAssumption, Zenon DEF SlotInv
    <3> QED
      BY <2>1, <3>1, <3>2, <3>3, Zenon DEF PollCoroutine
  <2>2. CASE YieldAsyncioFuture(t)
    <3>0. /\ pc[t] \in {"yield", "park"} /\ polled' = polled /\ batch' = batch
          /\ state' = state \/ state' = "Panicked"
      BY <2>2 DEF YieldAsyncioFuture
    <3>1. pc[t] = "park" => state = "PendingAsyncio"
      BY Zenon DEF IInv, ParkInv
    <3>2. slot \notin Futs
      BY <3>0, <3>1, Zenon DEF SlotInv, Terminal
    <3>3. state' = "PendingAsyncio" => polled' /\ pc'[t] # "yield"
      BY <2>2, <3>0 DEF SlotInv, YieldAsyncioFuture
    <3>4. CASE slot' \notin Futs /\ pc'[t] \in {"yielded", "idle"}
      BY <2>0, <3>3, <3>4 DEF SlotInv
    <3>5. CASE /\ FreeFuts # {} /\ slot' = FreshFut /\ doneFuts' = doneFuts \ {slot, FreshFut}
               /\ fut' = [fut EXCEPT ![t] = FreshFut] /\ pc' = [pc EXCEPT ![t] = "parked"]
      <4>1. FreshFut \in Futs /\ FreshFut \notin batch
        BY <3>5, Zenon DEF FreshFut, FreeFuts
      <4>2. slot' = fut'[t] /\ slot' \in Futs /\ slot' \notin doneFuts' /\ slot' \notin batch'
        BY <3>0, <3>5, <4>1, Zenon
      <4>3. pc'[t] = "parked"
        BY <3>5, Zenon
      <4> QED
        BY <2>0, <3>3, <4>2, <4>3, Zenon DEF SlotInv
    <3>6. doneFuts \subseteq Futs
      BY Zenon DEF IInv, TypeInv, TypeOK, WakerTypes
    <3> QED
      BY <2>2, <3>2, <3>4, <3>5, <3>6, FutsAssumption, Zenon DEF YieldAsyncioFuture
  <2>3. CASE YieldPanics(t)
    <3>1. pc'[t] = "idle" /\ UNCHANGED <<state, fut, slot, batch, doneFuts, polled>>
      BY <2>3, Zenon DEF YieldPanics, coreVars, wakerVars
    <3>2. pc[t] = "yield"
      BY <2>3, Zenon DEF YieldPanics
    <3> QED
      BY <2>0, <3>1, <3>2, Zenon DEF SlotInv
  <2>4. CASE ThrowInto(t)
    <3>1. pc'[t] = "idle" /\ Terminal'
      BY <1>0, <2>4 DEF ThrowInto, Settle, Terminal
    <3>2. state' # "PendingAsyncio"
      BY <3>1, Zenon DEF Terminal
    <3> QED
      BY <2>0, <3>1, <3>2, Zenon DEF SlotInv
  <2> QED
    BY <1>2, <2>1, <2>2, <2>3, <2>4 DEF AwaiterNext
<1>3. ASSUME NEW x \in Callers, Refused(x)
      PROVE  SlotInv'
  <2>1. Terminal
    BY <1>3, Zenon DEF Refused, StillInv, Terminal
  <2>2. UNCHANGED <<state, slot, batch, doneFuts, polled>>
    BY <1>3, Zenon DEF Refused, coreVars, wakerVars
  <2>3. \A t \in Awaiters : pc'[t] = "idle" \/ (pc'[t] = pc[t] /\ fut'[t] = fut[t])
    BY <1>3, Zenon DEF Refused
  <2> QED
    BY <2>1, <2>2, <2>3, Zenon DEF SlotInv, Terminal
<1>4. ASSUME NEW a \in Actors, ActorNext(a)
      PROVE  SlotInv'
  <2>1. CASE Convert(a) \/ Fire(a)
    BY <1>0, <2>1, SlotFrame, Zenon DEF Convert, Fire, coreVars, wakerVars
  <2>2. CASE Notify(a)
    <3>1. UNCHANGED <<state, fut, slot, batch, doneFuts, polled>>
      BY <2>2, Zenon DEF Notify, coreVars, wakerVars
    <3>2. \A t \in Awaiters : pc'[t] = pc[t] \/ (pc[t] = "waiting" /\ pc'[t] = "woken")
      BY <2>2, NotifyMoves
    <3> QED
      BY <3>1, <3>2, Zenon DEF SlotInv, Terminal
  <2>3. CASE Wake(a)
    <3>1. UNCHANGED <<state, pc, fut, doneFuts, polled>>
      BY <2>3, Zenon DEF Wake, coreVars
    <3>2. CASE slotPoisoned
      BY <1>0, <2>3, <3>1, <3>2, SlotFrame, Zenon DEF Wake
    <3>3. CASE ~slotPoisoned
      BY <2>3, <3>1, <3>3, SlotTaken DEF Wake
    <3> QED
      BY <3>2, <3>3, Zenon
  <2> QED
    BY <1>4, <2>1, <2>2, <2>3 DEF ActorNext
<1>5. CASE EnvNext
  <2>1. CASE InnerReady \/ StaleWake
    <3>1. UNCHANGED <<state, pc, fut, doneFuts, polled>>
      BY <2>1, Zenon DEF InnerReady, StaleWake, coreVars
    <3>2. CASE UNCHANGED <<slot, batch>>
      BY <1>0, <3>1, <3>2, SlotFrame, Zenon
    <3>3. CASE TakeParked
      BY <3>1, <3>3, SlotTaken, Zenon
    <3> QED
      BY <2>1, <3>2, <3>3, Zenon DEF InnerReady, StaleWake
  <2>2. CASE Drain
    <3>1. UNCHANGED <<state, pc, fut, slot, polled>> /\ batch' = {}
      BY <2>2, Zenon DEF Drain, coreVars
    <3>2. \A f : f \in doneFuts' <=> /\ f \in doneFuts \cup batch
                                     /\ f = slot \/ \E t \in Awaiters : fut[t] = f
      BY <2>2, <3>1, Zenon DEF Drain, KeepDone
    <3> QED
      BY <3>1, <3>2, Zenon DEF SlotInv, Terminal
  <2>3. CASE TaskPoll \/ TaskComplete \/ TaskDrop \/ PoolStart \/ PoolDrop \/ Shutdown \/ Stopped
    <3>1. UNCHANGED <<fut, slot, batch, doneFuts, polled>>
      BY <2>3, Zenon DEF TaskPoll, TaskComplete, TaskDrop, PoolStart, PoolDrop, Shutdown,
         Stopped,
             wakerVars
    <3>2. \A t \in Awaiters : pc'[t] = pc[t]
      BY <2>3, Zenon DEF TaskPoll, TaskComplete, TaskDrop, PoolStart, PoolDrop, Shutdown,
         Stopped
    <3>3. state' = "PendingAsyncio" => state = "PendingAsyncio"
      BY <2>3, Zenon DEF TaskPoll, TaskComplete, TaskDrop, PoolStart, PoolDrop, Shutdown,
         Stopped,
             Settle, coreVars
    <3> QED
      BY <1>0, <3>1, <3>2, <3>3, SlotFrame
  <2> QED
    BY <1>5, <2>1, <2>2, <2>3, Zenon DEF EnvNext
<1>6. CASE UNCHANGED vars
  BY <1>0, <1>6, SlotFrame DEF vars, coreVars, wakerVars
<1> QED
  BY <1>1, <1>2, <1>3, <1>4, <1>5, <1>6 DEF Next

\* On a settled future an awaiter can still park; else it stays where it is, its
\* future stays done or queued, and a recorded wake stays recorded.
LEMMA AwaiterStays ==
  ASSUME OneAwaiter, IInv, StillInv, [Next]_vars, Terminal,
         NEW t \in Awaiters, pc'[t] \in {"parked", "yield"}
  PROVE  \/ pc[t] = "yield" /\ pc'[t] = "parked" /\ slot # "Woken" /\ ~slotPoisoned
         \/ /\ pc'[t] = pc[t] /\ fut'[t] = fut[t]
            /\ fut[t] \in doneFuts \cup batch => fut[t] \in doneFuts' \cup batch'
            /\ slot = "Woken" => slot' = "Woken"
            /\ slotPoisoned' = slotPoisoned
<1> USE AllActors, Apart
<1> pc \in [Actors -> PcValues] /\ fut \in [Awaiters -> Futs \cup {"none"}]
  BY Zenon DEF IInv, TypeInv, TypeOK, ActorTypes
<1> DEFINE Stays == /\ pc'[t] = pc[t] /\ fut'[t] = fut[t]
                    /\ fut[t] \in doneFuts \cup batch => fut[t] \in doneFuts' \cup batch'
                    /\ slot = "Woken" => slot' = "Woken"
                    /\ slotPoisoned' = slotPoisoned
<1>1. ASSUME NEW x \in Threads, ThreadNext(x)
      PROVE  Stays
  <2>1. UNCHANGED <<fut, slot, batch, doneFuts, slotPoisoned>>
    BY <1>1, Zenon DEF ThreadNext, Start, RegisterCallback, BlockUntilReady, WaitWhile,
           SpuriousWakeup, Expire, Recheck, ReadResult, Inspect, CloseFuture, wakerVars
  <2>2. pc'[t] = pc[t]
    BY <1>1, Zenon DEF ThreadNext, Start, RegisterCallback, BlockUntilReady, WaitWhile,
           SpuriousWakeup, Expire, Recheck, ReadResult, Inspect, CloseFuture
  <2> QED
    BY <2>1, <2>2
<1>2. ASSUME NEW x \in Awaiters, AwaiterNext(x)
      PROVE  pc[t] = "yield" /\ pc'[t] = "parked" /\ slot # "Woken" /\ ~slotPoisoned
  <2>0. x = t
    BY DEF OneAwaiter
  <2>1. YieldAsyncioFuture(t)
    BY <1>2, <2>0, Zenon DEF AwaiterNext, PollCoroutine, YieldPanics, ThrowInto, Terminal
  <2>2. pc[t] # "park"
    BY Zenon DEF IInv, ParkInv, Terminal
  <2>3. slot = "Woken" => slot \notin Futs /\ slot \notin doneFuts
    BY FutsAssumption, Zenon DEF IInv, TypeInv, TypeOK, WakerTypes
  <2> QED
    BY <2>1, <2>2, <2>3 DEF YieldAsyncioFuture
<1>3. ASSUME NEW x \in Callers, Refused(x)
      PROVE  Stays
  <2>1. x # t
    BY <1>3, Zenon DEF Refused
  <2> QED
    BY <1>3, <2>1, Zenon DEF Refused, wakerVars
<1>4. ASSUME TakeParked, UNCHANGED <<pc, fut, doneFuts, slotPoisoned>>
      PROVE  Stays
  BY <1>4, FutsAssumption, Zenon DEF TakeParked
<1>5. ASSUME NEW a \in Actors, ActorNext(a)
      PROVE  Stays
  <2>1. CASE Convert(a) \/ Fire(a)
    BY <2>1, Zenon DEF Convert, Fire, wakerVars
  <2>2. CASE Notify(a)
    BY <2>2, NotifyMoves, Zenon DEF Notify, wakerVars
  <2>3. CASE Wake(a)
    BY <1>4, <2>3, Zenon DEF Wake
  <2> QED
    BY <1>5, <2>1, <2>2, <2>3 DEF ActorNext
<1>6. CASE EnvNext
  <2>1. CASE InnerReady \/ StaleWake
    BY <1>4, <2>1, Zenon DEF InnerReady, StaleWake
  <2>2. CASE Drain
    <3>1. UNCHANGED <<pc, fut, slot, slotPoisoned>>
      BY <2>2, Zenon DEF Drain
    <3>2. fut[t] \in doneFuts \cup batch => fut[t] \in doneFuts'
      BY <2>2, <3>1, Zenon DEF Drain, KeepDone
    <3> QED
      BY <3>1, <3>2, Zenon
  <2>3. CASE TaskPoll \/ TaskComplete \/ TaskDrop \/ PoolStart \/ PoolDrop \/ Shutdown \/ Stopped
    <3>1. UNCHANGED <<fut, slot, batch, doneFuts, slotPoisoned>>
      BY <2>3, Zenon DEF TaskPoll, TaskComplete, TaskDrop, PoolStart, PoolDrop, Shutdown,
         Stopped,
             wakerVars
    <3>2. pc'[t] = pc[t]
      BY <2>3, Zenon DEF TaskPoll, TaskComplete, TaskDrop, PoolStart, PoolDrop, Shutdown,
         Stopped
    <3> QED
      BY <3>1, <3>2
  <2> QED
    BY <1>6, <2>1, <2>2, <2>3 DEF EnvNext
<1>7. CASE UNCHANGED vars
  BY <1>7, Zenon DEF vars, wakerVars
<1> QED
  BY <1>1, <1>2, <1>3, <1>5, <1>6, <1>7, Zenon DEF Next

\* Every step keeps the awaiter covered.
LEMMA AwaiterStep ==
  ASSUME OneAwaiter, IInv, StillInv, SlotInv, SlotInv', AwaiterCovered, [Next]_vars
  PROVE  AwaiterCovered'
<1> SUFFICES ASSUME NEW t \in Awaiters, Terminal', lost' = {}
             PROVE  /\ pc'[t] = "parked" =>
                         \/ fut'[t] \in doneFuts' \cup batch'
                         \/ fut'[t] = slot' /\ \E a \in Actors : "wake" \in Range(todo'[a])
                    /\ pc'[t] = "yield" =>
                         \/ slot' = "Woken" \/ slotPoisoned'
                         \/ \E a \in Actors : "wake" \in Range(todo'[a])
  BY Zenon DEF AwaiterCovered, Pends
<1> USE AllActors
<1>1. pc'[t] = "parked" => fut'[t] \in Futs /\ fut'[t] \in doneFuts' \cup batch' \cup {slot'}
  BY Zenon DEF SlotInv
<1>2. CASE ~Terminal
  <2>1. \/ \E a \in Actors : "wake" \in Range(todo'[a])
        \/ pc'[t] \notin {"parked", "yield"}
    <3>1. CASE state = "PendingTokio"
      BY <1>2, <3>1, SettlingStep
    <3>2. CASE state = "PendingAsyncio" /\ \E u \in Awaiters : pc'[u] = "idle"
      BY <3>2 DEF OneAwaiter
    <3>3. CASE /\ state = "PendingAsyncio" /\ pc' = pc
               /\ polled => \E a \in Actors : "wake" \in Range(todo'[a])
      BY <3>3, Zenon DEF SlotInv
    <3> QED
      BY <1>2, <3>1, <3>2, <3>3, SettlingStep, Zenon
  <2> QED
    BY <1>1, <2>1, Zenon
<1>3. CASE Terminal /\ pc'[t] \in {"parked", "yield"}
  <2>1. lost = {}
    BY LostGrows
  <2>2. \/ pc[t] = "yield" /\ pc'[t] = "parked" /\ slot # "Woken" /\ ~slotPoisoned
        \/ /\ pc'[t] = pc[t] /\ fut'[t] = fut[t]
           /\ fut[t] \in doneFuts \cup batch => fut[t] \in doneFuts' \cup batch'
           /\ slot = "Woken" => slot' = "Woken"
           /\ slotPoisoned' = slotPoisoned
    BY <1>3, AwaiterStays, Zenon
  <2>3. CASE \E a \in Actors : Pends(a, "wake")
    <3>1. PICK a \in Actors : Pends(a, "wake")
      BY <2>3, Zenon
    <3>2. CASE "wake" \in Range(todo'[a])
      BY <1>1, <3>2, Zenon
    <3>3. CASE Wake(a) /\ ~slotPoisoned
      <4>1. TakeParked /\ UNCHANGED <<state, pc, fut, doneFuts, polled>>
        BY <3>3, Zenon DEF Wake, coreVars
      <4>2. slot' \notin Futs
        BY <4>1, SlotTaken, Zenon
      <4>3. pc[t] = "yield" => slot' = "Woken"
        BY <4>1, Zenon DEF SlotInv, TakeParked
      <4> QED
        BY <1>1, <4>1, <4>2, <4>3, Zenon
    <3> QED
      BY <3>1, <3>2, <3>3, PendsStep, Zenon
  <2>4. CASE ~\E a \in Actors : Pends(a, "wake")
    <3>1. /\ pc[t] = "parked" => fut[t] \in doneFuts \cup batch
          /\ pc[t] = "yield" => slot = "Woken" \/ slotPoisoned
      BY <1>3, <2>1, <2>4 DEF AwaiterCovered
    <3> QED
      BY <1>3, <2>2, <3>1, Zenon
  <2> QED
    BY <2>3, <2>4
<1> QED
  BY <1>2, <1>3

-----------------------------------------------------------------------------
(* The theorems. *)

\* Whatever the interleaving, only the shutdown of the runtime or a poisoned waker
\* slot makes a completion go missing.
THEOREM NothingElseLost == Spec => []LostOnlyAtShutdown
<1>1. Init => StillInv /\ LostOnlyAtShutdown
  BY AllActors DEF Init, StillInv, LostOnlyAtShutdown
<1>2. IInv /\ StillInv /\ LostOnlyAtShutdown /\ [Next]_vars => (StillInv /\ LostOnlyAtShutdown)'
  BY StillStep, LossStep
<1> QED
  BY Invariance, <1>1, <1>2, PTL DEF Spec

\* A panic while parking leaves no thread, no callback and no task behind.
THEOREM PanicLeavesNobody == Spec => []PanicIsolated
<1>1. Init => StillInv
  BY AllActors DEF Init, StillInv
<1>2. IInv /\ StillInv /\ [Next]_vars => StillInv'
  BY StillStep
<1>3. IInv /\ StillInv => PanicIsolated
  <2> SUFFICES ASSUME IInv, StillInv, state = "Panicked" PROVE PanicIsolated
    BY DEF PanicIsolated
  <2>1. Counted = {}
    BY DEF StillInv, Counted
  <2>2. waiters = 0
    BY <2>1, NumberedNone, Zenon DEF IInv, TypeInv
  <2>3. callbacks = {}
    BY Zenon DEF IInv, SettledInv
  <2> QED
    BY <2>2, <2>3 DEF StillInv, PanicIsolated
<1> QED
  BY Invariance, <1>1, <1>2, <1>3, PTL DEF Spec

\* For any number of threads, none is left blocked on a settled future without a
\* notification to come.
THEOREM WaitersCovered == Spec => []WaiterCovered
<1>1. Init => StillInv /\ WaiterCovered
  BY AllActors, Zenon DEF Init, StillInv, WaiterCovered
<1>2. IInv /\ StillInv /\ WaiterCovered /\ [Next]_vars => (StillInv /\ WaiterCovered)'
  BY StillStep, WaiterStep
<1> QED
  BY Invariance, <1>1, <1>2, PTL DEF Spec

\* For any callbacks and any race to settle the future, none is forgotten.
THEOREM CallbacksAccounted == Spec => []CallbackAccounted
<1>1. Init => AccountedInv
  BY DEF Init, AccountedInv
<1>2. IInv /\ AccountedInv /\ [Next]_vars => AccountedInv'
  BY AccountedStep
<1>3. IInv /\ AccountedInv => CallbackAccounted
  BY AccountedFired
<1> QED
  BY Invariance, <1>1, <1>2, <1>3, PTL DEF Spec

\* A future awaited by one asyncio task, whatever threads and the runtime do with
\* it, does not leave that task parked without a wake to come.
THEOREM AwaitersCovered ==
  ASSUME OneAwaiter
  PROVE  Spec => []AwaiterCovered
<1>1. Init => StillInv /\ SlotInv /\ AwaiterCovered
  BY AllActors, FutsAssumption DEF Init, StillInv, SlotInv, AwaiterCovered
<1>2. IInv /\ StillInv /\ SlotInv /\ AwaiterCovered /\ [Next]_vars
        => (StillInv /\ SlotInv /\ AwaiterCovered)'
  BY StillStep, SlotStep, AwaiterStep, OneAwaiter
<1> QED
  BY Invariance, <1>1, <1>2, PTL DEF Spec
=============================================================================

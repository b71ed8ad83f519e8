----------------------- MODULE DriverFutureInvariance -----------------------
(***************************************************************************)
(* IInv, the inductive invariant the theorems about DriverFuture rest on:  *)
(* every step from it keeps the types, the count of waiters exact, parking *)
(* under the mutex, and results, callbacks and the task in agreement. Then *)
(* the safety theorems it gives; a settled future is final, and            *)
(* DriverFuture implements Promise.                                        *)
(***************************************************************************)
EXTENDS DriverFuture, TLAPS

\* Threads that wait_while counted in waiters and that have not left it.
Counted == {t \in Threads : pc[t] \in {"waiting", "woken", "expired"}}

\* S has n members: f numbers them from 1 to n.
Numbering(f, S, n) ==
  /\ f \in [S -> 1..n]
  /\ \A s, t \in S : f[s] = f[t] => s = t
  /\ \A i \in 1..n : \E s \in S : f[s] = i
Numbered(S, n) == n \in Nat /\ \E f : Numbering(f, S, n)

\* TypeOK is inductive once waiters is known to count exactly those threads:
\* that is why the decrement in wait_while cannot go below zero.
TypeInv == TypeOK /\ Numbered(Counted, waiters)

\* An awaiter that parks holds the mutex of a future that is not started.
ParkInv == \A t \in Awaiters : pc[t] = "park" => lock = t /\ state = "PendingAsyncio"

\* A result exists exactly in Ready, callbacks are queued only in PendingTokio,
\* and nothing is left to do for a task that is not gone.
SettledInv == /\ state = "Ready" <=> result # "none"
              /\ callbacks # {} => state = "PendingTokio"
              /\ state = "PendingAsyncio" => task = "none"
              /\ task # "gone" => todo["task"] = <<>> /\ todo["pool"] = <<>>

\* What an actor can have left to do: with callbacks to fire, with the result
\* still to read first, or neither.
FirePlans == {<<"fire">>, <<"wake", "fire">>, <<"notify", "wake", "fire">>,
              <<"notify", "fire">>, <<"wake", "notify", "fire">>,
              <<"fire", "wake", "notify">>}
ConvertPlan == <<"convert", "fire", "wake", "notify">>
OtherPlans == {<<>>, <<"wake">>, <<"notify">>, <<"wake", "notify">>}

\* Whoever took callbacks is going to fire them, with the result of the future.
PlanInv ==
  \A a \in Actors :
    /\ todo[a] \in FirePlans \cup {ConvertPlan} \cup OtherPlans
    /\ mine[a] # {} => state = "Ready" /\ todo[a] \in FirePlans \cup {ConvertPlan}
    /\ mine[a] # {} /\ todo[a] \in FirePlans => val[a] = result /\ val[a] \in Outcomes

\* A callback is in one place: not registered, queued, taken by one actor, or done.
OwnInv ==
  /\ CallbackOnce
  /\ \A c \in Callbacks \ registered : fired[c] = 0
  /\ \A c \in callbacks : c \in registered /\ fired[c] = 0
  /\ \A a \in Actors : \A c \in mine[a] :
       /\ c \in registered /\ fired[c] = 0 /\ c \notin callbacks
       /\ \A b \in Actors : c \in mine[b] => b = a

IInv == TypeInv /\ ParkInv /\ SettledInv /\ PlanInv /\ OwnInv /\ OneOutcome

-----------------------------------------------------------------------------
\* Threads, awaiters, the task, the pool and the free mutex are told apart.
LEMMA Apart ==
  /\ \A t \in Threads : t \notin Awaiters /\ t # "task" /\ t # "pool" /\ t # "free"
  /\ \A t \in Awaiters : t \notin Threads /\ t # "task" /\ t # "pool" /\ t # "free"
BY ActorsAssumption, Zenon DEF Callers

\* They are the actors.
LEMMA AllActors ==
  /\ Threads \subseteq Actors /\ Awaiters \subseteq Actors /\ Callers \subseteq Actors
  /\ "task" \in Actors /\ "pool" \in Actors
  /\ Threads \subseteq Callers /\ Awaiters \subseteq Callers
BY DEF Actors, Callers

-----------------------------------------------------------------------------
(* The plans. *)

\* Plans are sequences of steps.
LEMMA PlansTyped == FirePlans \cup {ConvertPlan} \cup OtherPlans \subseteq Seq(Steps)
<1>1. ConvertPlan \in Seq(Steps)
  BY DEF ConvertPlan, Steps
<1>2. FirePlans \subseteq Seq(Steps)
  BY DEF FirePlans, Steps
<1>3. OtherPlans \subseteq Seq(Steps)
  BY DEF OtherPlans, Steps
<1> QED
  BY <1>1, <1>2, <1>3

\* What fire_and_notify does is a plan that reads the result before it fires.
LEMMA FireAndNotifyPlan ==
  ASSUME NEW cbs
  PROVE  /\ cbs # {} => FireAndNotify(cbs) = ConvertPlan
         /\ cbs = {} => FireAndNotify(cbs) \in OtherPlans
BY Zenon DEF FireAndNotify, ConvertPlan, OtherPlans

\* What is left of a plan after its first step is a plan, and still fires the
\* callbacks unless the step was the firing.
LEMMA PlanTail ==
  ASSUME NEW s \in FirePlans \cup {ConvertPlan} \cup OtherPlans, s # <<>>
  PROVE  /\ Tail(s) \in FirePlans \cup OtherPlans
         /\ s = ConvertPlan <=> Head(s) = "convert"
         /\ s \in FirePlans /\ Head(s) # "fire" => Tail(s) \in FirePlans
         /\ s = ConvertPlan => Tail(s) \in FirePlans
         /\ Head(s) = "fire" => s \in FirePlans
         /\ Tail(s) = <<>> /\ Head(s) # "fire" => s \in OtherPlans
<1> USE DEF ConvertPlan, FirePlans, OtherPlans
<1>1. CASE s = ConvertPlan
  BY <1>1
<1>2. CASE s = <<"fire">>
  BY <1>2
<1>3. CASE s = <<"wake", "fire">>
  BY <1>3
<1>4. CASE s = <<"notify", "wake", "fire">>
  BY <1>4
<1>5. CASE s = <<"notify", "fire">>
  BY <1>5
<1>6. CASE s = <<"wake", "notify", "fire">>
  BY <1>6
<1>7. CASE s = <<"fire", "wake", "notify">>
  BY <1>7
<1>8. CASE s = <<"wake">>
  BY <1>8
<1>9. CASE s = <<"notify">>
  BY <1>9
<1>10. CASE s = <<"wake", "notify">>
  BY <1>10
<1> QED
  BY <1>1, <1>2, <1>3, <1>4, <1>5, <1>6, <1>7, <1>8, <1>9, <1>10, Zenon

\* An actor that fires a callback has the outcome to fire it with.
LEMMA FiringPlan ==
  ASSUME IInv, NEW a \in Actors, Acting(a, "fire"), mine[a] # {}
  PROVE  val[a] = result /\ val[a] \in Outcomes /\ state = "Ready"
BY PlanTail, Zenon DEF IInv, PlanInv, Acting

-----------------------------------------------------------------------------
(* Type correctness. *)

\* Nobody is counted as zero.
LEMMA NumberedNone ==
  ASSUME NEW n PROVE Numbered({}, n) <=> n = 0
<1>1. ASSUME n = 0 PROVE Numbered({}, n)
  <2> DEFINE f == [s \in {} |-> 1]
  <2>1. Numbering(f, {}, 0)
    BY DEF Numbering
  <2> HIDE DEF f
  <2> QED
    BY <1>1, <2>1 DEF Numbered
<1>2. ASSUME Numbered({}, n) PROVE n = 0
  BY <1>2 DEF Numbered, Numbering
<1> QED
  BY <1>1, <1>2

\* While one waits, waiters is positive.
LEMMA NumberedSome ==
  ASSUME NEW S, NEW n, Numbered(S, n), NEW t \in S
  PROVE  n \in Nat /\ n > 0
BY DEF Numbered, Numbering

\* The increment counts the thread that goes to wait.
LEMMA NumberedMore ==
  ASSUME NEW S, NEW n, Numbered(S, n), NEW t, t \notin S
  PROVE  Numbered(S \cup {t}, n + 1)
<1>1. PICK f : Numbering(f, S, n)
  BY DEF Numbered
<1> DEFINE g == [s \in S \cup {t} |-> IF s = t THEN n + 1 ELSE f[s]]
<1>2. n \in Nat /\ n + 1 \in Nat
  BY DEF Numbered
<1>3. g \in [S \cup {t} -> 1..(n + 1)]
  BY <1>1, <1>2 DEF Numbering
<1>4. \A s, u \in S \cup {t} : g[s] = g[u] => s = u
  BY <1>1, <1>2 DEF Numbering
<1>5. \A i \in 1..(n + 1) : \E s \in S \cup {t} : g[s] = i
  <2> TAKE i \in 1..(n + 1)
  <2>1. CASE i = n + 1
    BY <2>1
  <2>2. CASE i # n + 1
    <3>1. i \in 1..n
      BY <1>2, <2>2
    <3>2. PICK s \in S : f[s] = i
      BY <1>1, <3>1 DEF Numbering
    <3> QED
      BY <3>2
  <2> QED
    BY <2>1, <2>2
<1> HIDE DEF g
<1>6. Numbering(g, S \cup {t}, n + 1)
  BY <1>3, <1>4, <1>5 DEF Numbering
<1> QED
  BY <1>2, <1>6 DEF Numbered

\* The decrement: whoever had the last number takes that of the thread that left.
LEMMA NumberedLess ==
  ASSUME NEW S, NEW n, Numbered(S, n), NEW t \in S
  PROVE  Numbered(S \ {t}, n - 1)
<1>1. PICK f : Numbering(f, S, n)
  BY DEF Numbered
<1> DEFINE g == [s \in S \ {t} |-> IF f[s] = n THEN f[t] ELSE f[s]]
<1>2. n \in Nat /\ n - 1 \in Nat
  BY NumberedSome
<1>3. g \in [S \ {t} -> 1..(n - 1)]
  BY <1>1, <1>2 DEF Numbering
<1>4. \A s, u \in S \ {t} : g[s] = g[u] => s = u
  BY <1>1, <1>2 DEF Numbering
<1>5. \A i \in 1..(n - 1) : \E s \in S \ {t} : g[s] = i
  <2> TAKE i \in 1..(n - 1)
  <2>1. i \in 1..n /\ n \in 1..n /\ i # n
    BY <1>2
  <2>2. PICK s \in S : f[s] = i
    BY <1>1, <2>1 DEF Numbering
  <2>3. PICK u \in S : f[u] = n
    BY <1>1, <2>1 DEF Numbering
  <2>4. CASE s = t
    BY <2>1, <2>2, <2>3, <2>4
  <2>5. CASE s # t
    BY <2>1, <2>2, <2>5
  <2> QED
    BY <2>4, <2>5
<1> HIDE DEF g
<1>6. Numbering(g, S \ {t}, n - 1)
  BY <1>3, <1>4, <1>5 DEF Numbering
<1> QED
  BY <1>2, <1>6 DEF Numbered

\* Continue keeps the types of an actor's locals.
LEMMA ContinueType ==
  ASSUME JobTypes, NEW a \in Actors, NEW steps \in Seq(Steps),
         NEW cbs \in SUBSET Callbacks, NEW n \in Nat,
         NEW v \in {"none"} \cup Outcomes, Continue(a, steps, cbs, n, v)
  PROVE  JobTypes'
BY DEF Continue, JobTypes

\* So does Advance, on an actor that has a step to make.
LEMMA AdvanceType ==
  ASSUME JobTypes, NEW a \in Actors, todo[a] # <<>>, Advance(a), mine' = mine
  PROVE  JobTypes'
<1>1. Tail(todo[a]) \in Seq(Steps)
  BY DEF JobTypes
<1> QED
  BY <1>1 DEF Advance, JobTypes

\* The initial states are typed, and no thread waits.
LEMMA TypeInit == Init => TypeInv
<1> SUFFICES ASSUME Init PROVE TypeInv
  OBVIOUS
<1>1. CoreTypes
  BY DEF Init, CoreTypes, Outcomes, Raw
<1>2. LockTypes
  BY Zenon DEF Init, LockTypes
<1>3. TaskTypes
  BY Zenon DEF Init, TaskTypes
<1>4. WakerTypes
  BY Zenon DEF Init, WakerTypes
<1>5. ActorTypes
  BY Zenon DEF Init, ActorTypes, PcValues
<1>6. JobTypes
  BY DEF Init, JobTypes
<1>7. HistTypes
  BY DEF Init, HistTypes
<1>8. Counted = {}
  BY AllActors, Zenon DEF Init, Counted
<1>9. Numbered(Counted, waiters)
  BY <1>8, NumberedNone, Zenon DEF Init
<1> QED
  BY <1>1, <1>2, <1>3, <1>4, <1>5, <1>6, <1>7, <1>9 DEF TypeInv, TypeOK

\* A step of a thread keeps the types.
LEMMA TypeThread ==
  ASSUME IInv, NEW t \in Threads, ThreadNext(t)
  PROVE  TypeOK'
<1> USE AllActors DEF IInv, TypeInv, TypeOK
<1>1. CASE Start(t)
  <2>1. LockTypes' /\ WakerTypes' /\ ActorTypes' /\ JobTypes'
    <3>1. LockTypes'
      BY <1>1, Zenon DEF Start, LockTypes, lockVars
    <3>2. WakerTypes'
      BY <1>1 DEF Start, WakerTypes, wakerVars
    <3>3. ActorTypes'
      BY <1>1, Zenon DEF Start, ActorTypes
    <3>4. JobTypes'
      BY <1>1, Zenon DEF Start, JobTypes, jobVars
    <3> QED
      BY <3>1, <3>2, <3>3, <3>4, Zenon
  <2>2. CoreTypes'
    BY <1>1, Zenon DEF Start, EnsureStarted, CoreTypes
  <2>3. TaskTypes'
    BY <1>1, Zenon DEF Start, EnsureStarted, SpawnGuarded, TaskTypes
  <2>4. HistTypes'
    BY <1>1, Zenon DEF Start, EnsureStarted, SpawnGuarded, HistTypes
  <2> QED
    BY <2>1, <2>2, <2>3, <2>4 DEF TypeOK
<1>2. CASE \E c \in Callbacks : RegisterCallback(t, c)
  <2> PICK c \in Callbacks : RegisterCallback(t, c)
    BY <1>2
  <2>1. LockTypes' /\ WakerTypes' /\ ActorTypes'
    BY Zenon DEF RegisterCallback, LockTypes, WakerTypes, ActorTypes, lockVars, wakerVars
  <2>2. CoreTypes'
    BY DEF RegisterCallback, EnsureStarted, GetOrConvert, CoreTypes
  <2>3. TaskTypes'
    BY Zenon DEF RegisterCallback, EnsureStarted, SpawnGuarded, TaskTypes
  <2>4. JobTypes'
    <3>1. CASE state = "Ready"
      <4>1. PICK v \in Outcomes : Continue(t, <<"fire">>, {c}, 0, v)
        BY <3>1, Zenon DEF RegisterCallback, Terminal
      <4>2. <<"fire">> \in Seq(Steps)
        BY DEF Steps
      <4> QED
        BY <4>1, <4>2, ContinueType, Zenon
    <3>2. CASE state # "Ready"
      BY <3>2, Zenon DEF RegisterCallback, jobVars, JobTypes
    <3> QED
      BY <3>1, <3>2
  <2>5. HistTypes'
    BY Zenon DEF RegisterCallback, EnsureStarted, SpawnGuarded, HistTypes
  <2> QED
    BY <2>1, <2>2, <2>3, <2>4, <2>5, Zenon DEF TypeOK
<1>3. CASE \E timeout \in BOOLEAN : BlockUntilReady(t, timeout)
  <2> PICK timeout \in BOOLEAN : BlockUntilReady(t, timeout)
    BY <1>3
  <2>1. LockTypes' /\ WakerTypes' /\ JobTypes'
    BY DEF BlockUntilReady, LockTypes, WakerTypes, JobTypes, lockVars, wakerVars, jobVars
  <2>2. CoreTypes'
    BY Zenon DEF BlockUntilReady, EnsureStarted, ReportResult, GetOrConvert, CoreTypes
  <2>3. TaskTypes'
    BY DEF BlockUntilReady, EnsureStarted, SpawnGuarded, TaskTypes
  <2>4. ActorTypes'
    BY Zenon DEF BlockUntilReady, PcValues, ActorTypes
  <2>5. HistTypes'
    BY Zenon DEF BlockUntilReady, EnsureStarted, SpawnGuarded, ReportResult, HistTypes
  <2> QED
    BY <2>1, <2>2, <2>3, <2>4, <2>5, Zenon DEF TypeOK
<1>4. CASE WaitWhile(t)
  <2>1. CoreTypes' /\ TaskTypes' /\ WakerTypes' /\ JobTypes' /\ HistTypes'
    <3>1. CoreTypes'
      BY <1>4, Zenon DEF WaitWhile, CoreTypes, coreVars
    <3>2. TaskTypes'
      BY <1>4, Zenon DEF WaitWhile, TaskTypes, taskVars
    <3>3. WakerTypes'
      BY <1>4 DEF WaitWhile, WakerTypes, wakerVars
    <3>4. JobTypes'
      BY <1>4, Zenon DEF WaitWhile, JobTypes, jobVars
    <3>5. HistTypes'
      BY <1>4 DEF WaitWhile, HistTypes, histVars
    <3> QED
      BY <3>1, <3>2, <3>3, <3>4, <3>5, Zenon
  <2>2. LockTypes'
    BY <1>4 DEF WaitWhile, lockVars, LockTypes
  <2>3. ActorTypes'
    BY <1>4, Zenon DEF WaitWhile, PcValues, ActorTypes
  <2> QED
    BY <2>1, <2>2, <2>3 DEF TypeOK
<1>5. CASE SpuriousWakeup(t)
  <2>1. CoreTypes' /\ LockTypes' /\ TaskTypes' /\ WakerTypes' /\ JobTypes' /\ HistTypes'
    <3>1. CoreTypes'
      BY <1>5, Zenon DEF SpuriousWakeup, CoreTypes, coreVars
    <3>2. LockTypes'
      BY <1>5, Zenon DEF SpuriousWakeup, LockTypes, lockVars
    <3>3. TaskTypes'
      BY <1>5, Zenon DEF SpuriousWakeup, TaskTypes, taskVars
    <3>4. WakerTypes'
      BY <1>5, Zenon DEF SpuriousWakeup, WakerTypes, wakerVars
    <3>5. JobTypes'
      BY <1>5, Zenon DEF SpuriousWakeup, JobTypes, jobVars
    <3>6. HistTypes'
      BY <1>5, Zenon DEF SpuriousWakeup, HistTypes, histVars
    <3> QED
      BY <3>1, <3>2, <3>3, <3>4, <3>5, <3>6, Zenon
  <2>2. ActorTypes'
    BY <1>5, Zenon DEF SpuriousWakeup, PcValues, ActorTypes
  <2> QED
    BY <2>1, <2>2, Zenon DEF TypeOK
<1>6. CASE Expire(t)
  <2>1. CoreTypes' /\ LockTypes' /\ TaskTypes' /\ WakerTypes' /\ JobTypes' /\ HistTypes'
    <3>1. CoreTypes'
      BY <1>6, Zenon DEF Expire, CoreTypes, coreVars
    <3>2. LockTypes'
      BY <1>6, Zenon DEF Expire, LockTypes, lockVars
    <3>3. TaskTypes'
      BY <1>6, Zenon DEF Expire, TaskTypes, taskVars
    <3>4. WakerTypes'
      BY <1>6, Zenon DEF Expire, WakerTypes, wakerVars
    <3>5. JobTypes'
      BY <1>6, Zenon DEF Expire, JobTypes, jobVars
    <3>6. HistTypes'
      BY <1>6, Zenon DEF Expire, HistTypes, histVars
    <3> QED
      BY <3>1, <3>2, <3>3, <3>4, <3>5, <3>6
  <2>2. ActorTypes'
    BY <1>6, Zenon DEF Expire, PcValues, ActorTypes
  <2> QED
    BY <2>1, <2>2 DEF TypeOK
<1>7. CASE Recheck(t)
  <2>1. CoreTypes' /\ TaskTypes' /\ WakerTypes' /\ JobTypes' /\ HistTypes'
    <3>1. CoreTypes'
      BY <1>7, Zenon DEF Recheck, CoreTypes, coreVars
    <3>2. TaskTypes'
      BY <1>7, Zenon DEF Recheck, TaskTypes, taskVars
    <3>3. WakerTypes'
      BY <1>7, Zenon DEF Recheck, WakerTypes, wakerVars
    <3>4. JobTypes'
      BY <1>7, Zenon DEF Recheck, JobTypes, jobVars
    <3>5. HistTypes'
      BY <1>7, Zenon DEF Recheck, HistTypes, histVars
    <3> QED
      BY <3>1, <3>2, <3>3, <3>4, <3>5
  <2>2. LockTypes'
    <3>1. t \in Counted
      BY <1>7 DEF Recheck, Counted
    <3>2. waiters > 0
      BY <3>1, NumberedSome, Zenon
    <3> QED
      BY <1>7, <3>2 DEF Recheck, LockTypes, lockVars
  <2>3. ActorTypes'
    BY <1>7, Zenon DEF Recheck, PcValues, ActorTypes
  <2> QED
    BY <2>1, <2>2, <2>3 DEF TypeOK
<1>8. CASE ReadResult(t)
  <2>1. LockTypes' /\ TaskTypes' /\ WakerTypes' /\ JobTypes'
    <3>1. LockTypes'
      BY <1>8, Zenon DEF ReadResult, LockTypes, lockVars
    <3>2. TaskTypes'
      BY <1>8, Zenon DEF ReadResult, TaskTypes, taskVars
    <3>3. WakerTypes'
      BY <1>8, Zenon DEF ReadResult, WakerTypes, wakerVars
    <3>4. JobTypes'
      BY <1>8, Zenon DEF ReadResult, JobTypes, jobVars
    <3> QED
      BY <3>1, <3>2, <3>3, <3>4, Zenon
  <2>2. CoreTypes'
    BY <1>8, Zenon DEF ReadResult, ReportResult, GetOrConvert, CoreTypes
  <2>3. ActorTypes'
    BY <1>8, Zenon DEF ReadResult, PcValues, ActorTypes
  <2>4. HistTypes'
    BY <1>8, Zenon DEF ReadResult, ReportResult, HistTypes
  <2> QED
    BY <2>1, <2>2, <2>3, <2>4 DEF TypeOK
<1>9. CASE Inspect(t)
  <2>1. LockTypes' /\ TaskTypes' /\ WakerTypes' /\ ActorTypes' /\ JobTypes' /\ HistTypes'
    <3>1. LockTypes'
      BY <1>9, Zenon DEF Inspect, LockTypes, lockVars
    <3>2. TaskTypes'
      BY <1>9, Zenon DEF Inspect, TaskTypes, taskVars
    <3>3. WakerTypes'
      BY <1>9, Zenon DEF Inspect, WakerTypes, wakerVars
    <3>4. ActorTypes'
      BY <1>9, Zenon DEF Inspect, ActorTypes
    <3>5. JobTypes'
      BY <1>9, Zenon DEF Inspect, JobTypes, jobVars
    <3>6. HistTypes'
      BY <1>9, Zenon DEF Inspect, HistTypes, histVars
    <3> QED
      BY <3>1, <3>2, <3>3, <3>4, <3>5, <3>6, Zenon
  <2>2. CoreTypes'
    BY <1>9 DEF Inspect, GetOrConvert, CoreTypes
  <2> QED
    BY <2>1, <2>2 DEF TypeOK
<1>10. CASE \E exc \in Closings : CloseFuture(t, exc)
  <2> PICK exc \in Closings : CloseFuture(t, exc)
    BY <1>10
  <2>1. LockTypes' /\ WakerTypes' /\ ActorTypes' /\ HistTypes'
    <3>1. LockTypes'
      BY Zenon DEF CloseFuture, LockTypes, lockVars
    <3>2. WakerTypes'
      BY Zenon DEF CloseFuture, WakerTypes, wakerVars
    <3>3. ActorTypes'
      BY Zenon DEF CloseFuture, ActorTypes
    <3>4. HistTypes'
      BY Zenon DEF CloseFuture, HistTypes, histVars
    <3> QED
      BY <3>1, <3>2, <3>3, <3>4, Zenon
  <2>2. CoreTypes'
    BY Zenon DEF CloseFuture, Settle, Closings, Outcomes, CoreTypes
  <2>3. TaskTypes'
    BY Zenon DEF CloseFuture, Abort, TaskTypes
  <2>4. JobTypes'
    <3>1. CloseSteps \in Seq(Steps) /\ <<"wake">> \in Seq(Steps) /\ <<>> \in Seq(Steps)
      BY DEF CloseSteps, Steps
    <3>2. callbacks \subseteq Callbacks /\ waiters \in Nat /\ exc \in Outcomes
      BY Zenon DEF CoreTypes, LockTypes, Closings, Outcomes
    <3>3. CASE state = "PendingTokio"
      BY <3>1, <3>2, <3>3, ContinueType, Zenon DEF CloseFuture
    <3>4. CASE state # "PendingTokio" /\ polled
      BY <3>1, <3>4, ContinueType, Zenon DEF CloseFuture
    <3>5. CASE state # "PendingTokio" /\ ~polled
      BY <3>1, <3>5, ContinueType, Zenon DEF CloseFuture
    <3> QED
      BY <3>3, <3>4, <3>5
  <2> QED
    BY <2>1, <2>2, <2>3, <2>4 DEF TypeOK
<1> QED
  BY <1>1, <1>2, <1>3, <1>4, <1>5, <1>6, <1>7, <1>8, <1>9, <1>10 DEF ThreadNext

\* So does a step of an awaiter.
LEMMA TypeAwaiter ==
  ASSUME IInv, NEW t \in Awaiters, AwaiterNext(t)
  PROVE  TypeOK'
<1> USE AllActors DEF IInv, TypeInv, TypeOK
<1>1. CASE PollCoroutine(t)
  <2>1. TaskTypes' /\ JobTypes'
    BY <1>1, Zenon DEF PollCoroutine, TaskTypes, JobTypes, taskVars, jobVars
  <2>2. CoreTypes'
    BY <1>1, Zenon DEF PollCoroutine, ReportResult, GetOrConvert, Conversions, Raw, Outcomes,
           CoreTypes
  <2>3. LockTypes'
    BY <1>1, Zenon DEF PollCoroutine, YieldUnlocked, LockTypes
  <2>4. WakerTypes'
    BY <1>1, Zenon DEF PollCoroutine, KeepDone, WakerTypes
  <2>5. ActorTypes'
    BY <1>1, Zenon DEF PollCoroutine, YieldUnlocked, PcValues, ActorTypes
  <2>6. HistTypes'
    <3>1. CASE state = "PendingAsyncio" /\ inner = "ready"
      BY <1>1, <3>1 DEF PollCoroutine, HistTypes, Conversions, Raw, Outcomes
    <3>2. CASE ~(state = "PendingAsyncio" /\ inner = "ready")
      BY <1>1, <3>2 DEF PollCoroutine, HistTypes, ReportResult
    <3> QED
      BY <3>1, <3>2
  <2> QED
    BY <2>1, <2>2, <2>3, <2>4, <2>5, <2>6, Zenon DEF TypeOK
<1>2. CASE YieldAsyncioFuture(t)
  <2>1. TaskTypes' /\ JobTypes' /\ HistTypes'
    BY <1>2, Zenon DEF YieldAsyncioFuture, TaskTypes, JobTypes, HistTypes, taskVars, jobVars,
           histVars
  <2>2. CoreTypes'
    BY <1>2, Zenon DEF YieldAsyncioFuture, CoreTypes
  <2>3. LockTypes'
    BY <1>2, Zenon DEF YieldAsyncioFuture, LockTypes
  <2>4. FreeFuts # {} => FreshFut \in Futs
    BY Zenon DEF FreshFut, FreeFuts
  <2>5. WakerTypes'
    BY <1>2, <2>4, Zenon DEF YieldAsyncioFuture, WakerTypes
  <2>6. ActorTypes'
    <3>1. pc' \in [Actors -> PcValues]
      BY <1>2 DEF YieldAsyncioFuture, ActorTypes, PcValues
    <3>2. fut' \in [Awaiters -> Futs \cup {"none"}]
      BY <1>2, <2>4, Zenon DEF YieldAsyncioFuture, ActorTypes
    <3>3. timed' \in [Threads -> BOOLEAN]
      BY <1>2 DEF YieldAsyncioFuture, ActorTypes
    <3> QED
      BY <3>1, <3>2, <3>3, Zenon DEF ActorTypes
  <2> QED
    BY <2>1, <2>2, <2>3, <2>5, <2>6, Zenon DEF TypeOK
<1>3. CASE YieldPanics(t)
  <2>1. CoreTypes' /\ LockTypes' /\ TaskTypes' /\ WakerTypes' /\ JobTypes' /\ HistTypes'
    <3>1. CoreTypes'
      BY <1>3, Zenon DEF YieldPanics, CoreTypes, coreVars
    <3>2. LockTypes'
      BY <1>3, Zenon DEF YieldPanics, LockTypes, lockVars
    <3>3. TaskTypes'
      BY <1>3, Zenon DEF YieldPanics, TaskTypes, taskVars
    <3>4. WakerTypes'
      BY <1>3, Zenon DEF YieldPanics, WakerTypes, wakerVars
    <3>5. JobTypes'
      BY <1>3, Zenon DEF YieldPanics, JobTypes, jobVars
    <3>6. HistTypes'
      BY <1>3, Zenon DEF YieldPanics, HistTypes, histVars
    <3> QED
      BY <3>1, <3>2, <3>3, <3>4, <3>5, <3>6, Zenon
  <2>2. ActorTypes'
    BY <1>3, Zenon DEF YieldPanics, PcValues, ActorTypes
  <2> QED
    BY <2>1, <2>2 DEF TypeOK
<1>4. CASE ThrowInto(t)
  <2>1. LockTypes' /\ HistTypes'
    BY <1>4, Zenon DEF ThrowInto, LockTypes, HistTypes, lockVars, histVars
  <2>2. CoreTypes'
    BY <1>4, Zenon DEF ThrowInto, Settle, Outcomes, CoreTypes
  <2>3. TaskTypes'
    BY <1>4, Zenon DEF ThrowInto, Abort, TaskTypes
  <2>4. WakerTypes'
    BY <1>4, Zenon DEF ThrowInto, KeepDone, ActorTypes, WakerTypes
  <2>5. ActorTypes'
    BY <1>4, Zenon DEF ThrowInto, PcValues, ActorTypes
  <2>6. JobTypes'
    <3>1. ThrowSteps \in Seq(Steps)
      BY DEF ThrowSteps, Steps
    <3>2. callbacks \subseteq Callbacks /\ waiters \in Nat /\ "thrown" \in Outcomes
      BY Zenon DEF CoreTypes, LockTypes, Outcomes
    <3>3. CASE ~Terminal /\ state = "PendingTokio"
      BY <1>4, <3>1, <3>2, <3>3, ContinueType DEF ThrowInto
    <3>4. CASE ~(~Terminal /\ state = "PendingTokio")
      BY <1>4, <3>4, Zenon DEF ThrowInto, JobTypes, jobVars
    <3> QED
      BY <3>3, <3>4
  <2> QED
    BY <2>1, <2>2, <2>3, <2>4, <2>5, <2>6, Zenon DEF TypeOK
<1> QED
  BY <1>1, <1>2, <1>3, <1>4 DEF AwaiterNext

\* So does a step an actor makes after it unlocked.
LEMMA TypeActor ==
  ASSUME IInv, NEW a \in Actors, ActorNext(a)
  PROVE  TypeOK'
<1> USE AllActors DEF IInv, TypeInv, TypeOK
<1>1. CASE Convert(a)
  <2>1. LockTypes' /\ TaskTypes' /\ WakerTypes' /\ ActorTypes' /\ HistTypes'
    <3>1. LockTypes'
      BY <1>1, Zenon DEF Convert, LockTypes, lockVars
    <3>2. TaskTypes'
      BY <1>1, Zenon DEF Convert, TaskTypes, taskVars
    <3>3. WakerTypes'
      BY <1>1, Zenon DEF Convert, WakerTypes, wakerVars
    <3>4. ActorTypes'
      BY <1>1, Zenon DEF Convert, ActorTypes
    <3>5. HistTypes'
      BY <1>1, Zenon DEF Convert, HistTypes, histVars
    <3> QED
      BY <3>1, <3>2, <3>3, <3>4, <3>5, Zenon
  <2>2. CoreTypes'
    BY <1>1, Zenon DEF Convert, GetOrConvert, CoreTypes
  <2>3. JobTypes'
    <3>1. PICK v \in Outcomes : Continue(a, Tail(todo[a]), mine[a], captured[a], v)
      BY <1>1, Zenon DEF Convert
    <3>2. Tail(todo[a]) \in Seq(Steps) /\ mine[a] \subseteq Callbacks /\ captured[a] \in Nat
      BY <1>1 DEF Convert, Acting, JobTypes
    <3> QED
      BY <3>1, <3>2, ContinueType, Zenon
  <2> QED
    BY <2>1, <2>2, <2>3, Zenon DEF TypeOK
<1>2. CASE Fire(a)
  <2>1. CoreTypes' /\ LockTypes' /\ TaskTypes' /\ WakerTypes' /\ ActorTypes'
    <3>1. CoreTypes'
      BY <1>2 DEF Fire, CoreTypes, coreVars
    <3>2. LockTypes'
      BY <1>2 DEF Fire, LockTypes, lockVars
    <3>3. TaskTypes'
      BY <1>2, Zenon DEF Fire, TaskTypes, taskVars
    <3>4. WakerTypes'
      BY <1>2, Zenon DEF Fire, WakerTypes, wakerVars
    <3>5. ActorTypes'
      BY <1>2, Zenon DEF Fire, ActorTypes
    <3> QED
      BY <3>1, <3>2, <3>3, <3>4, <3>5, Zenon
  <2>2. JobTypes'
    <3>1. CASE mine[a] # {} /\ UNCHANGED <<todo, captured, val>>
      BY <1>2, <3>1, Zenon DEF Fire, JobTypes
    <3>2. CASE Advance(a) /\ mine' = mine
      BY <1>2, <3>2, AdvanceType, Zenon DEF Fire, Acting
    <3> QED
      BY <1>2, <3>1, <3>2, Zenon DEF Fire
  <2>3. HistTypes'
    <3>1. UNCHANGED <<registered, lost>>
      BY <1>2 DEF Fire
    <3>2. CASE UNCHANGED <<fired, seen>>
      BY <3>1, <3>2, Zenon DEF HistTypes
    <3>3. CASE ~UNCHANGED <<fired, seen>>
      <4>1. PICK c \in mine[a] : fired' = [fired EXCEPT ![c] = @ + 1] /\ seen' = seen \cup {val[a]}
        BY <1>2, <3>3, Zenon DEF Fire
      <4>2. val[a] \in Outcomes /\ c \in Callbacks
        BY <1>2, <4>1, FiringPlan, Zenon DEF Fire, JobTypes
      <4> QED
        BY <3>1, <4>1, <4>2 DEF HistTypes
    <3> QED
      BY <3>2, <3>3, Zenon
  <2> QED
    BY <2>1, <2>2, <2>3, Zenon DEF TypeOK
<1>3. CASE Notify(a)
  <2>1. CoreTypes' /\ LockTypes' /\ TaskTypes' /\ WakerTypes' /\ HistTypes'
    <3>1. CoreTypes'
      BY <1>3, Zenon DEF Notify, CoreTypes, coreVars
    <3>2. LockTypes'
      BY <1>3, Zenon DEF Notify, LockTypes, lockVars
    <3>3. TaskTypes'
      BY <1>3, Zenon DEF Notify, TaskTypes, taskVars
    <3>4. WakerTypes'
      BY <1>3, Zenon DEF Notify, WakerTypes, wakerVars
    <3>5. HistTypes'
      BY <1>3, Zenon DEF Notify, HistTypes, histVars
    <3> QED
      BY <3>1, <3>2, <3>3, <3>4, <3>5, Zenon
  <2>2. ActorTypes'
    BY <1>3, Zenon DEF Notify, PcValues, ActorTypes
  <2>3. JobTypes'
    BY <1>3, AdvanceType, Zenon DEF Notify, Acting
  <2> QED
    BY <2>1, <2>2, <2>3, Zenon DEF TypeOK
<1>4. CASE Wake(a)
  <2>1. CoreTypes' /\ LockTypes' /\ TaskTypes' /\ ActorTypes'
    <3>1. CoreTypes'
      BY <1>4, Zenon DEF Wake, CoreTypes, coreVars
    <3>2. LockTypes'
      BY <1>4, Zenon DEF Wake, LockTypes, lockVars
    <3>3. TaskTypes'
      BY <1>4, Zenon DEF Wake, TaskTypes, taskVars
    <3>4. ActorTypes'
      BY <1>4, Zenon DEF Wake, ActorTypes
    <3> QED
      BY <3>1, <3>2, <3>3, <3>4, Zenon
  <2>2. WakerTypes'
    BY <1>4 DEF Wake, TakeParked, WakerTypes
  <2>3. JobTypes'
    <3>1. CASE slotPoisoned
      <4>1. <<>> \in Seq(Steps)
        OBVIOUS
      <4> QED
        BY <1>4, <3>1, <4>1, ContinueType, Zenon DEF Wake
    <3>2. CASE ~slotPoisoned
      BY <1>4, <3>2, AdvanceType, Zenon DEF Wake, Acting
    <3> QED
      BY <3>1, <3>2, Zenon
  <2>4. HistTypes'
    BY <1>4, Zenon DEF Wake, HistTypes
  <2> QED
    BY <2>1, <2>2, <2>3, <2>4, Zenon DEF TypeOK
<1> QED
  BY <1>1, <1>2, <1>3, <1>4, Zenon DEF ActorNext

\* So does a step of the wrapped future, the loop or the runtime.
LEMMA TypeEnv ==
  ASSUME IInv, EnvNext
  PROVE  TypeOK'
<1> USE AllActors DEF IInv, TypeInv, TypeOK
<1>1. CASE InnerReady
  <2>1. CoreTypes' /\ LockTypes' /\ ActorTypes' /\ JobTypes' /\ HistTypes'
    <3>1. CoreTypes'
      BY <1>1, Zenon DEF InnerReady, CoreTypes, coreVars
    <3>2. LockTypes'
      BY <1>1, Zenon DEF InnerReady, LockTypes, lockVars
    <3>3. ActorTypes'
      BY <1>1, Zenon DEF InnerReady, ActorTypes
    <3>4. JobTypes'
      BY <1>1, Zenon DEF InnerReady, JobTypes, jobVars
    <3>5. HistTypes'
      BY <1>1, Zenon DEF InnerReady, HistTypes, histVars
    <3> QED
      BY <3>1, <3>2, <3>3, <3>4, <3>5, Zenon
  <2>2. TaskTypes'
    BY <1>1, Zenon DEF InnerReady, taskVars, TaskTypes
  <2>3. WakerTypes'
    BY <1>1, Zenon DEF InnerReady, TakeParked, WakerTypes
  <2> QED
    BY <2>1, <2>2, <2>3 DEF TypeOK
<1>2. CASE StaleWake
  <2>1. CoreTypes' /\ LockTypes' /\ TaskTypes' /\ ActorTypes' /\ JobTypes' /\ HistTypes'
    <3>1. CoreTypes'
      BY <1>2, Zenon DEF StaleWake, CoreTypes, coreVars
    <3>2. LockTypes'
      BY <1>2, Zenon DEF StaleWake, LockTypes, lockVars
    <3>3. TaskTypes'
      BY <1>2, Zenon DEF StaleWake, TaskTypes, taskVars
    <3>4. ActorTypes'
      BY <1>2, Zenon DEF StaleWake, ActorTypes
    <3>5. JobTypes'
      BY <1>2, Zenon DEF StaleWake, JobTypes, jobVars
    <3>6. HistTypes'
      BY <1>2, Zenon DEF StaleWake, HistTypes, histVars
    <3> QED
      BY <3>1, <3>2, <3>3, <3>4, <3>5, <3>6, Zenon
  <2>2. WakerTypes'
    BY <1>2, Zenon DEF StaleWake, TakeParked, WakerTypes
  <2> QED
    BY <2>1, <2>2, Zenon DEF TypeOK
<1>3. CASE Drain
  <2>1. CoreTypes' /\ LockTypes' /\ TaskTypes' /\ ActorTypes' /\ JobTypes' /\ HistTypes'
    <3>1. CoreTypes'
      BY <1>3, Zenon DEF Drain, CoreTypes, coreVars
    <3>2. LockTypes'
      BY <1>3, Zenon DEF Drain, LockTypes, lockVars
    <3>3. TaskTypes'
      BY <1>3, Zenon DEF Drain, TaskTypes, taskVars
    <3>4. ActorTypes'
      BY <1>3, Zenon DEF Drain, ActorTypes
    <3>5. JobTypes'
      BY <1>3, Zenon DEF Drain, JobTypes, jobVars
    <3>6. HistTypes'
      BY <1>3, Zenon DEF Drain, HistTypes, histVars
    <3> QED
      BY <3>1, <3>2, <3>3, <3>4, <3>5, <3>6
  <2>2. WakerTypes'
    BY <1>3, Zenon DEF Drain, KeepDone, WakerTypes
  <2> QED
    BY <2>1, <2>2 DEF TypeOK
<1>4. CASE TaskPoll
  <2>1. CoreTypes' /\ LockTypes' /\ WakerTypes' /\ ActorTypes' /\ JobTypes' /\ HistTypes'
    <3>1. CoreTypes'
      BY <1>4, Zenon DEF TaskPoll, CoreTypes, coreVars
    <3>2. LockTypes'
      BY <1>4, Zenon DEF TaskPoll, LockTypes, lockVars
    <3>3. WakerTypes'
      BY <1>4, Zenon DEF TaskPoll, WakerTypes, wakerVars
    <3>4. ActorTypes'
      BY <1>4, Zenon DEF TaskPoll, ActorTypes
    <3>5. JobTypes'
      BY <1>4, Zenon DEF TaskPoll, JobTypes, jobVars
    <3>6. HistTypes'
      BY <1>4, Zenon DEF TaskPoll, HistTypes, histVars
    <3> QED
      BY <3>1, <3>2, <3>3, <3>4, <3>5, <3>6, Zenon
  <2>2. TaskTypes'
    BY <1>4, Zenon DEF TaskPoll, TaskTypes
  <2> QED
    BY <2>1, <2>2, Zenon DEF TypeOK
<1>5. CASE TaskComplete
  <2>1. LockTypes' /\ WakerTypes'
    BY <1>5, Zenon DEF TaskComplete, LockTypes, WakerTypes, lockVars, wakerVars
  <2>2. CoreTypes'
    BY <1>5, Zenon DEF TaskComplete, Settle, Raw, coreVars, CoreTypes
  <2>3. TaskTypes'
    BY <1>5, Zenon DEF TaskComplete, TaskTypes
  <2>4. ActorTypes'
    BY <1>5, Zenon DEF TaskComplete, PcValues, ActorTypes
  <2>5. JobTypes'
    <3>1. FireAndNotify({}) \in Seq(Steps) /\ FireAndNotify(callbacks) \in Seq(Steps)
      BY PlansTyped, FireAndNotifyPlan
    <3>2. callbacks \subseteq Callbacks /\ waiters \in Nat
      BY Zenon DEF CoreTypes, LockTypes
    <3>3. CASE Continue("task", FireAndNotify({}), {}, waiters, "none")
      BY <3>1, <3>2, <3>3, ContinueType, Zenon
    <3>4. CASE Continue("pool", FireAndNotify(callbacks), callbacks, waiters, "none")
      BY <3>1, <3>2, <3>4, ContinueType, Zenon
    <3>5. CASE UNCHANGED jobVars
      BY <3>5, Zenon DEF JobTypes, jobVars
    <3> QED
      BY <1>5, <3>3, <3>4, <3>5, Zenon DEF TaskComplete
  <2>6. HistTypes'
    BY <1>5, Zenon DEF TaskComplete, HistTypes
  <2> QED
    BY <2>1, <2>2, <2>3, <2>4, <2>5, <2>6, Zenon DEF TypeOK
<1>6. CASE TaskDrop
  <2>1. LockTypes' /\ WakerTypes' /\ ActorTypes'
    BY <1>6, Zenon DEF TaskDrop, LockTypes, WakerTypes, ActorTypes, lockVars, wakerVars
  <2>2. CoreTypes'
    BY <1>6 DEF TaskDrop, Settle, Outcomes, coreVars, CoreTypes
  <2>3. TaskTypes'
    BY <1>6, Zenon DEF TaskDrop, TaskTypes
  <2>4. JobTypes'
    <3>1. FireAndNotify(callbacks) \in Seq(Steps)
      BY PlansTyped, FireAndNotifyPlan, Zenon
    <3>2. callbacks \subseteq Callbacks /\ waiters \in Nat
      BY DEF CoreTypes, LockTypes
    <3>3. CASE Continue("task", FireAndNotify(callbacks), callbacks, waiters, "none")
      BY <3>1, <3>2, <3>3, ContinueType, Zenon
    <3>4. CASE UNCHANGED jobVars
      BY <3>4 DEF JobTypes, jobVars
    <3> QED
      BY <1>6, <3>3, <3>4 DEF TaskDrop
  <2>5. HistTypes'
    BY <1>6, Zenon DEF TaskDrop, HistTypes
  <2> QED
    BY <2>1, <2>2, <2>3, <2>4, <2>5, Zenon DEF TypeOK
<1>7. CASE PoolStart
  <2>1. CoreTypes' /\ LockTypes' /\ TaskTypes' /\ WakerTypes' /\ JobTypes' /\ HistTypes'
    <3>1. CoreTypes'
      BY <1>7, Zenon DEF PoolStart, CoreTypes, coreVars
    <3>2. LockTypes'
      BY <1>7, Zenon DEF PoolStart, LockTypes, lockVars
    <3>3. TaskTypes'
      BY <1>7 DEF PoolStart, TaskTypes, taskVars
    <3>4. WakerTypes'
      BY <1>7, Zenon DEF PoolStart, WakerTypes, wakerVars
    <3>5. JobTypes'
      BY <1>7 DEF PoolStart, JobTypes, jobVars
    <3>6. HistTypes'
      BY <1>7, Zenon DEF PoolStart, HistTypes, histVars
    <3> QED
      BY <3>1, <3>2, <3>3, <3>4, <3>5, <3>6, Zenon
  <2>2. ActorTypes'
    BY <1>7, Zenon DEF PoolStart, PcValues, ActorTypes
  <2> QED
    BY <2>1, <2>2, Zenon DEF TypeOK
<1>8. CASE PoolDrop
  <2>1. CoreTypes' /\ LockTypes' /\ TaskTypes' /\ WakerTypes'
    <3>1. CoreTypes'
      BY <1>8, Zenon DEF PoolDrop, CoreTypes, coreVars
    <3>2. LockTypes'
      BY <1>8, Zenon DEF PoolDrop, LockTypes, lockVars
    <3>3. TaskTypes'
      BY <1>8, Zenon DEF PoolDrop, TaskTypes, taskVars
    <3>4. WakerTypes'
      BY <1>8, Zenon DEF PoolDrop, WakerTypes, wakerVars
    <3> QED
      BY <3>1, <3>2, <3>3, <3>4, Zenon
  <2>2. ActorTypes'
    BY <1>8, Zenon DEF PoolDrop, PcValues, ActorTypes
  <2>3. JobTypes'
    <3>1. <<>> \in Seq(Steps)
      OBVIOUS
    <3> QED
      BY <1>8, <3>1, ContinueType, Zenon DEF PoolDrop
  <2>4. HistTypes'
    BY <1>8, Zenon DEF PoolDrop, HistTypes
  <2> QED
    BY <2>1, <2>2, <2>3, <2>4, Zenon DEF TypeOK
<1>9. CASE Shutdown
  <2>1. CoreTypes' /\ LockTypes' /\ WakerTypes' /\ ActorTypes' /\ JobTypes' /\ HistTypes'
    <3>1. CoreTypes'
      BY <1>9, Zenon DEF Shutdown, CoreTypes, coreVars
    <3>2. LockTypes'
      BY <1>9 DEF Shutdown, LockTypes, lockVars
    <3>3. WakerTypes'
      BY <1>9, Zenon DEF Shutdown, WakerTypes, wakerVars
    <3>4. ActorTypes'
      BY <1>9, Zenon DEF Shutdown, ActorTypes
    <3>5. JobTypes'
      BY <1>9, Zenon DEF Shutdown, JobTypes, jobVars
    <3>6. HistTypes'
      BY <1>9, Zenon DEF Shutdown, HistTypes, histVars
    <3> QED
      BY <3>1, <3>2, <3>3, <3>4, <3>5, <3>6
  <2>2. TaskTypes'
    BY <1>9, Zenon DEF Shutdown, TaskTypes
  <2> QED
    BY <2>1, <2>2 DEF TypeOK
<1>10. CASE Stopped
  <2>1. CoreTypes' /\ LockTypes' /\ WakerTypes' /\ ActorTypes' /\ JobTypes' /\ HistTypes'
    <3>1. CoreTypes'
      BY <1>10, Zenon DEF Stopped, CoreTypes, coreVars
    <3>2. LockTypes'
      BY <1>10, Zenon DEF Stopped, LockTypes, lockVars
    <3>3. WakerTypes'
      BY <1>10, Zenon DEF Stopped, WakerTypes, wakerVars
    <3>4. ActorTypes'
      BY <1>10, Zenon DEF Stopped, ActorTypes
    <3>5. JobTypes'
      BY <1>10, Zenon DEF Stopped, JobTypes, jobVars
    <3>6. HistTypes'
      BY <1>10, Zenon DEF Stopped, HistTypes, histVars
    <3> QED
      BY <3>1, <3>2, <3>3, <3>4, <3>5, <3>6
  <2>2. TaskTypes'
    BY <1>10, Zenon DEF Stopped, TaskTypes
  <2> QED
    BY <2>1, <2>2 DEF TypeOK
<1> QED
  BY <1>1, <1>2, <1>3, <1>4, <1>5, <1>6, <1>7, <1>8, <1>9, <1>10 DEF EnvNext

\* So does an entry point that a poisoned mutex refuses.
LEMMA TypeRefused ==
  ASSUME IInv, NEW t \in Callers, Refused(t)
  PROVE  TypeOK'
<1> USE AllActors DEF IInv, TypeInv, TypeOK
<1>1. CoreTypes' /\ LockTypes' /\ TaskTypes' /\ WakerTypes' /\ JobTypes'
  <2>1. CoreTypes'
    BY Zenon DEF Refused, CoreTypes, coreVars
  <2>2. LockTypes'
    BY Zenon DEF Refused, LockTypes, lockVars
  <2>3. TaskTypes'
    BY Zenon DEF Refused, TaskTypes, taskVars
  <2>4. WakerTypes'
    BY Zenon DEF Refused, WakerTypes, wakerVars
  <2>5. JobTypes'
    BY Zenon DEF Refused, JobTypes, jobVars
  <2> QED
    BY <2>1, <2>2, <2>3, <2>4, <2>5, Zenon
<1>2. ActorTypes'
  BY Zenon DEF Refused, ActorTypes, PcValues
<1>3. HistTypes'
  BY Zenon DEF Refused, HistTypes
<1> QED
  BY <1>1, <1>2, <1>3, Zenon DEF TypeOK

\* Every step keeps the types.
LEMMA TypeStep ==
  ASSUME IInv, [Next]_vars
  PROVE  TypeOK'
<1>1. CASE UNCHANGED vars
  <2>1. TypeOK
    BY Zenon DEF IInv, TypeInv
  <2>2. CoreTypes' /\ LockTypes' /\ TaskTypes'
    BY <1>1, <2>1, Zenon DEF TypeOK, CoreTypes, LockTypes, TaskTypes, vars, coreVars,
       lockVars, taskVars
  <2>3. WakerTypes'
    BY <1>1, <2>1, Zenon DEF TypeOK, WakerTypes, vars, wakerVars
  <2>4. ActorTypes'
    BY <1>1, <2>1, Zenon DEF TypeOK, ActorTypes, vars
  <2>5. JobTypes'
    BY <1>1, <2>1, Zenon DEF TypeOK, JobTypes, vars, jobVars
  <2>6. HistTypes'
    BY <1>1, <2>1 DEF TypeOK, HistTypes, vars, histVars
  <2> QED
    BY <2>2, <2>3, <2>4, <2>5, <2>6 DEF TypeOK
<1> QED
  BY <1>1, TypeThread, TypeAwaiter, TypeRefused, TypeActor, TypeEnv, Zenon DEF Next

-----------------------------------------------------------------------------
(* The count of waiters. *)

\* A thread that moves into wait_while, or within it, is counted.
LEMMA CountIn ==
  ASSUME IInv, NEW t \in Threads, NEW p \in {"waiting", "woken", "expired"},
         pc' = [pc EXCEPT ![t] = p]
  PROVE  Counted' = Counted \cup {t}
BY AllActors, Zenon DEF IInv, TypeInv, TypeOK, ActorTypes, Counted

\* A thread that moves out of it, or outside it, is not.
LEMMA CountOut ==
  ASSUME IInv, NEW t \in Threads, NEW p, p \notin {"waiting", "woken", "expired"},
         pc' = [pc EXCEPT ![t] = p]
  PROVE  Counted' = Counted \ {t}
BY AllActors DEF IInv, TypeInv, TypeOK, ActorTypes, Counted

\* Nobody else's moves change Counted.
LEMMA CountOther ==
  ASSUME IInv, NEW x \in Actors \ Threads, NEW p, pc' = [pc EXCEPT ![x] = p]
  PROVE  Counted' = Counted
BY AllActors DEF IInv, TypeInv, TypeOK, ActorTypes, Counted

\* Notify moves threads within Counted, and nobody to park.
LEMMA NotifyMoves ==
  ASSUME IInv, NEW a \in Actors, Notify(a)
  PROVE  \A x \in Actors : pc'[x] = pc[x] \/ (pc[x] = "waiting" /\ pc'[x] = "woken")
<1>1. pc' = [x \in Actors |-> IF captured[a] > 0 /\ pc[x] = "waiting"
                              THEN "woken" ELSE pc[x]]
  BY DEF Notify
<1>2. CASE captured[a] > 0
  BY <1>1, <1>2
<1>3. CASE ~(captured[a] > 0)
  BY <1>1, <1>3
<1> QED
  BY <1>2, <1>3

\* The count is right if Counted and waiters change together.
LEMMA CountFrame ==
  ASSUME IInv, NEW t \in Threads
  PROVE  /\ t \notin Counted /\ Counted' = Counted \cup {t} /\ waiters' = waiters + 1
               => Numbered(Counted, waiters)'
         /\ t \in Counted /\ Counted' = Counted \ {t} /\ waiters' = waiters - 1
               => Numbered(Counted, waiters)'
<1>1. Numbered(Counted, waiters)
  BY DEF IInv, TypeInv
<1>2. t \notin Counted => Numbered(Counted \cup {t}, waiters + 1)
  BY <1>1, NumberedMore
<1>3. t \in Counted => Numbered(Counted \ {t}, waiters - 1)
  BY <1>1, NumberedLess
<1> QED
  BY <1>2, <1>3

\* The count of waiters is exact after every step.
LEMMA CountStep ==
  ASSUME IInv, [Next]_vars
  PROVE  Numbered(Counted, waiters)'
<1> USE DEF IInv, TypeInv
<1>1. ASSUME NEW t \in Threads, ThreadNext(t)
      PROVE  Numbered(Counted, waiters)'
  <2>1. CASE \/ Start(t) \/ (\E c \in Callbacks : RegisterCallback(t, c))
              \/ Inspect(t) \/ (\E exc \in Closings : CloseFuture(t, exc))
    BY <2>1, Zenon DEF Start, RegisterCallback, Inspect, CloseFuture, Counted
  <2>2. CASE \E timeout \in BOOLEAN : BlockUntilReady(t, timeout)
    <3> PICK timeout \in BOOLEAN : BlockUntilReady(t, timeout)
      BY <2>2
    <3>1. t \notin Counted /\ waiters' = waiters
      BY Zenon DEF BlockUntilReady, Idle, Counted
    <3>2. CASE pc' = pc
      BY <3>1, <3>2 DEF Counted
    <3>3. CASE pc' = [pc EXCEPT ![t] = "enter"]
      <4>1. Counted' = Counted
        BY <3>1, <3>3, CountOut, Zenon
      <4> QED
        BY <3>1, <4>1
    <3> QED
      BY <3>2, <3>3, Zenon DEF BlockUntilReady
  <2>3. CASE WaitWhile(t)
    <3>1. t \notin Counted
      BY <2>3 DEF WaitWhile, Counted
    <3>2. CASE state = "PendingTokio"
      <4>1. pc' = [pc EXCEPT ![t] = "waiting"] /\ waiters' = waiters + 1
        BY <2>3, <3>2 DEF WaitWhile
      <4>2. Counted' = Counted \cup {t}
        BY <4>1, CountIn, Zenon
      <4> QED
        BY <3>1, <4>1, <4>2, CountFrame
    <3>3. CASE state # "PendingTokio"
      <4>1. pc' = [pc EXCEPT ![t] = "read"] /\ waiters' = waiters
        BY <2>3, <3>3 DEF WaitWhile
      <4>2. Counted' = Counted
        BY <3>1, <4>1, CountOut, Zenon
      <4> QED
        BY <4>1, <4>2
    <3> QED
      BY <3>2, <3>3
  <2>4. CASE SpuriousWakeup(t)
    <3>1. pc' = [pc EXCEPT ![t] = "woken"] /\ waiters' = waiters /\ t \in Counted
      BY <2>4, Zenon DEF SpuriousWakeup, Idle, Counted
    <3>2. Counted' = Counted
      BY <3>1, CountIn, Zenon
    <3> QED
      BY <3>1, <3>2
  <2>5. CASE Expire(t)
    <3>1. pc' = [pc EXCEPT ![t] = "expired"] /\ waiters' = waiters /\ t \in Counted
      BY <2>5, Zenon DEF Expire, Idle, Counted
    <3>2. Counted' = Counted
      BY <3>1, CountIn, Zenon
    <3> QED
      BY <3>1, <3>2
  <2>6. CASE Recheck(t)
    <3>1. t \in Counted
      BY <2>6, Zenon DEF Recheck, Counted
    <3>2. CASE state = "PendingTokio" /\ pc[t] = "woken"
      <4>1. pc' = [pc EXCEPT ![t] = "waiting"] /\ waiters' = waiters
        BY <2>6, <3>2 DEF Recheck
      <4>2. Counted' = Counted
        BY <3>1, <4>1, CountIn, Zenon
      <4> QED
        BY <4>1, <4>2
    <3>3. CASE ~(state = "PendingTokio" /\ pc[t] = "woken")
      <4>1. PICK p \in {"idle", "read"} : pc' = [pc EXCEPT ![t] = p]
        BY <2>6, <3>3 DEF Recheck
      <4>2. waiters' = waiters - 1
        BY <2>6, <3>3, Zenon DEF Recheck
      <4>3. Counted' = Counted \ {t}
        BY <4>1, CountOut, Zenon
      <4> QED
        BY <3>1, <4>2, <4>3, CountFrame
    <3> QED
      BY <3>2, <3>3
  <2>7. CASE ReadResult(t)
    <3>1. pc' = [pc EXCEPT ![t] = "idle"] /\ waiters' = waiters /\ t \notin Counted
      BY <2>7 DEF ReadResult, Idle, Counted
    <3>2. Counted' = Counted
      BY <3>1, CountOut, Zenon
    <3> QED
      BY <3>1, <3>2
  <2> QED
    BY <1>1, <2>1, <2>2, <2>3, <2>4, <2>5, <2>6, <2>7, Zenon DEF ThreadNext
<1>2. ASSUME NEW t \in Awaiters, AwaiterNext(t)
      PROVE  Numbered(Counted, waiters)'
  <2>1. CASE PollCoroutine(t)
    <3>1. PICK p : pc' = [pc EXCEPT ![t] = p]
      BY <2>1, Zenon DEF PollCoroutine, YieldUnlocked
    <3>2. Counted' = Counted
      BY <3>1, CountOther, AllActors, Apart, Zenon
    <3> QED
      BY <2>1, <3>2, Zenon DEF PollCoroutine
  <2>2. CASE YieldAsyncioFuture(t)
    <3>1. PICK p : pc' = [pc EXCEPT ![t] = p]
      BY <2>2, Zenon DEF YieldAsyncioFuture
    <3>2. Counted' = Counted
      BY <3>1, CountOther, AllActors, Apart, Zenon
    <3> QED
      BY <2>2, <3>2 DEF YieldAsyncioFuture
  <2>3. CASE YieldPanics(t)
    <3>1. PICK p : pc' = [pc EXCEPT ![t] = p]
      BY <2>3, Zenon DEF YieldPanics
    <3>2. Counted' = Counted
      BY <3>1, CountOther, AllActors, Apart, Zenon
    <3> QED
      BY <2>3, <3>2 DEF YieldPanics
  <2>4. CASE ThrowInto(t)
    <3>1. PICK p : pc' = [pc EXCEPT ![t] = p]
      BY <2>4, Zenon DEF ThrowInto
    <3>2. Counted' = Counted
      BY <3>1, CountOther, AllActors, Apart, Zenon
    <3> QED
      BY <2>4, <3>2 DEF ThrowInto
  <2> QED
    BY <1>2, <2>1, <2>2, <2>3, <2>4 DEF AwaiterNext
<1>3. ASSUME NEW t \in Callers, Refused(t)
      PROVE  Numbered(Counted, waiters)'
  <2>1. pc' = [pc EXCEPT ![t] = "idle"] /\ waiters' = waiters
    BY <1>3 DEF Refused
  <2>2. t \in Threads => t \notin Counted
    BY <1>3, Apart, Zenon DEF Refused, Idle, Counted
  <2>3. Counted' = Counted
    <3>1. CASE t \in Threads
      BY <2>1, <2>2, <3>1, CountOut, Zenon
    <3>2. CASE t \notin Threads
      BY <2>1, <3>2, CountOther, AllActors, Zenon
    <3> QED
      BY <3>1, <3>2
  <2> QED
    BY <2>1, <2>3
<1>4. ASSUME NEW a \in Actors, ActorNext(a)
      PROVE  Numbered(Counted, waiters)'
  <2>1. CASE Convert(a) \/ Fire(a) \/ Wake(a)
    BY <2>1, Zenon DEF Convert, Fire, Wake, Counted
  <2>2. CASE Notify(a)
    <3>1. Counted' = Counted
      BY <2>2, NotifyMoves, AllActors, Zenon DEF Counted
    <3> QED
      BY <2>2, <3>1, Zenon DEF Notify
  <2> QED
    BY <1>4, <2>1, <2>2 DEF ActorNext
<1>5. CASE EnvNext
  <2>1. CASE \/ InnerReady \/ StaleWake \/ Drain \/ TaskPoll \/ TaskDrop
              \/ Shutdown \/ Stopped
    BY <2>1, Zenon DEF InnerReady, StaleWake, Drain, TaskPoll, TaskDrop, Shutdown, Stopped,
       Counted
  <2>2. CASE TaskComplete
    <3>1. waiters' = waiters /\ (pc' = pc \/ pc' = [pc EXCEPT !["pool"] = "queued"])
      BY <2>2 DEF TaskComplete
    <3>2. CASE pc' = pc
      BY <3>1, <3>2 DEF Counted
    <3>3. CASE pc' = [pc EXCEPT !["pool"] = "queued"]
      <4>1. Counted' = Counted
        BY <3>3, CountOther, AllActors, Apart, Zenon
      <4> QED
        BY <3>1, <4>1
    <3> QED
      BY <3>1, <3>2, <3>3
  <2>3. CASE PoolStart
    <3>1. pc' = [pc EXCEPT !["pool"] = "running"] /\ waiters' = waiters
      BY <2>3 DEF PoolStart
    <3>2. Counted' = Counted
      BY <3>1, CountOther, AllActors, Apart, Zenon
    <3> QED
      BY <3>1, <3>2
  <2>4. CASE PoolDrop
    <3>1. pc' = [pc EXCEPT !["pool"] = "idle"] /\ waiters' = waiters
      BY <2>4, Zenon DEF PoolDrop
    <3>2. Counted' = Counted
      BY <3>1, CountOther, AllActors, Apart, Zenon
    <3> QED
      BY <3>1, <3>2
  <2> QED
    BY <1>5, <2>1, <2>2, <2>3, <2>4 DEF EnvNext
<1>6. CASE UNCHANGED vars
  BY <1>6 DEF Counted, vars
<1> QED
  BY <1>1, <1>2, <1>3, <1>4, <1>5, <1>6 DEF Next

-----------------------------------------------------------------------------
(* Parking. *)

\* With the mutex free, nobody parks.
LEMMA FreeNoPark == IInv /\ MutexFree => \A x \in Awaiters : pc[x] # "park"
BY Apart DEF IInv, ParkInv, MutexFree

\* A step that leaves the mutex and the state alone, or finds the mutex free.
LEMMA ParkFrame ==
  ASSUME IInv, MutexFree \/ UNCHANGED <<lock, state>>,
         \A x \in Awaiters : pc'[x] = "park" => pc[x] = "park"
  PROVE  ParkInv'
BY FreeNoPark DEF IInv, ParkInv

\* An actor that moves, but not to park, makes nobody park.
LEMMA MoveParks ==
  ASSUME IInv, NEW x \in Actors, NEW p, p # "park", pc' = [pc EXCEPT ![x] = p]
  PROVE  \A y \in Awaiters : pc'[y] = "park" => pc[y] = "park"
BY AllActors, Zenon DEF IInv, TypeInv, TypeOK, ActorTypes

\* Whoever parks holds the mutex, so the future stays PendingAsyncio meanwhile.
LEMMA ParkStep ==
  ASSUME IInv, [Next]_vars
  PROVE  ParkInv'
<1>1. ASSUME NEW t \in Threads, ThreadNext(t)
      PROVE  ParkInv'
  <2>1. CASE Start(t)
    BY <2>1, ParkFrame DEF Start
  <2>2. CASE \E c \in Callbacks : RegisterCallback(t, c)
    <3> PICK c \in Callbacks : RegisterCallback(t, c)
      BY <2>2
    <3> QED
      BY ParkFrame DEF RegisterCallback
  <2>3. CASE \E timeout \in BOOLEAN : BlockUntilReady(t, timeout)
    <3> PICK timeout \in BOOLEAN : BlockUntilReady(t, timeout)
      BY <2>3
    <3>1. \A x \in Awaiters : pc'[x] = "park" => pc[x] = "park"
      BY MoveParks, AllActors DEF BlockUntilReady
    <3>2. MutexFree \/ UNCHANGED <<lock, state>>
      BY DEF BlockUntilReady
    <3> QED
      BY <3>1, <3>2, ParkFrame
  <2>4. CASE WaitWhile(t)
    <3>1. \A x \in Awaiters : pc'[x] = "park" => pc[x] = "park"
      BY <2>4, MoveParks, AllActors DEF WaitWhile
    <3>2. MutexFree \/ UNCHANGED <<lock, state>>
      BY <2>4 DEF WaitWhile
    <3> QED
      BY <3>1, <3>2, ParkFrame
  <2>5. CASE SpuriousWakeup(t)
    <3>1. \A x \in Awaiters : pc'[x] = "park" => pc[x] = "park"
      BY <2>5, MoveParks, AllActors DEF SpuriousWakeup
    <3>2. MutexFree \/ UNCHANGED <<lock, state>>
      BY <2>5 DEF SpuriousWakeup, coreVars, lockVars
    <3> QED
      BY <3>1, <3>2, ParkFrame
  <2>6. CASE Expire(t)
    <3>1. \A x \in Awaiters : pc'[x] = "park" => pc[x] = "park"
      BY <2>6, MoveParks, AllActors DEF Expire
    <3>2. MutexFree \/ UNCHANGED <<lock, state>>
      BY <2>6, Zenon DEF Expire, coreVars, lockVars
    <3> QED
      BY <3>1, <3>2, ParkFrame
  <2>7. CASE Recheck(t)
    <3>1. \A x \in Awaiters : pc'[x] = "park" => pc[x] = "park"
      BY <2>7, MoveParks, AllActors DEF Recheck
    <3>2. MutexFree \/ UNCHANGED <<lock, state>>
      BY <2>7, Zenon DEF Recheck
    <3> QED
      BY <3>1, <3>2, ParkFrame
  <2>8. CASE ReadResult(t)
    <3>1. \A x \in Awaiters : pc'[x] = "park" => pc[x] = "park"
      BY <2>8, MoveParks, AllActors DEF ReadResult
    <3>2. MutexFree \/ UNCHANGED <<lock, state>>
      BY <2>8 DEF ReadResult
    <3> QED
      BY <3>1, <3>2, ParkFrame
  <2>9. CASE Inspect(t)
    BY <2>9, ParkFrame DEF Inspect
  <2>10. CASE \E exc \in Closings : CloseFuture(t, exc)
    <3> PICK exc \in Closings : CloseFuture(t, exc)
      BY <2>10
    <3> QED
      BY ParkFrame DEF CloseFuture
  <2> QED
    BY <1>1, <2>1, <2>2, <2>3, <2>4, <2>5, <2>6, <2>7, <2>8, <2>9, <2>10, Zenon DEF ThreadNext
<1>2. ASSUME NEW t \in Awaiters, AwaiterNext(t)
      PROVE  ParkInv'
  <2>1. CASE PollCoroutine(t)
    <3>1. MutexFree /\ (\A x \in Awaiters : pc[x] # "park")
      BY <2>1, FreeNoPark, Zenon DEF PollCoroutine
    <3>2. CASE lock' = t /\ pc' = [pc EXCEPT ![t] = "park"] /\ state = "PendingAsyncio" /\ state' = state
      BY <3>1, <3>2, AllActors DEF ParkInv, IInv, TypeInv, TypeOK, ActorTypes
    <3>3. CASE \E p \in {"idle", "yield"} : pc' = [pc EXCEPT ![t] = p]
      <4>1. \A x \in Awaiters : pc'[x] = "park" => pc[x] = "park"
        BY <3>3, MoveParks, AllActors, Zenon
      <4> QED
        BY <3>1, <4>1, ParkFrame
    <3> QED
      BY <2>1, <3>2, <3>3, Zenon DEF PollCoroutine, YieldUnlocked
  <2>2. CASE YieldAsyncioFuture(t)
    <3>1. PICK p \in {"idle", "yielded", "parked"} : pc' = [pc EXCEPT ![t] = p]
      BY <2>2 DEF YieldAsyncioFuture
    <3>2. CASE pc[t] = "park"
      <4>1. \A x \in Awaiters : pc[x] = "park" => x = t
        BY <3>2 DEF IInv, ParkInv
      <4>2. \A x \in Awaiters : pc'[x] # "park"
        BY <3>1, <4>1, AllActors DEF IInv, TypeInv, TypeOK, ActorTypes
      <4> QED
        BY <4>2 DEF ParkInv
    <3>3. CASE pc[t] = "yield"
      <4>1. \A x \in Awaiters : pc'[x] = "park" => pc[x] = "park"
        BY <3>1, MoveParks, AllActors, Zenon
      <4>2. UNCHANGED <<lock, state>>
        BY <2>2, <3>3, Zenon DEF YieldAsyncioFuture
      <4> QED
        BY <4>1, <4>2, ParkFrame, Zenon
    <3> QED
      BY <2>2, <3>2, <3>3, Zenon DEF YieldAsyncioFuture
  <2>3. CASE YieldPanics(t)
    <3>1. \A x \in Awaiters : pc'[x] = "park" => pc[x] = "park"
      BY <2>3, MoveParks, AllActors DEF YieldPanics
    <3>2. MutexFree \/ UNCHANGED <<lock, state>>
      BY <2>3, Zenon DEF YieldPanics, coreVars, lockVars
    <3> QED
      BY <3>1, <3>2, ParkFrame
  <2>4. CASE ThrowInto(t)
    <3>1. \A x \in Awaiters : pc'[x] = "park" => pc[x] = "park"
      BY <2>4, MoveParks, AllActors, Zenon DEF ThrowInto
    <3>2. MutexFree \/ UNCHANGED <<lock, state>>
      BY <2>4, Zenon DEF ThrowInto
    <3> QED
      BY <3>1, <3>2, ParkFrame
  <2> QED
    BY <1>2, <2>1, <2>2, <2>3, <2>4, Zenon DEF AwaiterNext
<1>3. ASSUME NEW t \in Callers, Refused(t)
      PROVE  ParkInv'
  <2>1. \A x \in Awaiters : pc'[x] = "park" => pc[x] = "park"
    BY <1>3, MoveParks, AllActors, Zenon DEF Refused
  <2>2. UNCHANGED <<lock, state>>
    BY <1>3, Zenon DEF Refused, coreVars, lockVars
  <2> QED
    BY <2>1, <2>2, ParkFrame, Zenon
<1>4. ASSUME NEW a \in Actors, ActorNext(a)
      PROVE  ParkInv'
  <2>1. CASE Fire(a) \/ Wake(a)
    BY <2>1, Zenon DEF Fire, Wake, IInv, ParkInv, coreVars, lockVars
  <2>2. CASE Convert(a)
    BY <2>2, ParkFrame, Zenon DEF Convert
  <2>3. CASE Notify(a)
    <3>1. \A x \in Awaiters : pc'[x] = "park" => pc[x] = "park"
      BY <2>3, NotifyMoves, AllActors, Zenon
    <3>2. UNCHANGED <<lock, state>>
      BY <2>3 DEF Notify, coreVars, lockVars
    <3> QED
      BY <3>1, <3>2, ParkFrame
  <2> QED
    BY <1>4, <2>1, <2>2, <2>3, Zenon DEF ActorNext
<1>5. CASE EnvNext
  <2>1. CASE \/ InnerReady \/ StaleWake \/ Drain \/ TaskPoll \/ Shutdown
              \/ Stopped
    BY <2>1 DEF InnerReady, StaleWake, Drain, TaskPoll, Shutdown, Stopped, IInv, ParkInv,
           coreVars, lockVars
  <2>2. CASE TaskComplete
    <3>1. \A x \in Awaiters : pc'[x] = "park" => pc[x] = "park"
      BY <2>2, MoveParks, AllActors, Zenon DEF TaskComplete
    <3>2. MutexFree \/ UNCHANGED <<lock, state>>
      BY <2>2 DEF TaskComplete
    <3> QED
      BY <3>1, <3>2, ParkFrame, Zenon
  <2>3. CASE TaskDrop
    BY <2>3, ParkFrame, Zenon DEF TaskDrop
  <2>4. CASE PoolStart
    <3>1. \A x \in Awaiters : pc'[x] = "park" => pc[x] = "park"
      BY <2>4, MoveParks, AllActors DEF PoolStart
    <3>2. MutexFree \/ UNCHANGED <<lock, state>>
      BY <2>4 DEF PoolStart, coreVars, lockVars
    <3> QED
      BY <3>1, <3>2, ParkFrame
  <2>5. CASE PoolDrop
    <3>1. \A x \in Awaiters : pc'[x] = "park" => pc[x] = "park"
      BY <2>5, MoveParks, AllActors DEF PoolDrop
    <3>2. MutexFree \/ UNCHANGED <<lock, state>>
      BY <2>5 DEF PoolDrop, coreVars, lockVars
    <3> QED
      BY <3>1, <3>2, ParkFrame
  <2> QED
    BY <1>5, <2>1, <2>2, <2>3, <2>4, <2>5, Zenon DEF EnvNext
<1>6. CASE UNCHANGED vars
  BY <1>6, Zenon DEF IInv, ParkInv, vars, coreVars, lockVars
<1> QED
  BY <1>1, <1>2, <1>3, <1>4, <1>5, <1>6 DEF Next

-----------------------------------------------------------------------------
(* The result. *)

\* Reading the result of a future finds one, and changes it only from raw.
LEMMA Reading ==
  ASSUME IInv, NEW v \in Outcomes, GetOrConvert(v)
  PROVE  /\ result # "none" /\ state = "Ready"
         /\ result' = v /\ result' # "none"
         /\ result \in Outcomes => result' = result
<1>1. result' = v /\ v # "none" /\ v \in Conversions(result)
  BY DEF GetOrConvert, Outcomes
<1>2. result \in {"none"} \cup Outcomes => v = result
  BY <1>1, Zenon DEF Conversions, Outcomes
<1> QED
  BY <1>1, <1>2 DEF IInv, SettledInv

\* An actor that finished its steps has no callbacks left to fire.
LEMMA IdleOwnsNothing ==
  ASSUME IInv, NEW a \in Actors, todo[a] = <<>>
  PROVE  mine[a] = {}
<1>1. <<>> \notin FirePlans \cup {ConvertPlan}
  BY Zenon DEF FirePlans, ConvertPlan
<1> QED
  BY <1>1 DEF IInv, PlanInv

\* Results, queued callbacks and pending steps keep agreeing with the state.
LEMMA SettledStep ==
  ASSUME IInv, [Next]_vars
  PROVE  SettledInv'
<1> USE AllActors, Apart DEF IInv, SettledInv
<1>1. ASSUME NEW t \in Threads, ThreadNext(t)
      PROVE  SettledInv'
  <2>1. CASE WaitWhile(t) \/ SpuriousWakeup(t) \/ Expire(t) \/ Recheck(t)
    BY <2>1, Zenon DEF WaitWhile, SpuriousWakeup, Expire, Recheck, coreVars, taskVars, jobVars
  <2>2. CASE Start(t)
    BY <2>2, Zenon DEF Start, EnsureStarted, SpawnGuarded, jobVars
  <2>3. CASE \E c \in Callbacks : RegisterCallback(t, c)
    <3> PICK c \in Callbacks : RegisterCallback(t, c)
      BY <2>3, Zenon
    <3>1. CASE state = "Ready"
      <4>1. PICK v \in Outcomes : GetOrConvert(v) /\ Continue(t, <<"fire">>, {c}, 0, v)
        BY <3>1, Zenon DEF RegisterCallback, Terminal
      <4>2. result' # "none" /\ UNCHANGED <<state, callbacks, task>>
        BY <3>1, <4>1, Reading, Zenon DEF RegisterCallback, Terminal
      <4>3. todo'["task"] = todo["task"] /\ todo'["pool"] = todo["pool"]
        BY <4>1, Zenon DEF Continue, TypeInv, TypeOK, JobTypes
      <4> QED
        BY <3>1, <4>2, <4>3, Zenon
    <3>2. CASE state # "Ready"
      BY <3>2, Zenon DEF RegisterCallback, EnsureStarted, SpawnGuarded, Terminal, jobVars,
                  TypeInv, TypeOK, CoreTypes
    <3> QED
      BY <3>1, <3>2, Zenon
  <2>4. CASE \E timeout \in BOOLEAN : BlockUntilReady(t, timeout)
    <3> PICK timeout \in BOOLEAN : BlockUntilReady(t, timeout)
      BY <2>4, Zenon
    <3>1. UNCHANGED <<callbacks, todo>>
      BY Zenon DEF BlockUntilReady, jobVars
    <3>2. CASE state = "Ready"
      <4>1. result' # "none" /\ UNCHANGED <<state, task>>
        BY <3>2, Reading, Zenon DEF BlockUntilReady, ReportResult, Terminal
      <4> QED
        BY <3>1, <3>2, <4>1, Zenon
    <3>3. CASE state # "Ready"
      BY <3>1, <3>3, Zenon DEF BlockUntilReady, EnsureStarted, SpawnGuarded, Terminal
    <3> QED
      BY <3>2, <3>3, Zenon
  <2>5. CASE ReadResult(t)
    <3>1. state = "Ready" /\ result' # "none" /\ UNCHANGED <<state, callbacks, task>>
      BY <2>5, Reading, Zenon DEF ReadResult, ReportResult, taskVars
    <3>2. UNCHANGED todo
      BY <2>5, Zenon DEF ReadResult, jobVars
    <3> QED
      BY <3>1, <3>2, Zenon
  <2>6. CASE Inspect(t)
    <3>1. state = "Ready" /\ result' # "none" /\ UNCHANGED <<state, callbacks, task>>
      BY <2>6, Reading, Zenon DEF Inspect, ReportResult, taskVars
    <3>2. UNCHANGED todo
      BY <2>6, Zenon DEF Inspect, jobVars
    <3> QED
      BY <3>1, <3>2
  <2>7. CASE \E exc \in Closings : CloseFuture(t, exc)
    <3> PICK exc \in Closings : CloseFuture(t, exc)
      BY <2>7, Zenon
    <3>1. state' = "Ready" /\ result' # "none" /\ callbacks' = {} /\ task' = task
      BY Zenon DEF CloseFuture, Settle, Closings
    <3>2. todo'["task"] = todo["task"] /\ todo'["pool"] = todo["pool"]
      BY Zenon DEF CloseFuture, Continue, TypeInv, TypeOK, JobTypes
    <3> QED
      BY <3>1, <3>2, Zenon
  <2> QED
    BY <1>1, <2>1, <2>2, <2>3, <2>4, <2>5, <2>6, <2>7, Zenon DEF ThreadNext
<1>2. ASSUME NEW t \in Awaiters, AwaiterNext(t)
      PROVE  SettledInv'
  <2>1. CASE YieldPanics(t)
    BY <2>1, Zenon DEF YieldPanics, coreVars, taskVars, jobVars
  <2>2. CASE PollCoroutine(t)
    <3>1. UNCHANGED <<callbacks, task, todo>>
      BY <2>2, Zenon DEF PollCoroutine, taskVars, jobVars
    <3>2. CASE state = "Ready"
      <4>1. result' # "none" /\ state' = state
        BY <2>2, <3>2, Reading, Zenon DEF PollCoroutine, ReportResult
      <4> QED
        BY <3>1, <3>2, <4>1, Zenon
    <3>3. CASE state = "PendingAsyncio" /\ inner = "ready"
      BY <2>2, <3>1, <3>3, Zenon DEF PollCoroutine, Conversions, Raw
    <3>4. CASE ~(state = "Ready" \/ (state = "PendingAsyncio" /\ inner = "ready"))
      BY <2>2, <3>1, <3>4, Zenon DEF PollCoroutine
    <3> QED
      BY <3>2, <3>3, <3>4, Zenon
  <2>3. CASE YieldAsyncioFuture(t)
    <3>1. UNCHANGED <<result, callbacks, task, todo>>
      BY <2>3, Zenon DEF YieldAsyncioFuture, taskVars, jobVars
    <3>2. pc[t] = "park" => state = "PendingAsyncio"
      BY Zenon DEF ParkInv
    <3> QED
      BY <2>3, <3>1, <3>2, Zenon DEF YieldAsyncioFuture
  <2>4. CASE ThrowInto(t)
    <3>1. task' = task
      BY <2>4, Zenon DEF ThrowInto
    <3>2. CASE Terminal
      BY <2>4, <3>1, <3>2, Zenon DEF ThrowInto, jobVars
    <3>3. CASE ~Terminal
      <4>1. state' = "Ready" /\ result' # "none" /\ callbacks' = {}
        BY <2>4, <3>3, Zenon DEF ThrowInto, Settle
      <4>2. todo'["task"] = todo["task"] /\ todo'["pool"] = todo["pool"]
        BY <2>4, <3>3, Zenon DEF ThrowInto, Continue, jobVars, TypeInv, TypeOK, JobTypes
      <4> QED
        BY <3>1, <4>1, <4>2, Zenon
    <3> QED
      BY <3>2, <3>3, Zenon
  <2> QED
    BY <1>2, <2>1, <2>2, <2>3, <2>4, Zenon DEF AwaiterNext
<1>3. ASSUME NEW t \in Callers, Refused(t)
      PROVE  SettledInv'
  BY <1>3, Zenon DEF Refused, coreVars, taskVars, jobVars
<1>4. ASSUME NEW a \in Actors, ActorNext(a)
      PROVE  SettledInv'
  <2>1. CASE Convert(a)
    <3>1. PICK v \in Outcomes : GetOrConvert(v) /\ Continue(a, Tail(todo[a]), mine[a], captured[a], v)
      BY <2>1, Zenon DEF Convert
    <3>2. state = "Ready" /\ result' # "none" /\ UNCHANGED <<state, callbacks, task>>
      BY <2>1, <3>1, Reading, Zenon DEF Convert, taskVars
    <3>3. task # "gone" => todo'["task"] = todo["task"] /\ todo'["pool"] = todo["pool"]
      BY <2>1, <3>1, Zenon DEF Convert, Acting, Continue, TypeInv, TypeOK, JobTypes
    <3> QED
      BY <3>2, <3>3, Zenon
  <2>2. CASE Fire(a)
    <3>1. UNCHANGED <<state, result, callbacks, task>>
      BY <2>2, Zenon DEF Fire, coreVars, taskVars
    <3>2. task # "gone" => todo'["task"] = todo["task"] /\ todo'["pool"] = todo["pool"]
      BY <2>2, Zenon DEF Fire, Acting, Advance, TypeInv, TypeOK, JobTypes
    <3> QED
      BY <3>1, <3>2, Zenon
  <2>3. CASE Notify(a)
    <3>1. UNCHANGED <<state, result, callbacks, task>>
      BY <2>3, Zenon DEF Notify, coreVars, taskVars
    <3>2. task # "gone" => todo'["task"] = todo["task"] /\ todo'["pool"] = todo["pool"]
      BY <2>3, Zenon DEF Notify, Acting, Advance, TypeInv, TypeOK, JobTypes
    <3> QED
      BY <3>1, <3>2
  <2>4. CASE Wake(a)
    <3>1. UNCHANGED <<state, result, callbacks, task>>
      BY <2>4, Zenon DEF Wake, coreVars, taskVars
    <3>2. task # "gone" => todo'["task"] = todo["task"] /\ todo'["pool"] = todo["pool"]
      BY <2>4, Zenon DEF Wake, Acting, Advance, Continue, TypeInv, TypeOK, JobTypes
    <3> QED
      BY <3>1, <3>2
  <2> QED
    BY <1>4, <2>1, <2>2, <2>3, <2>4, Zenon DEF ActorNext
<1>5. CASE EnvNext
  <2>1. CASE \/ InnerReady \/ StaleWake \/ Drain \/ PoolStart \/ Shutdown
              \/ Stopped
    BY <2>1, Zenon DEF InnerReady, StaleWake, Drain, PoolStart, Shutdown, Stopped, coreVars,
           taskVars, jobVars
  <2>2. CASE TaskPoll
    BY <2>2 DEF TaskPoll, coreVars, jobVars
  <2>3. CASE TaskComplete
    <3>1. task' = "gone" /\ task = "polled"
      BY <2>3, Zenon DEF TaskComplete
    <3>2. CASE UNCHANGED coreVars
      BY <3>1, <3>2, Zenon DEF coreVars
    <3>3. CASE \E r \in Raw : Settle(r)
      BY <3>1, <3>3, Zenon DEF Settle, Raw
    <3> QED
      BY <2>3, <3>2, <3>3, Zenon DEF TaskComplete
  <2>4. CASE TaskDrop
    <3>1. task' = "gone" /\ task # "none"
      BY <2>4, Zenon DEF TaskDrop
    <3>2. CASE UNCHANGED coreVars
      BY <3>1, <3>2, Zenon DEF coreVars
    <3>3. CASE Settle("dropped")
      BY <3>1, <3>3, Zenon DEF Settle
    <3> QED
      BY <2>4, <3>2, <3>3, Zenon DEF TaskDrop
  <2>5. CASE PoolDrop
    <3>1. UNCHANGED <<state, result, callbacks, task>>
      BY <2>5, Zenon DEF PoolDrop, coreVars, taskVars
    <3>2. task # "gone" => todo'["task"] = todo["task"] /\ todo'["pool"] = todo["pool"]
      BY <2>5, Zenon DEF PoolDrop, Continue, TypeInv, TypeOK, JobTypes
    <3> QED
      BY <3>1, <3>2, Zenon
  <2> QED
    BY <1>5, <2>1, <2>2, <2>3, <2>4, <2>5, Zenon DEF EnvNext
<1>6. CASE UNCHANGED vars
  BY <1>6 DEF vars, coreVars, taskVars, jobVars
<1> QED
  BY <1>1, <1>2, <1>3, <1>4, <1>5, <1>6, Zenon DEF Next

-----------------------------------------------------------------------------
(* What actors have left to do. *)

\* The state and the result change, if at all, before anybody can take callbacks,
\* or by a read.
Steady == state # "Ready" \/ (state' = state /\ (result \in Outcomes => result' = result))

\* A step that starts nothing and finishes nothing.
LEMMA PlanFrame ==
  ASSUME IInv, UNCHANGED <<todo, mine, val>>, Steady
  PROVE  PlanInv'
BY Zenon DEF IInv, PlanInv, Steady

\* A step that gives an actor a new plan.
LEMMA PlanContinue ==
  ASSUME IInv, Steady, NEW a \in Actors,
         NEW s \in FirePlans \cup {ConvertPlan} \cup OtherPlans,
         NEW cbs, NEW n, NEW v, Continue(a, s, cbs, n, v),
         cbs # {} => /\ state' = "Ready" /\ s \in FirePlans \cup {ConvertPlan}
                     /\ s \in FirePlans => v = result' /\ v \in Outcomes
  PROVE  PlanInv'
<1>1. \A b \in Actors : /\ todo'[b] = IF b = a THEN s ELSE todo[b]
                        /\ mine'[b] = IF b = a THEN cbs ELSE mine[b]
                        /\ val'[b] = IF b = a THEN v ELSE val[b]
  BY Zenon DEF Continue, IInv, TypeInv, TypeOK, JobTypes
<1>2. ASSUME NEW b \in Actors
      PROVE  /\ todo'[b] \in FirePlans \cup {ConvertPlan} \cup OtherPlans
             /\ mine'[b] # {} => state' = "Ready" /\ todo'[b] \in FirePlans \cup {ConvertPlan}
             /\ mine'[b] # {} /\ todo'[b] \in FirePlans => val'[b] = result' /\ val'[b] \in Outcomes
  <2>1. CASE b = a
    BY <1>1, <2>1, Zenon
  <2>2. CASE b # a
    BY <1>1, <2>2, Zenon DEF IInv, PlanInv, Steady
  <2> QED
    BY <2>1, <2>2, Zenon
<1> QED
  BY <1>2, Zenon DEF PlanInv

\* A step of a plan other than reading the result, and firing only at its end.
LEMMA PlanAdvance ==
  ASSUME IInv, UNCHANGED <<state, result, mine>>, NEW a \in Actors,
         todo[a] # <<>>, Head(todo[a]) # "convert",
         Head(todo[a]) = "fire" => mine[a] = {}, Advance(a)
  PROVE  PlanInv'
<1>1. \A b \in Actors : /\ todo'[b] = IF b = a THEN Tail(todo[a]) ELSE todo[b]
                        /\ val'[b] = IF b = a /\ Tail(todo[a]) = <<>> THEN "none" ELSE val[b]
  BY Zenon DEF Advance, IInv, TypeInv, TypeOK, JobTypes
<1>2. /\ Tail(todo[a]) \in FirePlans \cup OtherPlans
      /\ mine[a] # {} => todo[a] \in FirePlans /\ Tail(todo[a]) \in FirePlans
      /\ mine[a] # {} => Tail(todo[a]) # <<>>
  <2>1. /\ todo[a] \in FirePlans \cup {ConvertPlan} \cup OtherPlans
        /\ mine[a] # {} => todo[a] \in FirePlans \cup {ConvertPlan}
    BY DEF IInv, PlanInv
  <2>2. /\ Tail(todo[a]) \in FirePlans \cup OtherPlans
        /\ todo[a] # ConvertPlan
        /\ todo[a] \in FirePlans /\ Head(todo[a]) # "fire" => Tail(todo[a]) \in FirePlans
    BY <2>1, PlanTail
  <2>3. <<>> \notin FirePlans
    BY Zenon DEF FirePlans
  <2> QED
    BY <2>1, <2>2, <2>3, Zenon
<1>3. ASSUME NEW b \in Actors
      PROVE  /\ todo'[b] \in FirePlans \cup {ConvertPlan} \cup OtherPlans
             /\ mine'[b] # {} => state' = "Ready" /\ todo'[b] \in FirePlans \cup {ConvertPlan}
             /\ mine'[b] # {} /\ todo'[b] \in FirePlans => val'[b] = result' /\ val'[b] \in Outcomes
  <2>1. CASE b = a
    BY <1>1, <1>2, <2>1, Zenon DEF IInv, PlanInv
  <2>2. CASE b # a
    BY <1>1, <2>2 DEF IInv, PlanInv
  <2> QED
    BY <2>1, <2>2, Zenon
<1> QED
  BY <1>3, Zenon DEF PlanInv

\* The plans that the code makes.
LEMMA Plans ==
  /\ CloseSteps \in FirePlans /\ ThrowSteps \in FirePlans /\ <<"fire">> \in FirePlans
  /\ <<"wake">> \in OtherPlans /\ <<>> \in OtherPlans
BY DEF CloseSteps, ThrowSteps, FirePlans, OtherPlans

\* Every step keeps the plans.
LEMMA PlanStep ==
  ASSUME IInv, [Next]_vars
  PROVE  PlanInv'
<1> USE AllActors
<1>1. ASSUME NEW t \in Threads, ThreadNext(t)
      PROVE  PlanInv'
  <2>1. CASE WaitWhile(t) \/ SpuriousWakeup(t) \/ Expire(t) \/ Recheck(t)
    BY <2>1, Zenon DEF WaitWhile, SpuriousWakeup, Expire, Recheck, IInv, PlanInv, coreVars,
       jobVars
  <2>2. CASE Start(t)
    <3>1. UNCHANGED <<todo, mine, val>>
      BY <2>2 DEF Start, jobVars
    <3>2. Steady
      BY <2>2, Reading DEF Start, Steady
    <3> QED
      BY <3>1, <3>2, PlanFrame
  <2>3. CASE \E c \in Callbacks : RegisterCallback(t, c)
    <3> PICK c \in Callbacks : RegisterCallback(t, c)
      BY <2>3
    <3>1. CASE state = "Ready"
      <4>1. PICK v \in Outcomes : GetOrConvert(v) /\ Continue(t, <<"fire">>, {c}, 0, v)
        BY <3>1, Zenon DEF RegisterCallback, Terminal
      <4>2. Steady /\ state' = "Ready" /\ result' = v
        BY <3>1, <4>1, Reading DEF RegisterCallback, Terminal, Steady
      <4> QED
        BY <4>1, <4>2, Plans, PlanContinue
    <3>2. CASE state # "Ready"
      <4>1. UNCHANGED <<todo, mine, val>>
        BY <3>2 DEF RegisterCallback, jobVars
      <4> QED
        BY <3>2, <4>1, PlanFrame, Zenon DEF Steady
    <3> QED
      BY <3>1, <3>2
  <2>4. CASE \E timeout \in BOOLEAN : BlockUntilReady(t, timeout)
    <3> PICK timeout \in BOOLEAN : BlockUntilReady(t, timeout)
      BY <2>4
    <3>1. UNCHANGED <<todo, mine, val>>
      BY Zenon DEF BlockUntilReady, jobVars
    <3>2. Steady
      BY Reading DEF BlockUntilReady, Steady, ReportResult, Terminal
    <3> QED
      BY <3>1, <3>2, PlanFrame
  <2>5. CASE ReadResult(t)
    <3>1. UNCHANGED <<todo, mine, val>>
      BY <2>5 DEF ReadResult, jobVars
    <3>2. Steady
      BY <2>5, Reading, Zenon DEF ReadResult, Steady, ReportResult
    <3> QED
      BY <3>1, <3>2, PlanFrame
  <2>6. CASE Inspect(t)
    <3>1. UNCHANGED <<todo, mine, val>>
      BY <2>6, Zenon DEF Inspect, jobVars
    <3>2. Steady
      BY <2>6, Reading DEF Inspect, Steady
    <3> QED
      BY <3>1, <3>2, PlanFrame
  <2>7. CASE \E exc \in Closings : CloseFuture(t, exc)
    <3> PICK exc \in Closings : CloseFuture(t, exc)
      BY <2>7
    <3>1. Steady /\ state' = "Ready" /\ result' = exc /\ exc \in Outcomes
      BY Zenon DEF CloseFuture, Settle, Terminal, Steady, Closings, Outcomes
    <3>2. CASE state = "PendingTokio"
      BY <3>1, <3>2, Plans, PlanContinue, Zenon DEF CloseFuture
    <3>3. CASE state # "PendingTokio" /\ polled
      BY <3>1, <3>3, Plans, PlanContinue, Zenon DEF CloseFuture
    <3>4. CASE state # "PendingTokio" /\ ~polled
      BY <3>1, <3>4, Plans, PlanContinue DEF CloseFuture
    <3> QED
      BY <3>2, <3>3, <3>4
  <2> QED
    BY <1>1, <2>1, <2>2, <2>3, <2>4, <2>5, <2>6, <2>7, Zenon DEF ThreadNext
<1>2. ASSUME NEW t \in Awaiters, AwaiterNext(t)
      PROVE  PlanInv'
  <2>1. CASE YieldPanics(t)
    BY <2>1 DEF YieldPanics, IInv, PlanInv, coreVars, jobVars
  <2>2. CASE PollCoroutine(t)
    <3>1. UNCHANGED <<todo, mine, val>>
      BY <2>2, Zenon DEF PollCoroutine, jobVars
    <3>2. Steady
      BY <2>2, Reading DEF PollCoroutine, Steady, ReportResult
    <3> QED
      BY <3>1, <3>2, PlanFrame, Zenon
  <2>3. CASE YieldAsyncioFuture(t)
    <3>1. UNCHANGED <<todo, mine, val, result>>
      BY <2>3, Zenon DEF YieldAsyncioFuture, jobVars
    <3>2. pc[t] = "park" => state = "PendingAsyncio"
      BY Zenon DEF IInv, ParkInv
    <3>3. Steady
      BY <2>3, <3>1, <3>2 DEF YieldAsyncioFuture, Steady
    <3> QED
      BY <3>1, <3>3, PlanFrame, Zenon
  <2>4. CASE ThrowInto(t)
    <3>1. CASE ~Terminal /\ state = "PendingTokio"
      <4>1. Steady /\ state' = "Ready" /\ result' = "thrown" /\ "thrown" \in Outcomes
        BY <2>4, <3>1, Zenon DEF ThrowInto, Settle, Terminal, Steady, Outcomes
      <4>2. Continue(t, ThrowSteps, callbacks, waiters, "thrown")
        BY <2>4, <3>1, Zenon DEF ThrowInto
      <4> QED
        BY <4>1, <4>2, Plans, PlanContinue, Zenon
    <3>2. CASE ~(~Terminal /\ state = "PendingTokio")
      <4>1. UNCHANGED <<todo, mine, val>>
        BY <2>4, <3>2, Zenon DEF ThrowInto, jobVars
      <4>2. Steady
        BY <2>4, <3>2, Zenon DEF ThrowInto, Terminal, Steady
      <4> QED
        BY <4>1, <4>2, PlanFrame
    <3> QED
      BY <3>1, <3>2
  <2> QED
    BY <1>2, <2>1, <2>2, <2>3, <2>4, Zenon DEF AwaiterNext
<1>3. ASSUME NEW t \in Callers, Refused(t)
      PROVE  PlanInv'
  BY <1>3, PlanFrame DEF Refused, Steady, coreVars, jobVars
<1>4. ASSUME NEW a \in Actors, ActorNext(a)
      PROVE  PlanInv'
  <2>1. CASE Convert(a)
    <3>1. PICK v \in Outcomes : GetOrConvert(v) /\ Continue(a, Tail(todo[a]), mine[a], captured[a], v)
      BY <2>1, Zenon DEF Convert
    <3>2. Steady /\ state' = "Ready" /\ result' = v
      BY <2>1, <3>1, Reading, Zenon DEF Convert, Steady
    <3>3. Tail(todo[a]) \in FirePlans
      BY <2>1, PlanTail, Zenon DEF Convert, Acting, IInv, PlanInv
    <3> QED
      BY <3>1, <3>2, <3>3, PlanContinue
  <2>2. CASE Fire(a)
    <3>1. UNCHANGED <<state, result>>
      BY <2>2, Zenon DEF Fire, coreVars
    <3>2. CASE mine[a] = {}
      BY <2>2, <3>1, <3>2, PlanAdvance, Zenon DEF Fire, Acting
    <3>3. CASE mine[a] # {}
      <4>1. UNCHANGED <<todo, val>>
        BY <2>2, <3>3, Zenon DEF Fire
      <4>2. \A b \in Actors : mine'[b] \subseteq mine[b]
        BY <2>2, <3>3, Zenon DEF Fire, IInv, TypeInv, TypeOK, JobTypes
      <4> QED
        BY <3>1, <4>1, <4>2, Zenon DEF IInv, PlanInv
    <3> QED
      BY <3>2, <3>3, Zenon
  <2>3. CASE Notify(a)
    BY <2>3, PlanAdvance, Zenon DEF Notify, Acting, coreVars
  <2>4. CASE Wake(a)
    <3>1. UNCHANGED <<state, result>>
      BY <2>4 DEF Wake, coreVars
    <3>2. CASE slotPoisoned
      <4>1. Steady
        BY <3>1, Zenon DEF Steady
      <4> QED
        BY <2>4, <3>2, <4>1, Plans, PlanContinue, Zenon DEF Wake
    <3>3. CASE ~slotPoisoned
      BY <2>4, <3>1, <3>3, PlanAdvance, Zenon DEF Wake, Acting
    <3> QED
      BY <3>2, <3>3
  <2> QED
    BY <1>4, <2>1, <2>2, <2>3, <2>4, Zenon DEF ActorNext
<1>5. CASE EnvNext
  <2>1. CASE \/ InnerReady \/ StaleWake \/ Drain \/ TaskPoll \/ PoolStart
              \/ Shutdown \/ Stopped
    BY <2>1, Zenon DEF InnerReady, StaleWake, Drain, TaskPoll, PoolStart, Shutdown, Stopped,
           IInv, PlanInv, coreVars, jobVars
  <2>2. CASE TaskComplete
    <3>1. CASE UNCHANGED jobVars
      <4>1. Steady
        BY <2>2, Zenon DEF TaskComplete, StillPending, Steady, coreVars
      <4> QED
        BY <3>1, <4>1, PlanFrame, Zenon DEF jobVars
    <3>2. CASE ~UNCHANGED jobVars
      <4>1. Steady /\ state' = "Ready"
        BY <2>2, <3>2 DEF TaskComplete, StillPending, Settle, Steady, coreVars
      <4>2. FireAndNotify({}) \in OtherPlans
        BY FireAndNotifyPlan
      <4>3. callbacks # {} => FireAndNotify(callbacks) = ConvertPlan
        BY FireAndNotifyPlan
      <4>4. ConvertPlan \notin FirePlans
        BY DEF ConvertPlan, FirePlans
      <4>5. CASE Continue("task", FireAndNotify({}), {}, waiters, "none")
        BY <4>1, <4>2, <4>5, PlanContinue
      <4>6. CASE callbacks # {} /\ Continue("pool", FireAndNotify(callbacks), callbacks, waiters, "none")
        BY <4>1, <4>3, <4>4, <4>6, PlanContinue
      <4> QED
        BY <2>2, <3>2, <4>5, <4>6, Zenon DEF TaskComplete
    <3> QED
      BY <3>1, <3>2
  <2>3. CASE TaskDrop
    <3>1. CASE task = "polled" /\ StillPending
      <4>1. Steady /\ state' = "Ready"
        BY <2>3, <3>1 DEF TaskDrop, StillPending, Settle, Steady
      <4>2. Continue("task", FireAndNotify(callbacks), callbacks, waiters, "none")
        BY <2>3, <3>1, Zenon DEF TaskDrop
      <4>3. ConvertPlan \notin FirePlans
        BY DEF ConvertPlan, FirePlans
      <4> QED
        BY <4>1, <4>2, <4>3, FireAndNotifyPlan, PlanContinue, Zenon
    <3>2. CASE ~(task = "polled" /\ StillPending)
      BY <2>3, <3>2, PlanFrame, Zenon DEF TaskDrop, Steady, coreVars, jobVars
    <3> QED
      BY <3>1, <3>2, Zenon
  <2>4. CASE PoolDrop
    <3>1. Steady
      BY <2>4, Zenon DEF PoolDrop, Steady, coreVars
    <3> QED
      BY <2>4, <3>1, Plans, PlanContinue DEF PoolDrop
  <2> QED
    BY <1>5, <2>1, <2>2, <2>3, <2>4, Zenon DEF EnvNext
<1>6. CASE UNCHANGED vars
  BY <1>6, Zenon DEF IInv, PlanInv, vars, coreVars, jobVars
<1> QED
  BY <1>1, <1>2, <1>3, <1>4, <1>5, <1>6, Zenon DEF Next

-----------------------------------------------------------------------------
(* Who owns a callback. *)

\* A step that moves queued callbacks to an actor, or drops them.
LEMMA OwnTake ==
  ASSUME IInv, UNCHANGED <<fired, registered>>, NEW a \in Actors,
         NEW s, NEW cbs \in SUBSET callbacks, NEW n, NEW v, Continue(a, s, cbs, n, v),
         callbacks' \subseteq callbacks, cbs \cap callbacks' = {}
  PROVE  OwnInv'
<1>1. \A b \in Actors : mine'[b] = IF b = a THEN cbs ELSE mine[b]
  BY Zenon DEF Continue, IInv, TypeInv, TypeOK, JobTypes
<1> QED
  BY <1>1, Zenon DEF IInv, OwnInv, CallbackOnce

\* A step that leaves all callbacks where they are, or queues fewer.
LEMMA OwnFrame ==
  ASSUME IInv, UNCHANGED <<fired, registered, mine>>, callbacks' \subseteq callbacks
  PROVE  OwnInv'
BY Zenon DEF IInv, OwnInv, CallbackOnce

\* Every step keeps each callback in one place.
LEMMA OwnStep ==
  ASSUME IInv, [Next]_vars
  PROVE  OwnInv'
<1> USE AllActors
<1>1. ASSUME NEW t \in Threads, ThreadNext(t)
      PROVE  OwnInv'
  <2>1. CASE \/ Start(t) \/ WaitWhile(t) \/ SpuriousWakeup(t) \/ Expire(t)
              \/ Recheck(t) \/ ReadResult(t) \/ Inspect(t)
    BY <2>1, OwnFrame, Zenon DEF Start, WaitWhile, SpuriousWakeup, Expire, Recheck, ReadResult,
           Inspect, coreVars, jobVars, histVars
  <2>2. CASE \E c \in Callbacks : RegisterCallback(t, c)
    <3> PICK c \in Callbacks : RegisterCallback(t, c)
      BY <2>2
    <3>1. c \notin registered /\ registered' = registered \cup {c} /\ fired' = fired
      BY Zenon DEF RegisterCallback
    <3>2. c \notin callbacks /\ fired[c] = 0 /\ \A b \in Actors : c \notin mine[b]
      BY <3>1, Zenon DEF IInv, OwnInv
    <3>3. CASE state = "Ready"
      <4>1. callbacks' = callbacks
        BY <3>3, Zenon DEF RegisterCallback, Terminal
      <4>2. PICK v : Continue(t, <<"fire">>, {c}, 0, v)
        BY <3>3, Zenon DEF RegisterCallback, Terminal
      <4>3. \A b \in Actors : mine'[b] = IF b = t THEN {c} ELSE mine[b]
        BY <4>2, Zenon DEF Continue, IInv, TypeInv, TypeOK, JobTypes
      <4>4. /\ CallbackOnce' /\ \A e \in Callbacks \ registered' : fired'[e] = 0
            /\ \A e \in callbacks' : e \in registered' /\ fired'[e] = 0
        BY <3>1, <4>1, Zenon DEF IInv, OwnInv, CallbackOnce
      <4>5. ASSUME NEW a \in Actors, NEW e \in mine'[a]
            PROVE  /\ e \in registered' /\ fired'[e] = 0 /\ e \notin callbacks'
                   /\ \A b \in Actors : e \in mine'[b] => b = a
        <5>1. CASE a = t
          <6>1. e = c
            BY <4>3, <5>1, Zenon
          <6> QED
            BY <3>1, <3>2, <4>1, <4>3, <5>1, <6>1, Zenon
        <5>2. CASE a # t
          <6>1. e \in mine[a] /\ e # c
            BY <3>2, <4>3, <5>2, Zenon
          <6>2. /\ e \in registered /\ fired[e] = 0 /\ e \notin callbacks
                /\ \A b \in Actors : e \in mine[b] => b = a
            BY <6>1, Zenon DEF IInv, OwnInv
          <6> QED
            BY <3>1, <4>1, <4>3, <6>1, <6>2, Zenon
        <5> QED
          BY <5>1, <5>2, Zenon
      <4> QED
        BY <4>4, <4>5, Zenon DEF OwnInv
    <3>4. CASE state # "Ready"
      <4>1. callbacks' = callbacks \cup {c} /\ mine' = mine
        BY <3>4, Zenon DEF RegisterCallback, jobVars
      <4> QED
        BY <3>1, <3>2, <4>1, Zenon DEF IInv, OwnInv, CallbackOnce
    <3> QED
      BY <3>3, <3>4
  <2>3. CASE \E timeout \in BOOLEAN : BlockUntilReady(t, timeout)
    <3> PICK timeout \in BOOLEAN : BlockUntilReady(t, timeout)
      BY <2>3
    <3> QED
      BY OwnFrame DEF BlockUntilReady, jobVars
  <2>4. CASE \E exc \in Closings : CloseFuture(t, exc)
    <3> PICK exc \in Closings : CloseFuture(t, exc)
      BY <2>4
    <3>1. UNCHANGED <<fired, registered>> /\ callbacks' = {}
      BY Zenon DEF CloseFuture, Settle, histVars
    <3>2. CASE state = "PendingTokio"
      BY <3>1, <3>2, OwnTake DEF CloseFuture
    <3>3. CASE state # "PendingTokio"
      <4>1. PICK s : Continue(t, s, {}, 0, "none")
        BY <3>3 DEF CloseFuture
      <4> QED
        BY <3>1, <4>1, OwnTake, Zenon
    <3> QED
      BY <3>2, <3>3
  <2> QED
    BY <1>1, <2>1, <2>2, <2>3, <2>4, Zenon DEF ThreadNext
<1>2. ASSUME NEW t \in Awaiters, AwaiterNext(t)
      PROVE  OwnInv'
  <2>1. CASE YieldAsyncioFuture(t) \/ YieldPanics(t)
    BY <2>1, OwnFrame, Zenon DEF YieldAsyncioFuture, YieldPanics, coreVars, jobVars, histVars
  <2>2. CASE PollCoroutine(t)
    BY <2>2, OwnFrame, Zenon DEF PollCoroutine, jobVars
  <2>3. CASE ThrowInto(t)
    <3>1. UNCHANGED <<fired, registered>> /\ callbacks' \in {callbacks, {}}
      BY <2>3 DEF ThrowInto, Settle, histVars
    <3>2. CASE mine' = mine
      BY <3>1, <3>2, OwnFrame
    <3>3. CASE Continue(t, ThrowSteps, callbacks, waiters, "thrown") /\ callbacks' = {}
      BY <3>1, <3>3, OwnTake, Zenon
    <3> QED
      BY <2>3, <3>2, <3>3, Zenon DEF ThrowInto, Settle, jobVars
  <2> QED
    BY <1>2, <2>1, <2>2, <2>3, Zenon DEF AwaiterNext
<1>3. ASSUME NEW t \in Callers, Refused(t)
      PROVE  OwnInv'
  BY <1>3, OwnFrame, Zenon DEF Refused, coreVars, jobVars
<1>4. ASSUME NEW a \in Actors, ActorNext(a)
      PROVE  OwnInv'
  <2>1. CASE Notify(a)
    BY <2>1, OwnFrame DEF Notify, coreVars, jobVars, histVars
  <2>2. CASE Convert(a)
    <3>1. UNCHANGED <<callbacks, fired, registered>>
      BY <2>2, Zenon DEF Convert, histVars
    <3>2. mine' = mine
      BY <2>2, Zenon DEF Convert, Continue, IInv, TypeInv, TypeOK, JobTypes
    <3> QED
      BY <3>1, <3>2, OwnFrame, Zenon
  <2>3. CASE Fire(a)
    <3>1. UNCHANGED <<callbacks, registered>>
      BY <2>3 DEF Fire, coreVars
    <3>2. CASE mine' = mine /\ fired' = fired
      BY <3>1, <3>2, OwnFrame, Zenon
    <3>3. ASSUME NEW c \in mine[a], mine' = [mine EXCEPT ![a] = mine[a] \ {c}],
                 fired' = fired \/ fired' = [fired EXCEPT ![c] = fired[c] + 1]
          PROVE  OwnInv'
      <4>1. /\ c \in Callbacks /\ c \in registered /\ fired[c] = 0 /\ c \notin callbacks
            /\ \A b \in Actors : c \in mine[b] => b = a
        BY Zenon DEF IInv, OwnInv, TypeInv, TypeOK, JobTypes
      <4> mine \in [Actors -> SUBSET Callbacks] /\ fired \in [Callbacks -> Nat]
        BY Zenon DEF IInv, TypeInv, TypeOK, JobTypes, HistTypes
      <4>2. \A b \in Actors : mine'[b] = IF b = a THEN mine[a] \ {c} ELSE mine[b]
        BY <3>3
      <4>3. \A d \in Callbacks : d # c => fired'[d] = fired[d]
        BY <3>3, Zenon
      <4>4. fired'[c] \in {0, 1}
        <5>1. CASE fired' = fired
          BY <4>1, <5>1, Zenon
        <5>2. CASE fired' = [fired EXCEPT ![c] = fired[c] + 1]
          BY <4>1, <5>2
        <5> QED
          BY <3>3, <5>1, <5>2, Zenon
      <4>5. callbacks \subseteq Callbacks /\ \A b \in Actors : mine[b] \subseteq Callbacks
        BY Zenon DEF IInv, TypeInv, TypeOK, CoreTypes, JobTypes
      <4> QED
        BY <3>1, <4>1, <4>2, <4>3, <4>4, <4>5 DEF IInv, OwnInv, CallbackOnce
    <3>4. CASE mine[a] = {}
      BY <2>3, <3>2, <3>4, Zenon DEF Fire
    <3>5. CASE mine[a] # {}
      <4>1. PICK c \in mine[a] : /\ mine' = [mine EXCEPT ![a] = mine[a] \ {c}]
                                 /\ \/ fired' = fired
                                    \/ fired' = [fired EXCEPT ![c] = fired[c] + 1]
        BY <2>3, <3>5, Zenon DEF Fire
      <4> QED
        BY <3>3, <4>1, Zenon
    <3> QED
      BY <3>4, <3>5, Zenon
  <2>4. CASE Wake(a)
    <3>1. UNCHANGED <<callbacks, fired, registered>>
      BY <2>4, Zenon DEF Wake, coreVars
    <3>2. CASE slotPoisoned
      BY <2>4, <3>1, <3>2, OwnTake DEF Wake
    <3>3. CASE ~slotPoisoned
      BY <2>4, <3>1, <3>3, OwnFrame, Zenon DEF Wake
    <3> QED
      BY <3>2, <3>3
  <2> QED
    BY <1>4, <2>1, <2>2, <2>3, <2>4 DEF ActorNext
<1>5. CASE EnvNext
  <2>1. CASE \/ InnerReady \/ StaleWake \/ Drain \/ TaskPoll \/ PoolStart
              \/ Shutdown \/ Stopped
    BY <2>1, OwnFrame, Zenon DEF InnerReady, StaleWake, Drain, TaskPoll, PoolStart, Shutdown,
           Stopped, coreVars, jobVars, histVars
  <2>2. CASE TaskComplete
    <3>1. UNCHANGED <<fired, registered>>
      BY <2>2 DEF TaskComplete
    <3>2. CASE UNCHANGED jobVars
      <4>1. callbacks' \subseteq callbacks
        BY <2>2 DEF TaskComplete, Settle, coreVars
      <4> QED
        BY <3>1, <3>2, <4>1, OwnFrame, Zenon DEF jobVars
    <3>3. CASE ~UNCHANGED jobVars
      <4>1. callbacks' = {}
        BY <2>2, <3>3, Zenon DEF TaskComplete, Settle
      <4>2. PICK b \in {"task", "pool"}, cbs \in {callbacks, {}} :
              Continue(b, FireAndNotify(cbs), cbs, waiters, "none")
        BY <2>2, <3>3, Zenon DEF TaskComplete
      <4> QED
        BY <3>1, <4>1, <4>2, OwnTake, Zenon
    <3> QED
      BY <3>2, <3>3
  <2>3. CASE TaskDrop
    <3>1. UNCHANGED <<fired, registered>>
      BY <2>3, Zenon DEF TaskDrop
    <3>2. CASE task = "polled" /\ StillPending
      BY <2>3, <3>1, <3>2, OwnTake, Zenon DEF TaskDrop, Settle
    <3>3. CASE ~(task = "polled" /\ StillPending)
      BY <2>3, <3>1, <3>3, OwnFrame, Zenon DEF TaskDrop, coreVars, jobVars
    <3> QED
      BY <3>2, <3>3
  <2>4. CASE PoolDrop
    <3>1. UNCHANGED <<callbacks, fired, registered>>
      BY <2>4, Zenon DEF PoolDrop, coreVars
    <3> QED
      BY <2>4, <3>1, OwnTake DEF PoolDrop
  <2> QED
    BY <1>5, <2>1, <2>2, <2>3, <2>4 DEF EnvNext
<1>6. CASE UNCHANGED vars
  BY <1>6 DEF IInv, OwnInv, CallbackOnce, vars, coreVars, jobVars, histVars
<1> QED
  BY <1>1, <1>2, <1>3, <1>4, <1>5, <1>6 DEF Next

-----------------------------------------------------------------------------
(* One outcome. *)

\* A step that reports nothing, on a future nobody was told about or steadily.
LEMMA OutcomeFrame ==
  ASSUME IInv, Steady, seen' \subseteq seen \cup {"PanicException"}
  PROVE  OneOutcome'
BY DEF IInv, OneOutcome, Steady, TypeInv, TypeOK, HistTypes

\* A step that reports the result it leaves in the future.
LEMMA OutcomeTold ==
  ASSUME IInv, Steady, state' = "Ready", seen' = seen \cup {result'}
  PROVE  OneOutcome'
BY DEF IInv, OneOutcome, Steady, TypeInv, TypeOK, HistTypes

\* Every step keeps the one outcome.
LEMMA OutcomeStep ==
  ASSUME IInv, [Next]_vars
  PROVE  OneOutcome'
<1>1. ASSUME NEW t \in Threads, ThreadNext(t)
      PROVE  OneOutcome'
  <2>1. CASE WaitWhile(t) \/ SpuriousWakeup(t) \/ Expire(t) \/ Recheck(t)
    BY <2>1, Zenon DEF WaitWhile, SpuriousWakeup, Expire, Recheck, IInv, OneOutcome, coreVars,
           histVars
  <2>2. CASE Start(t)
    <3>1. Steady
      BY <2>2, Reading, Zenon DEF Start, Steady
    <3> QED
      BY <2>2, <3>1, OutcomeFrame, Zenon DEF Start
  <2>3. CASE \E c \in Callbacks : RegisterCallback(t, c)
    <3> PICK c \in Callbacks : RegisterCallback(t, c)
      BY <2>3, Zenon
    <3>1. Steady
      BY Reading DEF RegisterCallback, Steady, Terminal
    <3> QED
      BY <3>1, OutcomeFrame DEF RegisterCallback
  <2>4. CASE \E timeout \in BOOLEAN : BlockUntilReady(t, timeout)
    <3> PICK timeout \in BOOLEAN : BlockUntilReady(t, timeout)
      BY <2>4
    <3>1. CASE state = "Ready"
      <4>1. Steady /\ state' = "Ready" /\ seen' = seen \cup {result'}
        BY <3>1, Reading, Zenon DEF BlockUntilReady, ReportResult, Terminal, Steady
      <4> QED
        BY <4>1, OutcomeTold, Zenon
    <3>2. CASE state # "Ready"
      BY <3>2, OutcomeFrame DEF BlockUntilReady, Steady
    <3> QED
      BY <3>1, <3>2
  <2>5. CASE ReadResult(t)
    <3>1. Steady /\ state' = "Ready" /\ seen' = seen \cup {result'}
      BY <2>5, Reading DEF ReadResult, ReportResult, Steady
    <3> QED
      BY <3>1, OutcomeTold, Zenon
  <2>6. CASE Inspect(t)
    <3>1. Steady /\ seen' = seen
      BY <2>6, Reading, Zenon DEF Inspect, Steady, histVars
    <3> QED
      BY <3>1, OutcomeFrame, Zenon
  <2>7. CASE \E exc \in Closings : CloseFuture(t, exc)
    <3> PICK exc \in Closings : CloseFuture(t, exc)
      BY <2>7
    <3> QED
      BY OutcomeFrame DEF CloseFuture, Terminal, Steady, histVars
  <2> QED
    BY <1>1, <2>1, <2>2, <2>3, <2>4, <2>5, <2>6, <2>7, Zenon DEF ThreadNext
<1>2. ASSUME NEW t \in Awaiters, AwaiterNext(t)
      PROVE  OneOutcome'
  <2>1. CASE YieldPanics(t)
    BY <2>1 DEF YieldPanics, IInv, OneOutcome, coreVars, histVars
  <2>2. CASE PollCoroutine(t)
    <3>1. CASE state = "Ready"
      <4>1. Steady /\ state' = "Ready" /\ seen' = seen \cup {result'}
        BY <2>2, <3>1, Reading, Zenon DEF PollCoroutine, ReportResult, Steady
      <4> QED
        BY <4>1, OutcomeTold
    <3>2. CASE state = "PendingAsyncio" /\ inner = "ready"
      <4>1. Steady /\ state' = "Ready" /\ seen' = seen \cup {result'}
        BY <2>2, <3>2, Zenon DEF PollCoroutine, Steady
      <4> QED
        BY <4>1, OutcomeTold
    <3>3. CASE ~(state = "Ready" \/ (state = "PendingAsyncio" /\ inner = "ready"))
      BY <2>2, <3>3, OutcomeFrame DEF PollCoroutine, Steady
    <3> QED
      BY <3>1, <3>2, <3>3, Zenon
  <2>3. CASE YieldAsyncioFuture(t)
    <3>1. pc[t] = "park" => state = "PendingAsyncio"
      BY Zenon DEF IInv, ParkInv
    <3>2. Steady /\ seen' = seen
      BY <2>3, <3>1, Zenon DEF YieldAsyncioFuture, Steady, histVars
    <3> QED
      BY <3>2, OutcomeFrame
  <2>4. CASE ThrowInto(t)
    <3>1. Steady /\ seen' = seen
      BY <2>4, Zenon DEF ThrowInto, Terminal, Steady, histVars
    <3> QED
      BY <3>1, OutcomeFrame
  <2> QED
    BY <1>2, <2>1, <2>2, <2>3, <2>4, Zenon DEF AwaiterNext
<1>3. ASSUME NEW t \in Callers, Refused(t)
      PROVE  OneOutcome'
  BY <1>3, OutcomeFrame DEF Refused, Steady, coreVars
<1>4. ASSUME NEW a \in Actors, ActorNext(a)
      PROVE  OneOutcome'
  <2>1. CASE Notify(a) \/ Wake(a)
    BY <2>1 DEF Notify, Wake, IInv, OneOutcome, coreVars, histVars
  <2>2. CASE Convert(a)
    <3>1. Steady /\ seen' = seen
      BY <2>2, Reading, Zenon DEF Convert, Steady, histVars
    <3> QED
      BY <3>1, OutcomeFrame, Zenon
  <2>3. CASE Fire(a)
    <3>1. UNCHANGED <<state, result>>
      BY <2>3, Zenon DEF Fire, coreVars
    <3>2. Steady
      BY <3>1 DEF Steady
    <3>3. CASE seen' = seen
      BY <3>2, <3>3, OutcomeFrame
    <3>4. CASE mine[a] # {} /\ seen' = seen \cup {val[a]}
      <4>1. val[a] = result /\ state = "Ready"
        BY <2>3, <3>4, FiringPlan, Zenon DEF Fire
      <4> QED
        BY <3>1, <3>2, <3>4, <4>1, OutcomeTold, Zenon
    <3> QED
      BY <2>3, <3>3, <3>4, Zenon DEF Fire
  <2> QED
    BY <1>4, <2>1, <2>2, <2>3, Zenon DEF ActorNext
<1>5. CASE EnvNext
  <2>1. CASE \/ InnerReady \/ StaleWake \/ Drain \/ TaskPoll \/ PoolStart
              \/ PoolDrop \/ Shutdown \/ Stopped
    BY <2>1, Zenon DEF InnerReady, StaleWake, Drain, TaskPoll, PoolStart, PoolDrop, Shutdown,
           Stopped, IInv, OneOutcome, coreVars, histVars
  <2>2. CASE TaskComplete
    <3>1. Steady /\ seen' = seen
      BY <2>2, Zenon DEF TaskComplete, StillPending, Steady, coreVars
    <3> QED
      BY <3>1, OutcomeFrame, Zenon
  <2>3. CASE TaskDrop
    <3>1. Steady /\ seen' = seen
      BY <2>3, Zenon DEF TaskDrop, StillPending, Steady, coreVars
    <3> QED
      BY <3>1, OutcomeFrame
  <2> QED
    BY <1>5, <2>1, <2>2, <2>3, Zenon DEF EnvNext
<1>6. CASE UNCHANGED vars
  BY <1>6 DEF IInv, OneOutcome, vars, coreVars, histVars
<1> QED
  BY <1>1, <1>2, <1>3, <1>4, <1>5, <1>6, Zenon DEF Next

-----------------------------------------------------------------------------
(* The invariant. *)

\* The initial states satisfy IInv.
LEMMA InvInit == Init => IInv
<1> SUFFICES ASSUME Init PROVE IInv
  OBVIOUS
<1>1. TypeInv
  BY TypeInit, Zenon
<1>2. ParkInv
  BY AllActors, Zenon DEF Init, ParkInv
<1>3. SettledInv
  BY AllActors, Zenon DEF Init, SettledInv
<1>4. PlanInv
  BY Plans, Zenon DEF Init, PlanInv
<1>5. OwnInv /\ OneOutcome
  BY DEF Init, OwnInv, OneOutcome, CallbackOnce
<1> QED
  BY <1>1, <1>2, <1>3, <1>4, <1>5 DEF IInv

\* Every behaviour of the future keeps IInv.
THEOREM Invariance == Spec => []IInv
<1>1. IInv /\ [Next]_vars => IInv'
  BY TypeStep, CountStep, ParkStep, SettledStep, PlanStep, OwnStep, OutcomeStep
     DEF IInv, TypeInv
<1> QED
  BY InvInit, <1>1, PTL DEF Spec

\* Type correctness: for any number of threads the count of waiters, which
\* wait_while decrements without a check, never goes below zero.
THEOREM TypeCorrect == Spec => []TypeOK
<1>1. IInv => TypeOK
  BY DEF IInv, TypeInv
<1> QED
  BY Invariance, <1>1, PTL

\* All callers, awaiters and callbacks are told the same outcome.
THEOREM OutcomeIsOne == Spec => []OneOutcome
<1>1. IInv => OneOutcome
  BY Zenon DEF IInv
<1> QED
  BY Invariance, <1>1, PTL

\* However many actors race to settle the future, a callback runs at most once.
THEOREM CallbacksOnce == Spec => []CallbackOnce
<1>1. IInv => CallbackOnce
  BY DEF IInv, OwnInv
<1> QED
  BY Invariance, <1>1, PTL

-----------------------------------------------------------------------------
(* A terminal future is final. *)

\* What TerminalIsFinal says of one step.
Final == Terminal => /\ state' = state
                     /\ result' = result \/ (result \in Raw /\ result' \in Conversions(result))

\* Reading keeps it.
LEMMA ReadingFinal ==
  ASSUME IInv, NEW v \in Outcomes, GetOrConvert(v), state' = state
  PROVE  Final
<1>1. CASE result \in Raw
  BY <1>1 DEF Final, GetOrConvert
<1>2. CASE result \notin Raw
  BY <1>2 DEF Final, GetOrConvert, Conversions, Raw
<1> QED
  BY <1>1, <1>2

\* Every step keeps a terminal future as it is.
LEMMA FinalStep ==
  ASSUME IInv, [Next]_vars
  PROVE  Final
<1>1. ASSUME NEW t \in Threads, ThreadNext(t)
      PROVE  Final
  <2>1. CASE WaitWhile(t) \/ SpuriousWakeup(t) \/ Expire(t) \/ Recheck(t)
    BY <2>1, Zenon DEF WaitWhile, SpuriousWakeup, Expire, Recheck, Final, coreVars
  <2>2. CASE Start(t)
    BY <2>2 DEF Start, Final, Terminal
  <2>3. CASE \E c \in Callbacks : RegisterCallback(t, c)
    <3> PICK c \in Callbacks : RegisterCallback(t, c)
      BY <2>3
    <3>1. CASE state = "Ready"
      BY <3>1, ReadingFinal, Zenon DEF RegisterCallback, Terminal
    <3>2. CASE state # "Ready"
      BY <3>2 DEF RegisterCallback, Terminal, Final
    <3> QED
      BY <3>1, <3>2, Zenon
  <2>4. CASE \E timeout \in BOOLEAN : BlockUntilReady(t, timeout)
    <3> PICK timeout \in BOOLEAN : BlockUntilReady(t, timeout)
      BY <2>4
    <3>1. CASE state = "Ready"
      BY <3>1, ReadingFinal, Zenon DEF BlockUntilReady, ReportResult, Terminal
    <3>2. CASE state # "Ready"
      BY <3>2, Zenon DEF BlockUntilReady, Terminal, Final
    <3> QED
      BY <3>1, <3>2, Zenon
  <2>5. CASE ReadResult(t)
    BY <2>5, ReadingFinal, Zenon DEF ReadResult, ReportResult
  <2>6. CASE Inspect(t)
    BY <2>6, ReadingFinal, Zenon DEF Inspect
  <2>7. CASE \E exc \in Closings : CloseFuture(t, exc)
    <3> PICK exc \in Closings : CloseFuture(t, exc)
      BY <2>7
    <3> QED
      BY DEF CloseFuture, Final
  <2> QED
    BY <1>1, <2>1, <2>2, <2>3, <2>4, <2>5, <2>6, <2>7, Zenon DEF ThreadNext
<1>2. ASSUME NEW t \in Awaiters, AwaiterNext(t)
      PROVE  Final
  <2>1. CASE YieldPanics(t)
    BY <2>1 DEF YieldPanics, Final, coreVars
  <2>2. CASE PollCoroutine(t)
    <3>1. CASE state = "Ready"
      BY <2>2, <3>1, ReadingFinal, Zenon DEF PollCoroutine, ReportResult
    <3>2. CASE state # "Ready"
      BY <2>2, <3>2, Zenon DEF PollCoroutine, Terminal, Final
    <3> QED
      BY <3>1, <3>2, Zenon
  <2>3. CASE YieldAsyncioFuture(t)
    <3>1. pc[t] = "park" => ~Terminal
      BY Zenon DEF IInv, ParkInv, Terminal
    <3> QED
      BY <2>3, <3>1 DEF YieldAsyncioFuture, Final
  <2>4. CASE ThrowInto(t)
    BY <2>4, Zenon DEF ThrowInto, Final
  <2> QED
    BY <1>2, <2>1, <2>2, <2>3, <2>4, Zenon DEF AwaiterNext
<1>3. ASSUME NEW t \in Callers, Refused(t)
      PROVE  Final
  BY <1>3 DEF Refused, Final, coreVars
<1>4. ASSUME NEW a \in Actors, ActorNext(a)
      PROVE  Final
  <2>1. CASE Fire(a) \/ Notify(a) \/ Wake(a)
    BY <2>1, Zenon DEF Fire, Notify, Wake, Final, coreVars
  <2>2. CASE Convert(a)
    BY <2>2, ReadingFinal DEF Convert
  <2> QED
    BY <1>4, <2>1, <2>2, Zenon DEF ActorNext
<1>5. CASE EnvNext
  <2>1. CASE \/ InnerReady \/ StaleWake \/ Drain \/ TaskPoll \/ PoolStart
              \/ PoolDrop \/ Shutdown \/ Stopped
    BY <2>1, Zenon DEF InnerReady, StaleWake, Drain, TaskPoll, PoolStart, PoolDrop, Shutdown,
           Stopped, Final, coreVars
  <2>2. CASE TaskComplete
    BY <2>2, Zenon DEF TaskComplete, StillPending, Terminal, Final, coreVars
  <2>3. CASE TaskDrop
    BY <2>3, Zenon DEF TaskDrop, StillPending, Terminal, Final, coreVars
  <2> QED
    BY <1>5, <2>1, <2>2, <2>3, Zenon DEF EnvNext
<1>6. CASE UNCHANGED vars
  BY <1>6 DEF Final, vars, coreVars
<1> QED
  BY <1>1, <1>2, <1>3, <1>4, <1>5, <1>6, Zenon DEF Next

\* A late completion, a second cancel or a racing throw cannot change the outcome
\* of a future that is settled.
THEOREM FinalOutcome == Spec => TerminalIsFinal
<1>1. IInv /\ [Next]_vars => [Final]_vars
  BY FinalStep, Zenon
<1>2. [Final]_vars => [Terminal => /\ state' = state
                                   /\ result' = result \/ (result \in Raw /\ result' \in Conversions(result))]_vars
  BY DEF Final
<1> QED
  BY Invariance, <1>1, <1>2, PTL DEF Spec, TerminalIsFinal

-----------------------------------------------------------------------------
(* The future implements Promise. *)

\* A step of the promise, or none.
PromiseStep == [Promised!Next]_(Promised!promiseVars)

\* A step that calls no callback and may report the outcome it leaves.
LEMMA PromiseFrame ==
  ASSUME IInv, fired' = fired, result \in Outcomes => result' = result,
         toldBar' = toldBar \/ (result' \in Outcomes /\ toldBar' = toldBar \cup {result'})
  PROVE  PromiseStep
<1>1. CASE result \in Outcomes
  <2>1. outcomeBar = result /\ outcomeBar' = outcomeBar /\ result # "none"
    BY <1>1 DEF outcomeBar, Outcomes
  <2>2. CASE toldBar' = toldBar
    BY <2>1, <2>2, Zenon DEF PromiseStep, Promised!promiseVars
  <2>3. CASE toldBar' = toldBar \cup {result'}
    BY <1>1, <2>1, <2>3 DEF PromiseStep, Promised!Next, Promised!Tell
  <2> QED
    BY <2>2, <2>3, Zenon
<1>2. CASE result \notin Outcomes /\ result' \notin Outcomes
  BY <1>2, Zenon DEF outcomeBar, PromiseStep, Promised!promiseVars
<1>3. CASE result \notin Outcomes /\ result' \in Outcomes
  <2>1. outcomeBar = "none" /\ outcomeBar' = result'
    BY <1>3 DEF outcomeBar
  <2>2. Promised!Fix(result')
    BY <2>1 DEF Promised!Fix
  <2> QED
    BY <1>3, <2>2, Zenon DEF PromiseStep, Promised!Next
<1> QED
  BY <1>1, <1>2, <1>3

\* What a step reports, given what it adds to seen.
LEMMA Told ==
  /\ seen' = seen => toldBar' = toldBar
  /\ seen' = seen \cup {"PanicException"} => toldBar' = toldBar
  /\ result' \in Outcomes /\ seen' = seen \cup {result'} => toldBar' = toldBar \cup {result'}
BY Zenon DEF toldBar, Outcomes

\* A future that is not Ready has no outcome yet.
LEMMA NoneYet == IInv /\ state # "Ready" => result \notin Outcomes
BY Zenon DEF IInv, SettledInv, Outcomes

\* Every step of the future is a step of the promise or changes nothing of it.
LEMMA PromiseNext ==
  ASSUME IInv, [Next]_vars
  PROVE  PromiseStep
<1>1. ASSUME NEW t \in Threads, ThreadNext(t)
      PROVE  PromiseStep
  <2>1. CASE WaitWhile(t) \/ SpuriousWakeup(t) \/ Expire(t) \/ Recheck(t)
    BY <2>1, Zenon DEF WaitWhile, SpuriousWakeup, Expire, Recheck, PromiseStep,
           Promised!promiseVars, outcomeBar, toldBar, coreVars, histVars
  <2>2. CASE Start(t)
    <3>1. fired' = fired /\ seen' = seen
      BY <2>2, Zenon DEF Start, histVars
    <3>2. result \in Outcomes => result' = result
      BY <2>2, Reading, NoneYet, Zenon DEF Start
    <3> QED
      BY <3>1, <3>2, Told, PromiseFrame, Zenon
  <2>3. CASE \E c \in Callbacks : RegisterCallback(t, c)
    <3> PICK c \in Callbacks : RegisterCallback(t, c)
      BY <2>3
    <3>1. fired' = fired /\ seen' = seen
      BY Zenon DEF RegisterCallback, histVars
    <3>2. result \in Outcomes => result' = result
      BY Reading, NoneYet, Zenon DEF RegisterCallback, Terminal
    <3> QED
      BY <3>1, <3>2, Told, PromiseFrame, Zenon
  <2>4. CASE \E timeout \in BOOLEAN : BlockUntilReady(t, timeout)
    <3> PICK timeout \in BOOLEAN : BlockUntilReady(t, timeout)
      BY <2>4
    <3>1. fired' = fired
      BY Zenon DEF BlockUntilReady
    <3>2. CASE state = "Ready"
      <4>1. PICK v \in Outcomes : GetOrConvert(v) /\ seen' = seen \cup {v}
        BY <3>2, Zenon DEF BlockUntilReady, ReportResult, Terminal
      <4> QED
        BY <3>1, <4>1, Reading, Told, PromiseFrame, Zenon
    <3>3. CASE state # "Ready"
      <4>1. UNCHANGED <<result, seen>>
        BY <3>3, Zenon DEF BlockUntilReady
      <4> QED
        BY <3>1, <4>1, Told, PromiseFrame, Zenon
    <3> QED
      BY <3>2, <3>3
  <2>5. CASE ReadResult(t)
    <3>1. PICK v \in Outcomes : GetOrConvert(v) /\ seen' = seen \cup {v}
      BY <2>5, Zenon DEF ReadResult, ReportResult
    <3>2. fired' = fired
      BY <2>5, Zenon DEF ReadResult
    <3> QED
      BY <3>1, <3>2, Reading, Told, PromiseFrame, Zenon
  <2>6. CASE Inspect(t)
    <3>1. fired' = fired /\ seen' = seen
      BY <2>6, Zenon DEF Inspect, histVars
    <3>2. result \in Outcomes => result' = result
      BY <2>6, Reading, NoneYet, Zenon DEF Inspect
    <3> QED
      BY <3>1, <3>2, Told, PromiseFrame
  <2>7. CASE \E exc \in Closings : CloseFuture(t, exc)
    <3> PICK exc \in Closings : CloseFuture(t, exc)
      BY <2>7
    <3>1. fired' = fired /\ seen' = seen
      BY Zenon DEF CloseFuture, histVars
    <3>2. result \in Outcomes => result' = result
      BY Reading, NoneYet, Zenon DEF CloseFuture, Terminal
    <3> QED
      BY <3>1, <3>2, Told, PromiseFrame, Zenon
  <2> QED
    BY <1>1, <2>1, <2>2, <2>3, <2>4, <2>5, <2>6, <2>7 DEF ThreadNext
<1>2. ASSUME NEW t \in Awaiters, AwaiterNext(t)
      PROVE  PromiseStep
  <2>1. CASE YieldAsyncioFuture(t) \/ YieldPanics(t)
    BY <2>1 DEF YieldAsyncioFuture, YieldPanics, PromiseStep, Promised!promiseVars,
           outcomeBar, toldBar, coreVars, histVars
  <2>2. CASE PollCoroutine(t)
    <3>1. fired' = fired
      BY <2>2, Zenon DEF PollCoroutine
    <3>2. CASE state = "Ready"
      <4>1. PICK v \in Outcomes : GetOrConvert(v) /\ seen' = seen \cup {v}
        BY <2>2, <3>2, Zenon DEF PollCoroutine, ReportResult
      <4> QED
        BY <3>1, <4>1, Reading, Told, PromiseFrame, Zenon
    <3>3. CASE state = "PendingAsyncio" /\ inner = "ready"
      <4>1. seen' = seen \cup {result'} /\ result' \in UNION {Conversions(r) : r \in Raw}
        BY <2>2, <3>3 DEF PollCoroutine
      <4>2. result' \in Outcomes
        BY <4>1, Zenon DEF Conversions, Raw, Outcomes
      <4> QED
        BY <3>1, <3>3, <4>1, <4>2, NoneYet, Told, PromiseFrame, Zenon
    <3>4. CASE ~(state = "Ready" \/ (state = "PendingAsyncio" /\ inner = "ready"))
      <4>1. UNCHANGED <<result, seen>>
        BY <2>2, <3>4, Zenon DEF PollCoroutine
      <4> QED
        BY <3>1, <4>1, Told, PromiseFrame, Zenon
    <3> QED
      BY <3>2, <3>3, <3>4, Zenon
  <2>3. CASE ThrowInto(t)
    <3>1. fired' = fired /\ seen' = seen
      BY <2>3, Zenon DEF ThrowInto, histVars
    <3>2. result \in Outcomes => result' = result
      BY <2>3, Reading, NoneYet, Zenon DEF ThrowInto, Terminal
    <3> QED
      BY <3>1, <3>2, Told, PromiseFrame
  <2> QED
    BY <1>2, <2>1, <2>2, <2>3, Zenon DEF AwaiterNext
<1>3. ASSUME NEW t \in Callers, Refused(t)
      PROVE  PromiseStep
  <2>1. fired' = fired /\ result' = result /\ seen' = seen \cup {"PanicException"}
    BY <1>3 DEF Refused, coreVars
  <2> QED
    BY <2>1, Told, PromiseFrame, Zenon
<1>4. ASSUME NEW a \in Actors, ActorNext(a)
      PROVE  PromiseStep
  <2>1. CASE Notify(a) \/ Wake(a)
    BY <2>1, Zenon DEF Notify, Wake, PromiseStep, Promised!promiseVars, outcomeBar, toldBar,
           coreVars, histVars
  <2>2. CASE Convert(a)
    <3>1. fired' = fired /\ seen' = seen
      BY <2>2, Zenon DEF Convert, histVars
    <3>2. result \in Outcomes => result' = result
      BY <2>2, Reading, NoneYet, Zenon DEF Convert
    <3> QED
      BY <3>1, <3>2, Told, PromiseFrame, Zenon
  <2>3. CASE Fire(a)
    <3>1. result' = result
      BY <2>3, Zenon DEF Fire, coreVars
    <3>2. CASE UNCHANGED <<fired, seen>>
      BY <3>1, <3>2, Told, PromiseFrame, Zenon
    <3>3. CASE ~UNCHANGED <<fired, seen>>
      <4>1. PICK c \in mine[a] : /\ Matches(KindOf[c], val[a])
                                 /\ fired' = [fired EXCEPT ![c] = fired[c] + 1]
                                 /\ seen' = seen \cup {val[a]}
        BY <2>3, <3>3, Zenon DEF Fire
      <4>2. val[a] = result /\ result \in Outcomes
        BY <2>3, <4>1, FiringPlan, Zenon DEF Fire
      <4>3. fired[c] = 0 /\ c \in Callbacks
        BY <4>1, Zenon DEF IInv, OwnInv, TypeInv, TypeOK, JobTypes
      <4>4. outcomeBar = result /\ outcomeBar' = outcomeBar /\ outcomeBar # "none"
        BY <3>1, <4>2, Zenon DEF outcomeBar, Outcomes
      <4>5. toldBar' = toldBar \cup {outcomeBar}
        BY <3>1, <4>1, <4>2, <4>4, Told, Zenon
      <4>6. fired' = [fired EXCEPT ![c] = 1]
        <5>1. fired[c] + 1 = 1
          BY <4>3
        <5> QED
          BY <4>1, <5>1, Zenon
      <4>7. Promised!Call(c)
        BY <4>1, <4>2, <4>3, <4>4, <4>5, <4>6, Zenon DEF Promised!Call, Fits
      <4> QED
        BY <4>3, <4>7, Zenon DEF PromiseStep, Promised!Next
    <3> QED
      BY <3>2, <3>3
  <2> QED
    BY <1>4, <2>1, <2>2, <2>3, Zenon DEF ActorNext
<1>5. CASE EnvNext
  <2>1. CASE \/ InnerReady \/ StaleWake \/ Drain \/ TaskPoll \/ PoolStart
              \/ PoolDrop \/ Shutdown \/ Stopped
    BY <2>1, Zenon DEF InnerReady, StaleWake, Drain, TaskPoll, PoolStart, PoolDrop, Shutdown,
           Stopped, PromiseStep, Promised!promiseVars, outcomeBar, toldBar, coreVars,
           histVars
  <2>2. CASE TaskComplete
    <3>1. fired' = fired /\ seen' = seen
      BY <2>2, Zenon DEF TaskComplete, histVars
    <3>2. result \in Outcomes => result' = result
      BY <2>2, Reading, NoneYet, Zenon DEF TaskComplete, StillPending, coreVars
    <3> QED
      BY <3>1, <3>2, Told, PromiseFrame, Zenon
  <2>3. CASE TaskDrop
    <3>1. fired' = fired /\ seen' = seen
      BY <2>3, Zenon DEF TaskDrop, histVars
    <3>2. result \in Outcomes => result' = result
      BY <2>3, Reading, NoneYet, Zenon DEF TaskDrop, StillPending, coreVars
    <3> QED
      BY <3>1, <3>2, Told, PromiseFrame
  <2> QED
    BY <1>5, <2>1, <2>2, <2>3 DEF EnvNext
<1>6. CASE UNCHANGED vars
  BY <1>6 DEF PromiseStep, Promised!promiseVars, outcomeBar, toldBar, vars, coreVars,
         histVars
<1> QED
  BY <1>1, <1>2, <1>3, <1>4, <1>5, <1>6 DEF Next

\* The future implements the promise: one outcome, told to everybody, callbacks
\* called at most once and only with an outcome they fit.
THEOREM PromiseKept == Spec => ImplementsPromise
<1>1. Init => Promised!Init
  BY DEF Init, Promised!Init, outcomeBar, toldBar, Outcomes
<1>2. IInv /\ [Next]_vars => [Promised!Next]_(Promised!promiseVars)
  BY PromiseNext DEF PromiseStep
<1> QED
  BY Invariance, <1>1, <1>2, PTL DEF Spec, ImplementsPromise, Promised!Spec

=============================================================================

---------------------------- MODULE BatcherProofs ----------------------------
(***************************************************************************)
(* For any loops, addresses, batchers, futures and workers: a future that  *)
(* parks gets the batcher of its own loop, a queued one is drained, and a  *)
(* batch costs the loop exactly one drain.                                 *)
(***************************************************************************)
EXTENDS Batcher, FiniteSetTheorems, TLAPS

\* A future that is parking is parking on an open loop. A batcher it built is of
\* that loop, empty, and nobody else's until it is registered.
FutsInv ==
  \A f \in Futs :
    /\ where[f] = "free" => home[f] = "none" /\ via[f] = "none"
    /\ where[f] # "free" => home[f] \in Loops
    /\ where[f] \in {"build", "insert"} => life[home[f]] = "open"
    /\ where[f] = "build" => via[f] = "none"
    /\ where[f] \notin {"free", "build"} => via[f] \in Batchers
    /\ where[f] = "insert" =>
         /\ owner[via[f]] = home[f] /\ ~armed[via[f]]
         /\ kind[via[f]] = "Pipe" => via[f] \in readers
         /\ \A a \in Addrs : registry[a] # via[f]
         /\ \A g \in Futs : via[g] = via[f] => g = f

\* A registered batcher is of the loop that lives at its address, and is read by it.
RegistryInv ==
  /\ \A a \in Addrs : registry[a] # "none" =>
       /\ owner[registry[a]] \in Loops
       /\ AddrOf[owner[registry[a]]] = a
       /\ Alive(owner[registry[a]])
       /\ kind[registry[a]] = "Pipe" /\ life[owner[registry[a]]] = "open" =>
            registry[a] \in readers
  /\ \A l, m \in Loops : Alive(l) /\ Alive(m) /\ AddrOf[l] = AddrOf[m] => l = m
  /\ \A b \in Batchers : owner[b] \in Loops => life[owner[b]] # "unborn"

\* A worker that pushes holds a future it alone took; one that notifies, the
\* batcher of a loop that is dead or registered with it.
WorkerInv(w) ==
  /\ job[w] = "push" => /\ where[holds[w]] = "taken"
                        /\ \A v \in Workers : job[v] = "push" /\ holds[v] = holds[w] => v = w
  /\ job[w] \in {"notify", "discard"} =>
       /\ owner[holds[w]] \in Loops
       /\ \/ life[owner[holds[w]]] = "dead"
          \/ registry[AddrOf[owner[holds[w]]]] = holds[w]

WorkersInv == \A w \in Workers : WorkerInv(w)

\* What a batcher holds was queued on it, after it was armed.
QueueInv ==
  \A b \in Batchers : /\ queue[b] # {} => armed[b]
                      /\ \A f \in queue[b] : where[f] = "queued" /\ via[f] = b

\* An armed batcher has a drain coming, whether or not anything is queued: this is
\* what the pushes that do not notify rely on.
ArmedInv ==
  \A a \in Addrs :
    registry[a] # "none" /\ armed[registry[a]] /\ life[owner[registry[a]]] = "open" =>
      DrainToCome(registry[a], owner[registry[a]])

IInv == /\ TypeOK /\ FutsInv /\ RegistryInv /\ SharedBatcher
        /\ WorkersInv /\ QueueInv /\ ArmedInv

-----------------------------------------------------------------------------

\* An armed batcher, x = 1, is owed one drain and another, x = 0, none: n workers are
\* about to notify, s callbacks are scheduled, p bytes are in the pipe, d drains run.
Bit == {0, 1}
Tally(x, n, s, p, d) == x = n + s + p + d

\* A drain that starts takes the one callback, or the one byte, that announced it.
LEMMA TallyStarts ==
  ASSUME NEW x \in Bit, NEW n \in Nat, NEW s \in Nat, NEW p \in Nat, NEW t,
         Tally(x, n, s, p, 0),
         (s > 0 /\ t = s - 1) \/ (p > 0 /\ t = s)
  PROVE  Tally(x, n, t, 0, 1)
BY DEF Tally, Bit

\* A drain that ends was the only one to come.
LEMMA TallyEnds ==
  ASSUME NEW x \in Bit, NEW n \in Nat, NEW s \in Nat, NEW p \in Nat,
         Tally(x, n, s, p, 1)
  PROVE  Tally(0, n, s, p, 0)
BY DEF Tally, Bit

\* The push that arms goes on to notify.
LEMMA TallyArms ==
  ASSUME NEW n \in Nat, NEW s \in Nat, NEW p \in Nat, NEW d \in Bit,
         Tally(0, n, s, p, d)
  PROVE  Tally(1, n + 1, s, p, d)
BY DEF Tally, Bit

\* A notification is a byte in a pipe that was empty.
LEMMA TallyPiped ==
  ASSUME NEW x \in Bit, NEW n \in Nat, NEW s \in Nat, NEW p \in Nat, NEW d \in Bit,
         Tally(x, n, s, p, d), n > 0
  PROVE  p = 0 /\ Tally(x, n - 1, s, 1, d)
BY DEF Tally, Bit

\* Or it is a scheduled callback.
LEMMA TallyScheduled ==
  ASSUME NEW x \in Bit, NEW n \in Nat, NEW s \in Nat, NEW p \in Nat, NEW d \in Bit,
         Tally(x, n, s, p, d), n > 0
  PROVE  Tally(x, n - 1, s + 1, p, d)
BY DEF Tally, Bit

\* Or the queue is discarded, and with it the drain it was owed.
LEMMA TallyDiscarded ==
  ASSUME NEW x \in Bit, NEW n \in Nat, NEW s \in Nat, NEW p \in Nat, NEW d \in Bit,
         Tally(x, n, s, p, d), n > 0
  PROVE  Tally(0, n - 1, s, p, d)
BY DEF Tally, Bit

\* A batcher that was just built is owed nothing.
LEMMA TallyNew == Tally(0, 0, 0, 0, 0)
BY DEF Tally, Bit

\* A byte into an empty pipe, which has room for one.
LEMMA FirstByte ==
  ASSUME NEW size \in Nat \ {0}
  PROVE  (IF 0 < size THEN 0 + 1 ELSE 0) = 1
OBVIOUS

\* call_soon_threadsafe adds one to what a loop has scheduled.
LEMMA ScheduleType ==
  ASSUME NEW s \in [Loops -> Nat], NEW l \in Loops
  PROVE  [s EXCEPT ![l] = @ + 1] \in [Loops -> Nat]
OBVIOUS

\* Every step keeps the types.
LEMMA TypeStep ==
  ASSUME IInv, [Next]_vars
  PROVE  TypeOK'
<1> USE NoneAssumption, AddrAssumption, PipeAssumption
    DEF IInv, TypeOK, WorkersInv, WorkerInv, FutsInv, SharedBatcher,
        loopVars, stateVars, notifierVars, futVars, jobVars
<1>1. ASSUME NEW l \in Loops, Open(l) PROVE TypeOK'
  BY <1>1, Zenon DEF Open
<1>2. ASSUME NEW l \in Loops, Close(l) PROVE TypeOK'
  BY <1>2, Zenon DEF Close
<1>3. ASSUME NEW l \in Loops, Die(l) PROVE TypeOK'
  BY <1>3, Zenon DEF Die
<1>4. ASSUME NEW l \in Loops, DrainStart(l) PROVE TypeOK'
  BY <1>4 DEF DrainStart
<1>5. ASSUME NEW l \in Loops, DrainTake(l) PROVE TypeOK'
  BY <1>5 DEF DrainTake, Drop
<1>6. ASSUME NEW f \in Futs, NEW l \in Loops, ParkHit(f, l) PROVE TypeOK'
  BY <1>6 DEF ParkHit
<1>7. ASSUME NEW f \in Futs, NEW l \in Loops, ParkMiss(f, l) PROVE TypeOK'
  BY <1>7, Zenon DEF ParkMiss
<1>8. ASSUME NEW f \in Futs, NEW b \in Batchers, NEW k \in {"Pipe", "CallSoon"},
             NewBatcher(f, b, k)
      PROVE  TypeOK'
  BY <1>8 DEF NewBatcher, Free
<1>9. ASSUME NEW f \in Futs, Register(f) PROVE TypeOK'
  BY <1>9 DEF Register
<1>10. ASSUME NEW f \in Futs, Forget(f) PROVE TypeOK'
  BY <1>10 DEF Forget, Drop
<1>11. ASSUME NEW w \in Workers, NEW f \in Futs, TakeParked(w, f) PROVE TypeOK'
  BY <1>11 DEF TakeParked
<1>12. ASSUME NEW w \in Workers, Push(w) PROVE TypeOK'
  BY <1>12 DEF Push
<1>13. ASSUME NEW w \in Workers, NotifyPipe(w) PROVE TypeOK'
  BY <1>13 DEF NotifyPipe
<1>14. ASSUME NEW w \in Workers, NotifyCallSoon(w) PROVE TypeOK'
  <2>1. CASE /\ soon' = [soon EXCEPT ![owner[holds[w]]] = @ + 1]
             /\ job' = [job EXCEPT ![w] = "idle"] /\ holds' = [holds EXCEPT ![w] = "none"]
    <3>1. UNCHANGED <<life, draining, registry, stateVars, notifierVars, futVars>>
      BY <1>14, Zenon DEF NotifyCallSoon
    <3>2. owner[holds[w]] \in Loops
      BY <1>14, Zenon DEF NotifyCallSoon
    <3>3. soon' \in [Loops -> Nat]
      BY <2>1, <3>2, ScheduleType, Zenon
    <3> QED
      BY <2>1, <3>1, <3>3
  <2>2. CASE job' = [job EXCEPT ![w] = "discard"] /\ UNCHANGED <<soon, holds>>
    <3>1. /\ UNCHANGED <<life, draining, registry, stateVars, notifierVars, futVars>>
          /\ job[w] = "notify"
      BY <1>14, Zenon DEF NotifyCallSoon
    <3> QED
      BY <2>2, <3>1
  <2> QED
    BY <1>14, <2>1, <2>2, Zenon DEF NotifyCallSoon
<1>15. ASSUME NEW w \in Workers, Discard(w) PROVE TypeOK'
  BY <1>15 DEF Discard, Drop
<1>16. CASE UNCHANGED vars
  BY <1>16, Zenon DEF vars
<1> HIDE DEF IInv, TypeOK, WorkersInv, WorkerInv, FutsInv, SharedBatcher
<1> QED
  BY <1>1, <1>2, <1>3, <1>4, <1>5, <1>6, <1>7, <1>8, <1>9, <1>10, <1>11, <1>12, <1>13,
     <1>14, <1>15,
     <1>16, Zenon
  DEF Next, LoopNext, FutNext, WorkerNext, Notify

\* Every step keeps FutsInv.
LEMMA FutsStep ==
  ASSUME IInv, [Next]_vars
  PROVE  FutsInv'
<1> USE NoneAssumption, AddrAssumption, PipeAssumption
    DEF IInv, TypeOK, FutsInv, RegistryInv, SharedBatcher, WorkersInv, WorkerInv, QueueInv, Alive,
        loopVars, stateVars, notifierVars, futVars, jobVars
<1>1. ASSUME NEW l \in Loops, Open(l) PROVE FutsInv'
  BY <1>1 DEF Open
<1>2. ASSUME NEW l \in Loops, Close(l) PROVE FutsInv'
  BY <1>2 DEF Close
<1>3. ASSUME NEW l \in Loops, Die(l) PROVE FutsInv'
  BY <1>3 DEF Die
<1>4. ASSUME NEW l \in Loops, DrainStart(l) PROVE FutsInv'
  BY <1>4 DEF DrainStart
<1>5. ASSUME NEW l \in Loops, DrainTake(l) PROVE FutsInv'
  BY <1>5 DEF DrainTake, Drop
<1>6. ASSUME NEW f \in Futs, NEW l \in Loops, ParkHit(f, l) PROVE FutsInv'
  BY <1>6 DEF ParkHit
<1>7. ASSUME NEW f \in Futs, NEW l \in Loops, ParkMiss(f, l) PROVE FutsInv'
  BY <1>7 DEF ParkMiss
<1>8. ASSUME NEW f \in Futs, NEW b \in Batchers, NEW k \in {"Pipe", "CallSoon"},
             NewBatcher(f, b, k)
      PROVE  FutsInv'
  BY <1>8 DEF NewBatcher, Free
<1>9. ASSUME NEW f \in Futs, Register(f) PROVE FutsInv'
  BY <1>9 DEF Register
<1>10. ASSUME NEW f \in Futs, Forget(f) PROVE FutsInv'
  BY <1>10 DEF Forget, Drop
<1>11. ASSUME NEW w \in Workers, NEW f \in Futs, TakeParked(w, f) PROVE FutsInv'
  BY <1>11 DEF TakeParked
<1>12. ASSUME NEW w \in Workers, Push(w) PROVE FutsInv'
  BY <1>12 DEF Push
<1>13. ASSUME NEW w \in Workers, NotifyPipe(w) PROVE FutsInv'
  BY <1>13 DEF NotifyPipe
<1>14. ASSUME NEW w \in Workers, NotifyCallSoon(w) PROVE FutsInv'
  BY <1>14 DEF NotifyCallSoon
<1>15. ASSUME NEW w \in Workers, Discard(w) PROVE FutsInv'
  BY <1>15 DEF Discard, Drop
<1>16. CASE UNCHANGED vars
  BY <1>16 DEF vars
<1> HIDE DEF IInv, TypeOK, FutsInv, RegistryInv, SharedBatcher,
             WorkersInv, WorkerInv, QueueInv, Alive
<1> QED
  BY <1>1, <1>2, <1>3, <1>4, <1>5, <1>6, <1>7, <1>8, <1>9, <1>10, <1>11, <1>12, <1>13,
     <1>14, <1>15,
     <1>16
  DEF Next, LoopNext, FutNext, WorkerNext, Notify

\* Every step keeps RegistryInv.
LEMMA RegistryStep ==
  ASSUME IInv, [Next]_vars
  PROVE  RegistryInv'
<1> USE NoneAssumption, AddrAssumption, PipeAssumption
    DEF IInv, TypeOK, FutsInv, RegistryInv, Alive,
        loopVars, stateVars, notifierVars, futVars, jobVars
<1>1. ASSUME NEW l \in Loops, Open(l) PROVE RegistryInv'
  BY <1>1 DEF Open
<1>2. ASSUME NEW l \in Loops, Close(l) PROVE RegistryInv'
  BY <1>2 DEF Close
<1>3. ASSUME NEW l \in Loops, Die(l) PROVE RegistryInv'
  BY <1>3 DEF Die
<1>4. ASSUME NEW l \in Loops, DrainStart(l) PROVE RegistryInv'
  BY <1>4 DEF DrainStart
<1>5. ASSUME NEW l \in Loops, DrainTake(l) PROVE RegistryInv'
  BY <1>5 DEF DrainTake, Drop
<1>6. ASSUME NEW f \in Futs, NEW l \in Loops, ParkHit(f, l) PROVE RegistryInv'
  BY <1>6 DEF ParkHit
<1>7. ASSUME NEW f \in Futs, NEW l \in Loops, ParkMiss(f, l) PROVE RegistryInv'
  BY <1>7 DEF ParkMiss
<1>8. ASSUME NEW f \in Futs, NEW b \in Batchers, NEW k \in {"Pipe", "CallSoon"},
             NewBatcher(f, b, k)
      PROVE  RegistryInv'
  BY <1>8 DEF NewBatcher, Free
<1>9. ASSUME NEW f \in Futs, Register(f) PROVE RegistryInv'
  BY <1>9 DEF Register
<1>10. ASSUME NEW f \in Futs, Forget(f) PROVE RegistryInv'
  BY <1>10 DEF Forget, Drop
<1>11. ASSUME NEW w \in Workers, NEW f \in Futs, TakeParked(w, f) PROVE RegistryInv'
  BY <1>11 DEF TakeParked
<1>12. ASSUME NEW w \in Workers, Push(w) PROVE RegistryInv'
  BY <1>12 DEF Push
<1>13. ASSUME NEW w \in Workers, NotifyPipe(w) PROVE RegistryInv'
  BY <1>13 DEF NotifyPipe
<1>14. ASSUME NEW w \in Workers, NotifyCallSoon(w) PROVE RegistryInv'
  BY <1>14 DEF NotifyCallSoon
<1>15. ASSUME NEW w \in Workers, Discard(w) PROVE RegistryInv'
  BY <1>15 DEF Discard, Drop
<1>16. CASE UNCHANGED vars
  BY <1>16 DEF vars
<1> HIDE DEF IInv, TypeOK, FutsInv, RegistryInv, Alive
<1> QED
  BY <1>1, <1>2, <1>3, <1>4, <1>5, <1>6, <1>7, <1>8, <1>9, <1>10, <1>11, <1>12, <1>13,
     <1>14, <1>15,
     <1>16
  DEF Next, LoopNext, FutNext, WorkerNext, Notify

\* Every step keeps SharedBatcher.
LEMMA SharedStep ==
  ASSUME IInv, [Next]_vars
  PROVE  SharedBatcher'
<1> USE NoneAssumption, AddrAssumption, PipeAssumption
    DEF IInv, TypeOK, FutsInv, RegistryInv, SharedBatcher, WorkersInv, WorkerInv, QueueInv, Alive,
        loopVars, stateVars, notifierVars, futVars, jobVars
<1>1. ASSUME NEW l \in Loops, Open(l) PROVE SharedBatcher'
  BY <1>1, Zenon DEF Open
<1>2. ASSUME NEW l \in Loops, Close(l) PROVE SharedBatcher'
  BY <1>2, Zenon DEF Close
<1>3. ASSUME NEW l \in Loops, Die(l) PROVE SharedBatcher'
  BY <1>3 DEF Die
<1>4. ASSUME NEW l \in Loops, DrainStart(l) PROVE SharedBatcher'
  BY <1>4, Zenon DEF DrainStart
<1>5. ASSUME NEW l \in Loops, DrainTake(l) PROVE SharedBatcher'
  BY <1>5, Zenon DEF DrainTake, Drop
<1>6. ASSUME NEW f \in Futs, NEW l \in Loops, ParkHit(f, l) PROVE SharedBatcher'
  BY <1>6 DEF ParkHit
<1>7. ASSUME NEW f \in Futs, NEW l \in Loops, ParkMiss(f, l) PROVE SharedBatcher'
  BY <1>7 DEF ParkMiss
<1>8. ASSUME NEW f \in Futs, NEW b \in Batchers, NEW k \in {"Pipe", "CallSoon"},
             NewBatcher(f, b, k)
      PROVE  SharedBatcher'
  BY <1>8 DEF NewBatcher, Free
<1>9. ASSUME NEW f \in Futs, Register(f) PROVE SharedBatcher'
  BY <1>9 DEF Register
<1>10. ASSUME NEW f \in Futs, Forget(f) PROVE SharedBatcher'
  BY <1>10 DEF Forget, Drop
<1>11. ASSUME NEW w \in Workers, NEW f \in Futs, TakeParked(w, f) PROVE SharedBatcher'
  BY <1>11 DEF TakeParked
<1>12. ASSUME NEW w \in Workers, Push(w) PROVE SharedBatcher'
  BY <1>12 DEF Push
<1>13. ASSUME NEW w \in Workers, NotifyPipe(w) PROVE SharedBatcher'
  BY <1>13, Zenon DEF NotifyPipe
<1>14. ASSUME NEW w \in Workers, NotifyCallSoon(w) PROVE SharedBatcher'
  BY <1>14, Zenon DEF NotifyCallSoon
<1>15. ASSUME NEW w \in Workers, Discard(w) PROVE SharedBatcher'
  BY <1>15, Zenon DEF Discard, Drop
<1>16. CASE UNCHANGED vars
  BY <1>16, Zenon DEF vars
<1> HIDE DEF IInv, TypeOK, FutsInv, RegistryInv, SharedBatcher,
             WorkersInv, WorkerInv, QueueInv, Alive
<1> QED
  BY <1>1, <1>2, <1>3, <1>4, <1>5, <1>6, <1>7, <1>8, <1>9, <1>10, <1>11, <1>12, <1>13,
     <1>14, <1>15,
     <1>16
  DEF Next, LoopNext, FutNext, WorkerNext, Notify

\* Every step keeps WorkersInv.
LEMMA WorkersStep ==
  ASSUME IInv, [Next]_vars
  PROVE  WorkersInv'
<1> USE NoneAssumption, AddrAssumption, PipeAssumption
    DEF IInv, TypeOK, FutsInv, RegistryInv, SharedBatcher, WorkersInv, WorkerInv, QueueInv, Alive,
        loopVars, stateVars, notifierVars, futVars, jobVars
<1>1. ASSUME NEW l \in Loops, Open(l) PROVE WorkersInv'
  BY <1>1 DEF Open
<1>2. ASSUME NEW l \in Loops, Close(l) PROVE WorkersInv'
  BY <1>2 DEF Close
<1>3. ASSUME NEW l \in Loops, Die(l) PROVE WorkersInv'
  BY <1>3 DEF Die
<1>4. ASSUME NEW l \in Loops, DrainStart(l) PROVE WorkersInv'
  BY <1>4 DEF DrainStart
<1>5. ASSUME NEW l \in Loops, DrainTake(l) PROVE WorkersInv'
  <2>1. \A v \in Workers : job[v] = "push" => where'[holds[v]] = where[holds[v]]
    BY <1>5 DEF DrainTake, Drop
  <2>2. UNCHANGED <<job, holds, owner, life, registry>>
    BY <1>5, Zenon DEF DrainTake
  <2> QED
    BY <2>1, <2>2
<1>6. ASSUME NEW f \in Futs, NEW l \in Loops, ParkHit(f, l) PROVE WorkersInv'
  BY <1>6 DEF ParkHit
<1>7. ASSUME NEW f \in Futs, NEW l \in Loops, ParkMiss(f, l) PROVE WorkersInv'
  BY <1>7 DEF ParkMiss
<1>8. ASSUME NEW f \in Futs, NEW b \in Batchers, NEW k \in {"Pipe", "CallSoon"},
             NewBatcher(f, b, k)
      PROVE  WorkersInv'
  BY <1>8 DEF NewBatcher, Free
<1>9. ASSUME NEW f \in Futs, Register(f) PROVE WorkersInv'
  BY <1>9 DEF Register
<1>10. ASSUME NEW f \in Futs, Forget(f) PROVE WorkersInv'
  BY <1>10 DEF Forget, Drop
<1>11. ASSUME NEW w \in Workers, NEW f \in Futs, TakeParked(w, f) PROVE WorkersInv'
  BY <1>11 DEF TakeParked
<1>12. ASSUME NEW w \in Workers, Push(w) PROVE WorkersInv'
  <2> DEFINE f == holds[w]
             b == via[f]
  <2>1. f \in Futs /\ b \in Batchers /\ where[f] = "taken" /\ job[w] = "push"
    BY <1>12, Zenon DEF Push
  <2>2. home[f] \in Loops /\ owner[b] = home[f] /\ registry[AddrOf[home[f]]] = b
    BY <2>1, Zenon
  <2>3. UNCHANGED <<owner, life, registry>>
    BY <1>12, Zenon DEF Push
  <2>4. \A v \in Workers : v # w => job'[v] = job[v] /\ holds'[v] = holds[v]
    BY <1>12 DEF Push
  <2>5. job'[w] = "idle" \/ (job'[w] = "notify" /\ holds'[w] = b)
    BY <1>12 DEF Push
  <2>6. \A g \in Futs : g # f => where'[g] = where[g]
    BY <1>12 DEF Push
  <2>7. \A v \in Workers : WorkerInv(v) /\ (job[v] = "push" => holds[v] \in Futs)
    BY Zenon
  <2> HIDE DEF IInv, TypeOK, FutsInv, RegistryInv, SharedBatcher, WorkersInv, QueueInv, f, b
  <2> SUFFICES ASSUME NEW v \in Workers PROVE WorkerInv(v)'
    BY Zenon DEF WorkersInv
  <2>8. CASE v = w
    BY <2>2, <2>3, <2>5, <2>8, Zenon
  <2>9. CASE v # w
    <3>1. job[v] = "push" => holds[v] # f
      BY <2>1, <2>7, <2>9, Zenon DEF f
    <3> QED
      BY <2>3, <2>4, <2>5, <2>6, <2>7, <2>9, <3>1
  <2> QED
    BY <2>8, <2>9, Zenon
<1>13. ASSUME NEW w \in Workers, NotifyPipe(w) PROVE WorkersInv'
  BY <1>13 DEF NotifyPipe
<1>14. ASSUME NEW w \in Workers, NotifyCallSoon(w) PROVE WorkersInv'
  <2>1. UNCHANGED <<life, owner, registry, where>> /\ job[w] = "notify"
    BY <1>14, Zenon DEF NotifyCallSoon
  <2>2. CASE job' = [job EXCEPT ![w] = "idle"] /\ holds' = [holds EXCEPT ![w] = "none"]
    BY <2>1, <2>2
  <2>3. CASE job' = [job EXCEPT ![w] = "discard"] /\ holds' = holds
    BY <2>1, <2>3
  <2> QED
    BY <1>14, <2>2, <2>3, Zenon DEF NotifyCallSoon
<1>15. ASSUME NEW w \in Workers, Discard(w) PROVE WorkersInv'
  BY <1>15 DEF Discard, Drop
<1>16. CASE UNCHANGED vars
  BY <1>16 DEF vars
<1> HIDE DEF IInv, TypeOK, FutsInv, RegistryInv, SharedBatcher,
             WorkersInv, WorkerInv, QueueInv, Alive
<1> QED
  BY <1>1, <1>2, <1>3, <1>4, <1>5, <1>6, <1>7, <1>8, <1>9, <1>10, <1>11, <1>12, <1>13,
     <1>14, <1>15,
     <1>16
  DEF Next, LoopNext, FutNext, WorkerNext, Notify

\* Every step keeps QueueInv.
LEMMA QueueStep ==
  ASSUME IInv, [Next]_vars
  PROVE  QueueInv'
<1> USE NoneAssumption, AddrAssumption, PipeAssumption
    DEF IInv, TypeOK, FutsInv, SharedBatcher, WorkersInv, WorkerInv, QueueInv,
        loopVars, stateVars, notifierVars, futVars, jobVars
<1>1. ASSUME NEW l \in Loops, Open(l) PROVE QueueInv'
  BY <1>1 DEF Open
<1>2. ASSUME NEW l \in Loops, Close(l) PROVE QueueInv'
  BY <1>2 DEF Close
<1>3. ASSUME NEW l \in Loops, Die(l) PROVE QueueInv'
  BY <1>3 DEF Die
<1>4. ASSUME NEW l \in Loops, DrainStart(l) PROVE QueueInv'
  BY <1>4 DEF DrainStart
<1>5. ASSUME NEW l \in Loops, DrainTake(l) PROVE QueueInv'
  BY <1>5 DEF DrainTake, Drop
<1>6. ASSUME NEW f \in Futs, NEW l \in Loops, ParkHit(f, l) PROVE QueueInv'
  BY <1>6 DEF ParkHit
<1>7. ASSUME NEW f \in Futs, NEW l \in Loops, ParkMiss(f, l) PROVE QueueInv'
  BY <1>7 DEF ParkMiss
<1>8. ASSUME NEW f \in Futs, NEW b \in Batchers, NEW k \in {"Pipe", "CallSoon"},
             NewBatcher(f, b, k)
      PROVE  QueueInv'
  BY <1>8 DEF NewBatcher, Free
<1>9. ASSUME NEW f \in Futs, Register(f) PROVE QueueInv'
  BY <1>9 DEF Register
<1>10. ASSUME NEW f \in Futs, Forget(f) PROVE QueueInv'
  BY <1>10 DEF Forget, Drop
<1>11. ASSUME NEW w \in Workers, NEW f \in Futs, TakeParked(w, f) PROVE QueueInv'
  BY <1>11 DEF TakeParked
<1>12. ASSUME NEW w \in Workers, Push(w) PROVE QueueInv'
  BY <1>12 DEF Push
<1>13. ASSUME NEW w \in Workers, NotifyPipe(w) PROVE QueueInv'
  BY <1>13 DEF NotifyPipe
<1>14. ASSUME NEW w \in Workers, NotifyCallSoon(w) PROVE QueueInv'
  BY <1>14 DEF NotifyCallSoon
<1>15. ASSUME NEW w \in Workers, Discard(w) PROVE QueueInv'
  BY <1>15 DEF Discard, Drop
<1>16. CASE UNCHANGED vars
  BY <1>16, Zenon DEF vars
<1> HIDE DEF IInv, TypeOK, FutsInv, SharedBatcher, WorkersInv, WorkerInv, QueueInv
<1> QED
  BY <1>1, <1>2, <1>3, <1>4, <1>5, <1>6, <1>7, <1>8, <1>9, <1>10, <1>11, <1>12, <1>13,
     <1>14, <1>15,
     <1>16
  DEF Next, LoopNext, FutNext, WorkerNext, Notify

\* ArmedInv holds after a step that leaves the loops and their registrations alone and
\* after which a batcher that is armed was so before, with the same workers at it.
LEMMA ArmedKept ==
  ASSUME IInv, UNCHANGED <<life, soon, draining, registry, owner, pipe, readers>>,
         \A b \in Batchers : armed'[b] => armed[b],
         \A v \in Workers, b \in Batchers :
           armed'[b] /\ Notifies(v, b) => Notifies(v, b)'
  PROVE  ArmedInv'
<1>1. registry \in [Addrs -> Batchers \cup {"none"}] /\ ArmedInv
  BY Zenon DEF IInv, TypeOK
<1> SUFFICES ASSUME NEW a \in Addrs, registry[a] # "none", armed'[registry[a]],
                    life[owner[registry[a]]] = "open"
             PROVE  DrainToCome(registry[a], owner[registry[a]])'
  BY Zenon DEF ArmedInv
<1>2. registry[a] \in Batchers /\ DrainToCome(registry[a], owner[registry[a]])
  BY <1>1, Zenon DEF ArmedInv
<1> QED
  BY <1>2, Zenon DEF DrainToCome

\* Every step keeps ArmedInv.
LEMMA ArmedStep ==
  ASSUME IInv, [Next]_vars
  PROVE  ArmedInv'
<1> USE DEF loopVars, stateVars, notifierVars, futVars, jobVars
<1>a. /\ registry \in [Addrs -> Batchers \cup {"none"}] /\ "none" \notin Batchers
      /\ owner \in [Batchers -> Loops \cup {"none"}]
      /\ armed \in [Batchers -> BOOLEAN] /\ pipe \in [Batchers -> 0..PipeSize]
      /\ readers \subseteq Batchers
  BY NoneAssumption DEF IInv, TypeOK
<1>b. /\ life \in [Loops -> {"unborn", "open", "closed", "dead"}]
      /\ soon \in [Loops -> Nat] /\ draining \in [Loops -> Batchers \cup {"none"}]
      /\ AddrOf \in [Loops -> Addrs]
  BY AddrAssumption DEF IInv, TypeOK
<1>c. job \in [Workers -> {"idle", "push", "notify", "discard"}] /\ DOMAIN holds = Workers
  BY Zenon DEF IInv, TypeOK
<1>d. \A a \in Addrs : registry[a] # "none" =>
        /\ registry[a] \in Batchers /\ owner[registry[a]] \in Loops
        /\ AddrOf[owner[registry[a]]] = a
        /\ life[owner[registry[a]]] \in {"open", "closed"}
  BY <1>a DEF IInv, RegistryInv, Alive
<1>e. \A a \in Addrs :
        registry[a] # "none" /\ armed[registry[a]] /\ life[owner[registry[a]]] = "open" =>
          DrainToCome(registry[a], owner[registry[a]])
  BY Zenon DEF IInv, ArmedInv
<1>1. ASSUME NEW l \in Loops, Open(l) PROVE ArmedInv'
  BY <1>1, <1>a, <1>b, <1>d, <1>e DEF Open, ArmedInv, DrainToCome, Notifies
<1>2. ASSUME NEW l \in Loops, Close(l) PROVE ArmedInv'
  BY <1>2, <1>a, <1>b, <1>d, <1>e DEF Close, ArmedInv, DrainToCome, Notifies
<1>3. ASSUME NEW l \in Loops, Die(l) PROVE ArmedInv'
  BY <1>3, <1>a, <1>b, <1>d, <1>e DEF Die, ArmedInv, DrainToCome, Notifies
<1>4. ASSUME NEW l \in Loops, DrainStart(l) PROVE ArmedInv'
  <2>1. UNCHANGED <<life, registry, armed, owner, readers, job, holds>>
    BY <1>4, Zenon DEF DrainStart
  <2>2. draining'[l] = registry[AddrOf[l]] /\ \A m \in Loops : m # l => draining'[m] = draining[m]
    BY <1>4, <1>b, Zenon DEF DrainStart
  <2>3. \A m \in Loops : m # l => soon'[m] = soon[m]
    BY <1>4, <1>b, Zenon DEF DrainStart
  <2>4. \A c \in Batchers : c # registry[AddrOf[l]] => pipe'[c] = pipe[c]
    BY <1>4, <1>a, Zenon DEF DrainStart
  <2> SUFFICES ASSUME NEW a \in Addrs, registry[a] # "none", armed[registry[a]],
                      life[owner[registry[a]]] = "open"
               PROVE  DrainToCome(registry[a], owner[registry[a]])'
    BY <2>1, Zenon DEF ArmedInv
  <2>5. CASE owner[registry[a]] = l
    BY <1>d, <2>1, <2>2, <2>5, Zenon DEF DrainToCome, Notifies
  <2>6. CASE owner[registry[a]] # l
    <3>1. registry[a] # registry[AddrOf[l]]
      BY <1>b, <1>d, <1>4, <2>6 DEF DrainStart, IInv, RegistryInv, Alive
    <3> QED
      BY <1>d, <1>e, <2>1, <2>2, <2>3, <2>4, <2>6, <3>1 DEF DrainToCome, Notifies
  <2> QED
    BY <2>5, <2>6, Zenon
<1>5. ASSUME NEW l \in Loops, DrainTake(l) PROVE ArmedInv'
  <2>1. UNCHANGED <<life, registry, owner, pipe, readers, soon, job, holds>>
    BY <1>5, Zenon DEF DrainTake
  <2>2. draining[l] \in Batchers /\ ~armed'[draining[l]]
    BY <1>5, <1>a, <1>b, Zenon DEF DrainTake
  <2>3. \A c \in Batchers : armed'[c] => armed[c]
    BY <1>5, <1>a DEF DrainTake
  <2>4. \A m \in Loops : m # l => draining'[m] = draining[m]
    BY <1>5, <1>b, Zenon DEF DrainTake
  <2> SUFFICES ASSUME NEW a \in Addrs, registry[a] # "none", armed'[registry[a]],
                      life[owner[registry[a]]] = "open"
               PROVE  DrainToCome(registry[a], owner[registry[a]])'
    BY <2>1, Zenon DEF ArmedInv
  <2>5. /\ owner[registry[a]] \in Loops /\ registry[a] # draining[l]
        /\ DrainToCome(registry[a], owner[registry[a]])
    BY <1>d, <1>e, <2>2, <2>3, Zenon
  <2> QED
    BY <2>1, <2>4, <2>5 DEF DrainToCome, Notifies
<1>6. ASSUME NEW f \in Futs, NEW l \in Loops, ParkHit(f, l) \/ ParkMiss(f, l)
      PROVE  ArmedInv'
  BY <1>6, ArmedKept, Zenon DEF ParkHit, ParkMiss, Notifies
<1>7. ASSUME NEW f \in Futs, NEW b \in Batchers, NEW k \in {"Pipe", "CallSoon"},
             NewBatcher(f, b, k)
      PROVE  ArmedInv'
  <2>1. \A a \in Addrs : registry[a] # b
    BY <1>7, Zenon DEF NewBatcher, Free
  <2>2. UNCHANGED <<registry, life, soon, draining, job, holds>>
    BY <1>7, Zenon DEF NewBatcher
  <2>3. \A c \in Batchers : c # b =>
          /\ owner'[c] = owner[c] /\ armed'[c] = armed[c] /\ pipe'[c] = pipe[c]
          /\ c \in readers => c \in readers'
    BY <1>7, <1>a, Zenon DEF NewBatcher
  <2> SUFFICES ASSUME NEW a \in Addrs, registry[a] # "none", armed'[registry[a]],
                      life[owner'[registry[a]]] = "open"
               PROVE  DrainToCome(registry[a], owner[registry[a]])'
    BY <2>2, Zenon DEF ArmedInv
  <2>4. registry[a] \in Batchers /\ registry[a] # b
    BY <1>d, <2>1, Zenon
  <2>5. DrainToCome(registry[a], owner[registry[a]])
    BY <1>e, <2>3, <2>4, Zenon
  <2> QED
    BY <2>2, <2>3, <2>4, <2>5, Zenon DEF DrainToCome, Notifies
<1>8. ASSUME NEW f \in Futs, Register(f) PROVE ArmedInv'
  <2>1. /\ via[f] \in Batchers /\ ~armed[via[f]] /\ home[f] \in Loops
        /\ \A a \in Addrs : registry[a] # via[f]
    BY <1>8, Zenon DEF Register, IInv, FutsInv
  <2>2. UNCHANGED <<life, soon, draining, armed, owner, pipe, job, holds>>
    BY <1>8, Zenon DEF Register
  <2>3. \A c \in Batchers : c # via[f] /\ c \in readers => c \in readers'
    BY <1>8, Zenon DEF Register
  <2>4. \A a \in Addrs : registry'[a] \in {registry[a], via[f]}
    BY <1>8, <1>a, Zenon DEF Register
  <2> SUFFICES ASSUME NEW a \in Addrs, registry'[a] # "none", armed[registry'[a]],
                      life[owner[registry'[a]]] = "open"
               PROVE  DrainToCome(registry[a], owner[registry[a]])'
    BY <2>2, Zenon DEF ArmedInv
  <2>5. registry'[a] = registry[a] /\ registry[a] # via[f]
    BY <2>1, <2>4, Zenon
  <2>6. registry[a] \in Batchers /\ DrainToCome(registry[a], owner[registry[a]])
    BY <1>d, <1>e, <2>5, Zenon
  <2> QED
    BY <2>2, <2>3, <2>5, <2>6, Zenon DEF DrainToCome, Notifies
<1>9. ASSUME NEW f \in Futs, Forget(f) PROVE ArmedInv'
  BY <1>9, ArmedKept, Zenon DEF Forget, Notifies
<1>10. ASSUME NEW w \in Workers, NEW f \in Futs, TakeParked(w, f) PROVE ArmedInv'
  BY <1>10, <1>c, ArmedKept, Zenon DEF TakeParked, Notifies
<1>11. ASSUME NEW w \in Workers, Push(w) PROVE ArmedInv'
  <2> DEFINE b == via[holds[w]]
  <2>1. UNCHANGED <<life, owner, registry, draining, readers, pipe, soon>>
    BY <1>11, Zenon DEF Push
  <2>2. \A c \in Batchers : c # b => armed'[c] = armed[c]
    BY <1>11, <1>a, Zenon DEF Push
  <2>3. \A v \in Workers, c \in Batchers : Notifies(v, c) => Notifies(v, c)'
    BY <1>11, <1>c, Zenon DEF Push, Notifies
  <2>4. ~armed[b] => job'[w] = "notify" /\ holds'[w] = b
    BY <1>11, <1>c, Zenon DEF Push
  <2> HIDE DEF b
  <2> SUFFICES ASSUME NEW a \in Addrs, registry[a] # "none", armed'[registry[a]],
                      life[owner[registry[a]]] = "open"
               PROVE  DrainToCome(registry[a], owner[registry[a]])'
    BY <2>1, Zenon DEF ArmedInv
  <2>5. CASE armed[registry[a]]
    BY <1>d, <1>e, <2>1, <2>3, <2>5 DEF DrainToCome
  <2>6. CASE ~armed[registry[a]]
    <3>1. registry[a] = b
      BY <1>d, <2>2, <2>6, Zenon
    <3>2. job'[w] = "notify" /\ holds'[w] = registry'[a]
      BY <2>1, <2>4, <2>6, <3>1, Zenon
    <3> QED
      BY <3>2, Zenon DEF DrainToCome, Notifies
  <2> QED
    BY <2>5, <2>6, Zenon
<1>12. ASSUME NEW w \in Workers, NotifyPipe(w) PROVE ArmedInv'
  <2>1. UNCHANGED <<life, owner, registry, draining, readers, armed, soon>>
    BY <1>12, Zenon DEF NotifyPipe
  <2>2. /\ holds[w] \in Batchers /\ kind[holds[w]] = "Pipe" /\ pipe'[holds[w]] > 0
        /\ \A c \in Batchers : pipe[c] > 0 => pipe'[c] > 0
    BY <1>12, <1>a, PipeAssumption DEF NotifyPipe, IInv, TypeOK
  <2>3. \A v \in Workers : v # w => job'[v] = job[v] /\ holds'[v] = holds[v]
    BY <1>12, <1>c, Zenon DEF NotifyPipe
  <2> SUFFICES ASSUME NEW a \in Addrs, registry[a] # "none", armed[registry[a]],
                      life[owner[registry[a]]] = "open"
               PROVE  DrainToCome(registry[a], owner[registry[a]])'
    BY <2>1, Zenon DEF ArmedInv
  <2>4. CASE registry[a] = holds[w]
    <3>1. registry[a] \in readers
      BY <2>2, <2>4, Zenon DEF IInv, RegistryInv
    <3> QED
      BY <2>1, <2>2, <2>4, <3>1, Zenon DEF DrainToCome, Notifies
  <2>5. CASE registry[a] # holds[w]
    <3>1. registry[a] \in Batchers /\ DrainToCome(registry[a], owner[registry[a]])
      BY <1>d, <1>e, Zenon
    <3> QED
      BY <2>1, <2>2, <2>3, <2>5, <3>1, Zenon DEF DrainToCome, Notifies
  <2> QED
    BY <2>4, <2>5, Zenon
<1>13. ASSUME NEW w \in Workers, NotifyCallSoon(w) PROVE ArmedInv'
  <2> DEFINE l == owner[holds[w]]
  <2>1. l \in Loops
    BY <1>13, Zenon DEF NotifyCallSoon, IInv, WorkersInv, WorkerInv
  <2>2. UNCHANGED <<life, owner, registry, armed, draining, readers, pipe>>
    BY <1>13, Zenon DEF NotifyCallSoon
  <2>3. \A v \in Workers : v # w => job'[v] = job[v] /\ holds'[v] = holds[v]
    BY <1>13, <1>c, Zenon DEF NotifyCallSoon
  <2>4. CASE life[l] = "open" /\ soon' = [soon EXCEPT ![l] = @ + 1]
    <3>1. soon'[l] > 0 /\ \A m \in Loops : soon[m] > 0 => soon'[m] > 0
      BY <1>b, <2>1, <2>4
    <3> SUFFICES ASSUME NEW a \in Addrs, registry[a] # "none", armed[registry[a]],
                        life[owner[registry[a]]] = "open"
                 PROVE  DrainToCome(registry[a], owner[registry[a]])'
      BY <2>2, Zenon DEF ArmedInv
    <3>2. CASE owner[registry[a]] = l
      BY <2>1, <2>2, <3>1, <3>2, Zenon DEF DrainToCome
    <3>3. CASE owner[registry[a]] # l
      <4>1. owner[registry[a]] \in Loops /\ DrainToCome(registry[a], owner[registry[a]])
        BY <1>d, <1>e, Zenon
      <4> QED
        BY <2>2, <2>3, <3>1, <3>3, <4>1, Zenon DEF DrainToCome, Notifies
    <3> QED
      BY <3>2, <3>3, Zenon
  <2>5. CASE job' = [job EXCEPT ![w] = "discard"] /\ UNCHANGED <<soon, holds>>
    <3>1. \A v \in Workers, c \in Batchers : Notifies(v, c) => Notifies(v, c)'
      BY <1>c, <2>5, Zenon DEF Notifies
    <3> QED
      BY <2>2, <2>5, <3>1, ArmedKept, Zenon
  <2> QED
    BY <1>13, <2>4, <2>5, Zenon DEF NotifyCallSoon
<1>14. ASSUME NEW w \in Workers, Discard(w) PROVE ArmedInv'
  BY <1>14, <1>a, <1>c, ArmedKept, Zenon DEF Discard, Notifies
<1>15. CASE UNCHANGED vars
  BY <1>15, ArmedKept, Zenon DEF vars, Notifies
<1> QED
  BY <1>1, <1>2, <1>3, <1>4, <1>5, <1>6, <1>7, <1>8, <1>9, <1>10, <1>11, <1>12, <1>13, <1>14,
     <1>15
  DEF Next, LoopNext, FutNext, WorkerNext, Notify

-----------------------------------------------------------------------------

\* The initial states satisfy the invariant.
LEMMA InitInv == Init => IInv
<1> SUFFICES ASSUME Init PROVE IInv
  BY Zenon
<1> USE NoneAssumption, AddrAssumption DEF Init
<1>1. TypeOK
  BY PipeAssumption DEF TypeOK
<1>2. FutsInv /\ SharedBatcher
  BY Zenon DEF FutsInv, SharedBatcher
<1>3. RegistryInv
  BY Zenon DEF RegistryInv, Alive
<1>4. WorkersInv /\ QueueInv /\ ArmedInv
  BY DEF WorkersInv, WorkerInv, QueueInv, ArmedInv
<1> QED
  BY <1>1, <1>2, <1>3, <1>4 DEF IInv

\* The invariant is one.
LEMMA Invariance == Spec => []IInv
<1>1. IInv /\ [Next]_vars => IInv'
  BY TypeStep, FutsStep, RegistryStep, SharedStep, WorkersStep, QueueStep, ArmedStep DEF IInv
<1> QED
  BY <1>1, InitInv, PTL DEF Spec

\* The batcher's variables keep their types (batcher.rs).
THEOREM BatcherTypes == Spec => []TypeOK
<1>1. IInv => TypeOK
  BY DEF IInv
<1> QED
  BY <1>1, Invariance, PTL

\* A future parks with the batcher registered under its own loop's address, for any
\* number of loops, reused addresses and racing registrations (batcher_for, evict_fn).
THEOREM BatcherShared == Spec => []SharedBatcher
<1>1. IInv => SharedBatcher
  BY Zenon DEF IInv
<1> QED
  BY <1>1, Invariance, PTL

\* A future queued for an open loop has a drain or a discard coming, for any number of
\* workers that push to it (push, notify, discard, drain).
THEOREM BatcherQueueCovered == Spec => []QueueCovered
<1>1. IInv => QueueCovered
  <2> SUFFICES ASSUME IInv, NEW b \in Batchers, queue[b] # {}, life[owner[b]] = "open"
               PROVE  armed[b] /\ DrainToCome(b, owner[b])
    BY DEF QueueCovered
  <2>1. PICK f \in Futs : f \in queue[b]
    BY DEF IInv, TypeOK
  <2>2. where[f] = "queued" /\ via[f] = b /\ armed[b]
    BY <2>1, Zenon DEF IInv, QueueInv
  <2>3. home[f] \in Loops /\ owner[b] = home[f] /\ registry[AddrOf[home[f]]] = b
    BY <2>2, Zenon DEF IInv, FutsInv, SharedBatcher
  <2>4. AddrOf[home[f]] \in Addrs /\ b # "none"
    BY <2>3, AddrAssumption, NoneAssumption, Zenon
  <2> QED
    BY <2>2, <2>3, <2>4, Zenon DEF IInv, ArmedInv
<1> QED
  BY <1>1, Invariance, PTL

-----------------------------------------------------------------------------
(* One drain per batch. *)

\* The workers that armed batcher b and are not done with it, and how many they are.
Notifiers(b) == {w \in Workers : Notifies(w, b)}
Notices(b) == Cardinality(Notifiers(b))

\* What OneDrainPerBatch says of batcher b of loop l.
Owed(b) == IF armed[b] THEN 1 ELSE 0
Running(b, l) == IF draining[l] = b THEN 1 ELSE 0
Balanced(b, l) == Tally(Owed(b), Notices(b), soon[l], pipe[b], Running(b, l))

\* Where a drain to come can be: a drain runs the batcher registered for its loop; a
\* loop with no batcher has none scheduled; and a byte is in the pipe of a registered
\* batcher, or of one whose loop is dead.
PlacesInv ==
  /\ \A l \in Loops : draining[l] # "none" =>
       life[l] = "open" /\ registry[AddrOf[l]] = draining[l]
  /\ \A l \in Loops :
       life[l] = "unborn" \/ (life[l] = "open" /\ registry[AddrOf[l]] = "none") => soon[l] = 0
  /\ \A b \in Batchers : pipe[b] > 0 =>
       /\ owner[b] \in Loops
       /\ life[owner[b]] = "dead" \/ registry[AddrOf[owner[b]]] = b

DrainInv == PlacesInv /\ OneDrainPerBatch

\* The invariant of the drains, over Balanced.
LEMMA DrainPerBatch ==
  OneDrainPerBatch <=>
    \A a \in Addrs : registry[a] # "none" /\ life[owner[registry[a]]] = "open" =>
      Balanced(registry[a], owner[registry[a]])
BY Zenon DEF OneDrainPerBatch, Balanced, Tally, Owed, Running, Notices, Notifiers

\* A step that starts and ends no notification of b keeps their number.
LEMMA NoticesKept ==
  ASSUME NEW b,
         \A w \in Workers : Notifies(w, b)' <=> Notifies(w, b)
  PROVE  Notices(b)' = Notices(b)
<1>1. Notifiers(b)' = Notifiers(b)
  BY DEF Notifiers
<1> QED
  BY <1>1 DEF Notices

\* The workers are finitely many, so those that notify are.
LEMMA NoticesType ==
  ASSUME NEW b
  PROVE  IsFiniteSet(Notifiers(b)) /\ Notices(b) \in Nat
<1>1. Notifiers(b) \in SUBSET Workers
  BY DEF Notifiers
<1>2. IsFiniteSet(Notifiers(b))
  BY <1>1, WorkersAssumption, FS_Subset, Zenon
<1> QED
  BY <1>2, FS_CardinalityType DEF Notices

\* The push that arms b adds one.
LEMMA NoticesMore ==
  ASSUME NEW b, NEW w \in Workers,
         ~Notifies(w, b), Notifies(w, b)',
         \A v \in Workers : v # w => job'[v] = job[v] /\ holds'[v] = holds[v]
  PROVE  Notices(b)' = Notices(b) + 1
<1>1. \A v \in Workers : v # w => (Notifies(v, b)' <=> Notifies(v, b))
  BY Zenon DEF Notifies
<1>2. Notifiers(b)' = Notifiers(b) \cup {w} /\ w \notin Notifiers(b)
  BY <1>1, Zenon DEF Notifiers
<1> QED
  BY <1>2, NoticesType, FS_AddElement, Zenon DEF Notices

\* A worker that has notified b takes one away.
LEMMA NoticesLess ==
  ASSUME NEW b, NEW w \in Workers,
         Notifies(w, b), ~Notifies(w, b)',
         \A v \in Workers : v # w => job'[v] = job[v] /\ holds'[v] = holds[v]
  PROVE  Notices(b) > 0 /\ Notices(b)' = Notices(b) - 1
<1>a. \A v \in Workers : v # w => (Notifies(v, b)' <=> Notifies(v, b))
  BY Zenon DEF Notifies
<1>1. Notifiers(b)' = Notifiers(b) \ {w} /\ w \in Notifiers(b)
  BY <1>a, Zenon DEF Notifiers
<1>2. Notices(b) \in Nat /\ Notices(b) # 0
  BY <1>1, NoticesType, FS_EmptySet, Zenon DEF Notices
<1>3. Notices(b)' = Notices(b) - 1
  BY <1>1, NoticesType, FS_RemoveElement, Zenon DEF Notices
<1> QED
  BY <1>2, <1>3

\* Every step keeps the drains to come where they belong.
LEMMA PlacesStep ==
  ASSUME IInv, PlacesInv, [Next]_vars
  PROVE  PlacesInv'
<1> USE DEF loopVars, stateVars, notifierVars, futVars, jobVars
<1>a. /\ registry \in [Addrs -> Batchers \cup {"none"}] /\ "none" \notin Batchers
      /\ owner \in [Batchers -> Loops \cup {"none"}]
      /\ pipe \in [Batchers -> 0..PipeSize]
  BY NoneAssumption, Zenon DEF IInv, TypeOK
<1>b. /\ life \in [Loops -> {"unborn", "open", "closed", "dead"}]
      /\ soon \in [Loops -> Nat] /\ draining \in [Loops -> Batchers \cup {"none"}]
      /\ AddrOf \in [Loops -> Addrs]
  BY AddrAssumption, Zenon DEF IInv, TypeOK
<1>c. /\ job \in [Workers -> {"idle", "push", "notify", "discard"}] /\ DOMAIN holds = Workers
      /\ \A w \in Workers : job[w] \in {"notify", "discard"} =>
           /\ holds[w] \in Batchers /\ owner[holds[w]] \in Loops
           /\ \/ life[owner[holds[w]]] = "dead"
              \/ registry[AddrOf[owner[holds[w]]]] = holds[w]
  BY Zenon DEF IInv, TypeOK, WorkersInv, WorkerInv
<1>d. \A a \in Addrs : registry[a] # "none" =>
        /\ registry[a] \in Batchers /\ owner[registry[a]] \in Loops
        /\ AddrOf[owner[registry[a]]] = a
        /\ life[owner[registry[a]]] \in {"open", "closed"}
  BY <1>a DEF IInv, RegistryInv, Alive
<1>e. \A l, m \in Loops :
        life[l] \in {"open", "closed"} /\ life[m] \in {"open", "closed"}
          /\ AddrOf[l] = AddrOf[m] => l = m
  BY Zenon DEF IInv, RegistryInv, Alive
<1>1. ASSUME NEW l \in Loops, Open(l) PROVE PlacesInv'
  BY <1>1, <1>a, <1>b, <1>c, <1>d DEF Open, PlacesInv
<1>2. ASSUME NEW l \in Loops, Close(l) PROVE PlacesInv'
  BY <1>2, <1>a, <1>b, <1>c, <1>d DEF Close, PlacesInv
<1>3. ASSUME NEW l \in Loops, Die(l) PROVE PlacesInv'
  BY <1>3, <1>a, <1>b, <1>c, <1>d, <1>e DEF Die, PlacesInv, Alive
<1>4. ASSUME NEW l \in Loops, DrainStart(l) PROVE PlacesInv'
  BY <1>4, <1>a, <1>b, <1>c, <1>d DEF DrainStart, PlacesInv
<1>5. ASSUME NEW l \in Loops, DrainTake(l) PROVE PlacesInv'
  BY <1>5, <1>b, Zenon DEF DrainTake, PlacesInv
<1>6. ASSUME NEW f \in Futs, NEW l \in Loops, ParkHit(f, l) \/ ParkMiss(f, l)
      PROVE  PlacesInv'
  <2>1. UNCHANGED <<loopVars, registry, notifierVars, jobVars>>
    BY <1>6, Zenon DEF ParkHit, ParkMiss
  <2> QED
    BY <2>1, Zenon DEF PlacesInv
<1>7. ASSUME NEW f \in Futs, NEW b \in Batchers, NEW k \in {"Pipe", "CallSoon"},
             NewBatcher(f, b, k)
      PROVE  PlacesInv'
  <2>1. UNCHANGED <<registry, life, soon, draining>>
    BY <1>7, Zenon DEF NewBatcher
  <2>2. pipe'[b] = 0 /\ \A c \in Batchers : c # b => owner'[c] = owner[c] /\ pipe'[c] = pipe[c]
    BY <1>7, <1>a, Zenon DEF NewBatcher
  <2>3. \A c \in Batchers : pipe'[c] > 0 => c # b
    BY <2>2
  <2> QED
    BY <2>1, <2>2, <2>3, Zenon DEF PlacesInv
<1>8. ASSUME NEW f \in Futs, Register(f) PROVE PlacesInv'
  <2>1. /\ UNCHANGED <<life, soon, draining, owner, pipe, job, holds>>
        /\ \A a \in Addrs : registry[a] # "none" => registry'[a] = registry[a]
        /\ \A a \in Addrs : registry'[a] = "none" => registry[a] = "none"
    BY <1>8, <1>a DEF Register, IInv, FutsInv
  <2> QED
    BY <2>1, <1>a, <1>b DEF PlacesInv
<1>9. ASSUME NEW f \in Futs, Forget(f) PROVE PlacesInv'
  BY <1>9, Zenon DEF Forget, PlacesInv
<1>10. ASSUME NEW w \in Workers, NEW f \in Futs, TakeParked(w, f) PROVE PlacesInv'
  BY <1>10, <1>c, Zenon DEF TakeParked, PlacesInv
<1>11. ASSUME NEW w \in Workers, Push(w) PROVE PlacesInv'
  BY <1>11, <1>c, Zenon DEF Push, PlacesInv
<1>12. ASSUME NEW w \in Workers, NotifyPipe(w) PROVE PlacesInv'
  BY <1>12, <1>a, <1>c DEF NotifyPipe, PlacesInv
<1>13. ASSUME NEW w \in Workers, NotifyCallSoon(w) PROVE PlacesInv'
  BY <1>13, <1>a, <1>b, <1>c DEF NotifyCallSoon, PlacesInv
<1>14. ASSUME NEW w \in Workers, Discard(w) PROVE PlacesInv'
  BY <1>14, <1>c, Zenon DEF Discard, PlacesInv
<1>15. CASE UNCHANGED vars
  BY <1>15, Zenon DEF vars, PlacesInv
<1> QED
  BY <1>1, <1>2, <1>3, <1>4, <1>5, <1>6, <1>7, <1>8, <1>9, <1>10, <1>11, <1>12, <1>13, <1>14,
     <1>15, Zenon
  DEF Next, LoopNext, FutNext, WorkerNext, Notify

\* OneDrainPerBatch after a step, one registered batcher of an open loop at a time.
LEMMA DrainPerBatchNext ==
  ASSUME TypeOK', RegistryInv',
         \A a \in Addrs, b \in Batchers, l \in Loops :
           b = registry'[a] /\ l = owner'[b] /\ life'[l] = "open" => Balanced(b, l)'
  PROVE  OneDrainPerBatch'
<1> SUFFICES ASSUME NEW a \in Addrs,
                    registry'[a] # "none", life'[owner'[registry'[a]]] = "open"
             PROVE  Balanced(registry[a], owner[registry[a]])'
  BY Zenon DEF OneDrainPerBatch, Balanced, Tally, Owed, Running, Notices, Notifiers
<1>1. registry'[a] \in Batchers /\ owner'[registry'[a]] \in Loops
  BY DEF TypeOK, RegistryInv
<1>2. PICK b \in Batchers : b = registry'[a]
  BY <1>1, Zenon
<1>3. PICK l \in Loops : l = owner'[b]
  BY <1>1, <1>2, Zenon
<1>4. Balanced(b, l)'
  BY <1>2, <1>3
<1> QED
  BY <1>2, <1>3, <1>4, Zenon DEF Balanced, Owed, Running, Notices, Notifiers

\* What a registered batcher's balance is made of does not change: nor does it.
LEMMA BalanceKept ==
  ASSUME NEW b, NEW l, Balanced(b, l),
         armed'[b] = armed[b], pipe'[b] = pipe[b],
         soon'[l] = soon[l], draining'[l] = b <=> draining[l] = b,
         \A w \in Workers : Notifies(w, b)' <=> Notifies(w, b)
  PROVE  Balanced(b, l)'
<1>1. Owed(b)' = Owed(b) /\ Running(b, l)' = Running(b, l)
  BY Zenon DEF Owed, Running
<1>2. Notices(b)' = Notices(b)
  BY NoticesKept, Zenon
<1> QED
  BY <1>1, <1>2, Zenon DEF Balanced

\* Every step keeps one drain to come for an armed batcher and none for another.
LEMMA OneDrainStep ==
  ASSUME IInv, DrainInv, [Next]_vars
  PROVE  OneDrainPerBatch'
<1> USE DEF loopVars, stateVars, notifierVars, futVars, jobVars
<1>a. /\ registry \in [Addrs -> Batchers \cup {"none"}] /\ "none" \notin Batchers
      /\ owner \in [Batchers -> Loops \cup {"none"}]
      /\ armed \in [Batchers -> BOOLEAN] /\ pipe \in [Batchers -> 0..PipeSize]
      /\ readers \subseteq Batchers /\ PipeSize \in Nat \ {0}
  BY NoneAssumption, PipeAssumption, Zenon DEF IInv, TypeOK
<1>b. /\ life \in [Loops -> {"unborn", "open", "closed", "dead"}]
      /\ soon \in [Loops -> Nat] /\ draining \in [Loops -> Batchers \cup {"none"}]
      /\ AddrOf \in [Loops -> Addrs]
  BY AddrAssumption DEF IInv, TypeOK
<1>c. /\ job \in [Workers -> {"idle", "push", "notify", "discard"}] /\ DOMAIN holds = Workers
      /\ \A w \in Workers : job[w] \in {"notify", "discard"} =>
           /\ holds[w] \in Batchers /\ owner[holds[w]] \in Loops
           /\ \/ life[owner[holds[w]]] = "dead"
              \/ registry[AddrOf[owner[holds[w]]]] = holds[w]
  BY DEF IInv, TypeOK, WorkersInv, WorkerInv
<1> SUFFICES ASSUME NEW a \in Addrs, NEW b \in Batchers, NEW l \in Loops,
                    b = registry'[a], l = owner'[b], life'[l] = "open"
             PROVE  Balanced(b, l)'
  BY TypeStep, RegistryStep, DrainPerBatchNext, Zenon
<1>d. ASSUME registry[a] = b, owner[b] = l
      PROVE  /\ AddrOf[l] = a /\ life[l] \in {"open", "closed"}
             /\ life[l] = "open" => Balanced(b, l)
  BY <1>a, <1>d, DrainPerBatch DEF DrainInv, IInv, RegistryInv, Alive
<1>f. PlacesInv
  BY Zenon DEF DrainInv
<1>g. /\ Notices(b) \in Nat /\ pipe[b] \in Nat /\ soon[l] \in Nat
      /\ Owed(b) \in Bit /\ Running(b, l) \in Bit
  <2>1. pipe[b] \in Nat /\ soon[l] \in Nat
    BY <1>a, <1>b
  <2> QED
    BY <2>1, NoticesType, Zenon DEF Owed, Running, Bit
<1>1. ASSUME NEW m \in Loops, Open(m) \/ Close(m) PROVE Balanced(b, l)'
  <2>1. UNCHANGED <<registry, owner, armed, pipe, draining, job, holds>>
    BY <1>1, Zenon DEF Open, Close
  <2>2. m # l /\ life[l] = "open" /\ soon'[l] = soon[l]
    BY <1>1, <1>b, <1>d, <2>1, Zenon DEF Open, Close
  <2> QED
    BY <1>d, <2>1, <2>2, BalanceKept, Zenon DEF Notifies
<1>3. ASSUME NEW m \in Loops, Die(m) PROVE Balanced(b, l)'
  <2>1. UNCHANGED <<owner, armed, pipe, draining, job, holds>>
    BY <1>3, Zenon DEF Die
  <2>2. m # l /\ life[l] = "open" /\ soon'[l] = soon[l]
    BY <1>3, <1>b, Zenon DEF Die
  <2>3. registry[a] = b
    BY <1>3, <1>a, <1>b, Zenon DEF Die
  <2> QED
    BY <1>d, <2>1, <2>2, <2>3, BalanceKept, Zenon DEF Notifies
<1>4. ASSUME NEW m \in Loops, DrainStart(m) PROVE Balanced(b, l)'
  <2>1. UNCHANGED <<life, registry, armed, owner, readers, job, holds>>
    BY <1>4, Zenon DEF DrainStart
  <2>2. Balanced(b, l) /\ AddrOf[l] = a
    BY <1>d, <2>1, Zenon
  <2>3. CASE m # l
    <3>1. registry[AddrOf[m]] # b
      BY <1>4, <1>b, <2>1, <2>3, <1>a, <1>d DEF DrainStart, IInv, RegistryInv, Alive
    <3>2. draining'[l] = draining[l] /\ soon'[l] = soon[l]
      BY <1>4, <1>b, <2>3, Zenon DEF DrainStart
    <3>3. pipe'[b] = pipe[b]
      BY <1>4, <1>a, <3>1, Zenon DEF DrainStart
    <3> QED
      BY <2>1, <2>2, <3>2, <3>3, BalanceKept, Zenon DEF Notifies
  <2>4. CASE m = l
    <3>1. draining'[l] = b /\ pipe'[b] = 0 /\ draining[l] # b
      BY <1>4, <1>a, <1>b, <2>1, <2>2, <2>4, Zenon DEF DrainStart
    <3>2. \/ soon[l] > 0 /\ soon'[l] = soon[l] - 1
          \/ pipe[b] > 0 /\ soon'[l] = soon[l]
      <4>1. CASE soon[l] > 0 /\ soon' = [soon EXCEPT ![l] = @ - 1]
        BY <4>1, <1>b, Zenon
      <4>2. CASE Readable(l) /\ UNCHANGED soon
        <5>1. PICK c \in readers : owner[c] = l /\ pipe[c] > 0
          BY <4>2, Zenon DEF Readable
        <5>2. c = registry[AddrOf[l]]
          BY <5>1, <1>a, <1>f, <1>4, <2>4 DEF PlacesInv, DrainStart
        <5> QED
          BY <4>2, <5>1, <5>2, <2>1, <2>2, Zenon
      <4> QED
        BY <1>4, <2>4, <4>1, <4>2, Zenon DEF DrainStart
    <3>3. Notices(b)' = Notices(b)
      BY <2>1, NoticesKept, Zenon DEF Notifies
    <3>4. Owed(b)' = Owed(b) /\ Running(b, l) = 0 /\ Running(b, l)' = 1
      BY <2>1, <3>1, Zenon DEF Owed, Running
    <3>5. Tally(Owed(b), Notices(b), soon[l], pipe[b], 0)
      BY <2>2, <3>4, Zenon DEF Balanced
    <3>6. Tally(Owed(b), Notices(b), soon'[l], 0, 1)
      BY <1>g, <3>2, <3>5, TallyStarts, Zenon
    <3> QED
      BY <3>1, <3>3, <3>4, <3>6, Zenon DEF Balanced
  <2> QED
    BY <2>3, <2>4, Zenon
<1>5. ASSUME NEW m \in Loops, DrainTake(m) PROVE Balanced(b, l)'
  <2>1. UNCHANGED <<life, registry, owner, pipe, readers, soon, job, holds>>
    BY <1>5, Zenon DEF DrainTake
  <2>2. Balanced(b, l) /\ AddrOf[l] = a
    BY <1>d, <2>1, Zenon
  <2>3. draining[m] \in Batchers /\ life[m] = "open" /\ registry[AddrOf[m]] = draining[m]
    BY <1>5, <1>b, <1>f, Zenon DEF DrainTake, PlacesInv
  <2>4. CASE m # l
    <3>1. draining[m] # b
      BY <1>a, <1>b, <2>1, <2>2, <2>3, <2>4 DEF IInv, RegistryInv, Alive
    <3>2. draining'[l] = draining[l] /\ armed'[b] = armed[b]
      BY <1>5, <1>a, <1>b, <2>4, <3>1, Zenon DEF DrainTake
    <3> QED
      BY <2>1, <2>2, <3>2, BalanceKept, Zenon DEF Notifies
  <2>5. CASE m = l
    <3>1. draining[l] = b /\ draining'[l] = "none" /\ armed'[b] = FALSE
      BY <1>5, <1>a, <1>b, <2>1, <2>2, <2>3, <2>5, Zenon DEF DrainTake
    <3>2. Notices(b)' = Notices(b)
      BY <2>1, NoticesKept, Zenon DEF Notifies
    <3>3. Owed(b)' = 0 /\ Running(b, l) = 1 /\ Running(b, l)' = 0
      BY <1>a, <3>1, Zenon DEF Owed, Running
    <3>4. Tally(Owed(b), Notices(b), soon[l], pipe[b], 1)
      BY <2>2, <3>3, Zenon DEF Balanced
    <3>5. Tally(0, Notices(b), soon[l], pipe[b], 0)
      BY <1>g, <3>4, TallyEnds, Zenon
    <3> QED
      BY <2>1, <3>2, <3>3, <3>5, Zenon DEF Balanced
  <2> QED
    BY <2>4, <2>5, Zenon
<1>6. ASSUME NEW f \in Futs, NEW m \in Loops, ParkHit(f, m) \/ ParkMiss(f, m)
      PROVE  Balanced(b, l)'
  <2>1. UNCHANGED <<loopVars, registry, stateVars, notifierVars, jobVars>>
    BY <1>6, Zenon DEF ParkHit, ParkMiss
  <2> QED
    BY <1>d, <2>1, BalanceKept, Zenon DEF Notifies
<1>7. ASSUME NEW f \in Futs, NEW c \in Batchers, NEW k \in {"Pipe", "CallSoon"},
             NewBatcher(f, c, k)
      PROVE  Balanced(b, l)'
  <2>1. UNCHANGED <<registry, life, soon, draining, job, holds>> /\ registry[a] # c
    BY <1>7, Zenon DEF NewBatcher, Free
  <2>2. owner'[b] = owner[b] /\ armed'[b] = armed[b] /\ pipe'[b] = pipe[b]
    BY <1>7, <1>a, <2>1, Zenon DEF NewBatcher
  <2> QED
    BY <1>d, <2>1, <2>2, BalanceKept, Zenon DEF Notifies
<1>8. ASSUME NEW f \in Futs, Register(f) PROVE Balanced(b, l)'
  <2>1. UNCHANGED <<life, soon, draining, armed, owner, pipe, job, holds>>
    BY <1>8, Zenon DEF Register
  <2>2. CASE registry[a] = b
    BY <1>d, <2>1, <2>2, BalanceKept, Zenon DEF Notifies
  <2>3. CASE registry[a] # b
    <3>1. /\ home[f] \in Loops /\ AddrOf[home[f]] = a /\ registry[a] = "none"
          /\ b = via[f] /\ where[f] = "insert"
      BY <1>8, <1>a, <1>b, <2>3 DEF Register, IInv, FutsInv
    <3>2. owner[b] = home[f] /\ ~armed[b] /\ \A d \in Addrs : registry[d] # b
      <4>1. owner[via[f]] = home[f] /\ ~armed[via[f]] /\ \A d \in Addrs : registry[d] # via[f]
        BY <3>1, Zenon DEF IInv, FutsInv
      <4> QED
        BY <3>1, <4>1, Zenon
    <3>3. l = home[f] /\ life[l] = "open"
      BY <2>1, <3>2, Zenon
    <3>4. soon[l] = 0 /\ pipe[b] = 0 /\ draining[l] # b
      BY <1>a, <1>b, <1>f, <1>g, <3>1, <3>2, <3>3 DEF PlacesInv
    <3>a. ASSUME NEW w \in Workers, Notifies(w, b) PROVE FALSE
      <4>1. registry[AddrOf[l]] = b
        BY <1>c, <3>a, <3>2, <3>3, Zenon DEF Notifies
      <4>2. AddrOf[l] \in Addrs
        BY <1>b, Zenon
      <4> QED
        BY <3>2, <4>1, <4>2, Zenon
    <3>5. Notifiers(b) = {}
      BY <3>a, Zenon DEF Notifiers
    <3>6. Notices(b)' = 0
      BY <2>1, <3>5, NoticesKept, FS_EmptySet, Zenon DEF Notices, Notifies
    <3> QED
      <4>1. Owed(b)' = 0 /\ Running(b, l)' = 0 /\ soon'[l] = 0 /\ pipe'[b] = 0
        BY <2>1, <3>2, <3>4, Zenon DEF Owed, Running
      <4> QED
        BY <3>6, <4>1, TallyNew, Zenon DEF Balanced
  <2> QED
    BY <2>2, <2>3, Zenon
<1>9. ASSUME NEW f \in Futs, Forget(f) PROVE Balanced(b, l)'
  <2>1. UNCHANGED <<loopVars, registry, stateVars, notifierVars, jobVars>>
    BY <1>9, Zenon DEF Forget
  <2> QED
    BY <1>d, <2>1, BalanceKept, Zenon DEF Notifies
<1>10. ASSUME NEW w \in Workers, NEW f \in Futs, TakeParked(w, f) PROVE Balanced(b, l)'
  <2>1. UNCHANGED <<loopVars, registry, stateVars, notifierVars>>
    BY <1>10, Zenon DEF TakeParked
  <2>2. \A v \in Workers : Notifies(v, b)' <=> Notifies(v, b)
    BY <1>10, <1>c, Zenon DEF TakeParked, Notifies
  <2> QED
    BY <1>d, <2>1, <2>2, BalanceKept, Zenon
<1>11. ASSUME NEW w \in Workers, Push(w) PROVE Balanced(b, l)'
  <2> DEFINE c == via[holds[w]]
  <2>1. UNCHANGED <<life, owner, registry, draining, readers, pipe, soon>>
    BY <1>11, Zenon DEF Push
  <2>2. /\ job[w] = "push" /\ armed' = [armed EXCEPT ![c] = TRUE]
        /\ job' = [job EXCEPT ![w] = IF armed[c] THEN "idle" ELSE "notify"]
        /\ holds' = [holds EXCEPT ![w] = IF armed[c] THEN "none" ELSE c]
    BY <1>11, Zenon DEF Push
  <2>3. Balanced(b, l)
    BY <1>d, <2>1, Zenon
  <2> HIDE DEF c
  <2>4. CASE b = c /\ ~armed[b]
    <3>1. armed'[b] /\ job'[w] = "notify" /\ holds'[w] = b
      BY <1>a, <1>c, <2>2, <2>4, Zenon
    <3>2. \A v \in Workers : v # w => job'[v] = job[v] /\ holds'[v] = holds[v]
      BY <1>c, <2>2, Zenon
    <3>a. ~Notifies(w, b) /\ Notifies(w, b)'
      BY <2>2, <3>1, Zenon DEF Notifies
    <3>3. Notices(b)' = Notices(b) + 1
      BY <3>a, <3>2, NoticesMore, Zenon
    <3>4. Owed(b) = 0 /\ Owed(b)' = 1 /\ Running(b, l)' = Running(b, l)
      BY <2>1, <2>4, <3>1, Zenon DEF Owed, Running
    <3>5. Tally(0, Notices(b), soon[l], pipe[b], Running(b, l))
      BY <2>3, <3>4, Zenon DEF Balanced
    <3>6. Tally(1, Notices(b) + 1, soon[l], pipe[b], Running(b, l))
      BY <1>g, <3>5, TallyArms, Zenon
    <3> QED
      BY <2>1, <3>3, <3>4, <3>6, Zenon DEF Balanced
  <2>5. CASE b # c \/ armed[b]
    <3>1. armed'[b] = armed[b]
      BY <1>a, <2>2, <2>5, Zenon
    <3>2. \A v \in Workers : Notifies(v, b)' <=> Notifies(v, b)
      BY <1>c, <2>2, <2>5, Zenon DEF Notifies
    <3> QED
      BY <2>1, <2>3, <3>1, <3>2, BalanceKept, Zenon
  <2> QED
    BY <2>4, <2>5, Zenon
<1>12. ASSUME NEW w \in Workers, NotifyPipe(w) PROVE Balanced(b, l)'
  <2>1. UNCHANGED <<life, owner, registry, draining, readers, armed, soon>> /\ job[w] = "notify"
    BY <1>12, Zenon DEF NotifyPipe
  <2>2. \A v \in Workers : v # w => job'[v] = job[v] /\ holds'[v] = holds[v]
    BY <1>12, <1>c, Zenon DEF NotifyPipe
  <2>3. job'[w] = "idle"
    BY <1>12, <1>c, Zenon DEF NotifyPipe
  <2>4. Balanced(b, l)
    BY <1>d, <2>1, Zenon
  <2>5. CASE holds[w] = b
    <3>a. Notifies(w, b) /\ ~Notifies(w, b)'
      BY <2>1, <2>3, <2>5, Zenon DEF Notifies
    <3>1. Notices(b) > 0 /\ Notices(b)' = Notices(b) - 1
      BY <3>a, <2>2, NoticesLess, Zenon
    <3>2. Owed(b)' = Owed(b) /\ Running(b, l)' = Running(b, l)
      BY <2>1, Zenon DEF Owed, Running
    <3>3. /\ pipe[b] = 0
          /\ Tally(Owed(b), Notices(b) - 1, soon[l], 1, Running(b, l))
      <4>1. Tally(Owed(b), Notices(b), soon[l], pipe[b], Running(b, l)) /\ Notices(b) > 0
        BY <2>4, <3>1, Zenon DEF Balanced
      <4> QED
        BY <1>g, <4>1, TallyPiped, Zenon
    <3>4. pipe'[b] = IF pipe[b] < PipeSize THEN pipe[b] + 1 ELSE pipe[b]
      BY <1>12, <1>a, <2>5, Zenon DEF NotifyPipe
    <3>5. pipe'[b] = 1
      BY <1>a, <3>3, <3>4, FirstByte, Zenon
    <3> QED
      BY <2>1, <3>1, <3>2, <3>3, <3>5, Zenon DEF Balanced
  <2>6. CASE holds[w] # b
    <3>1. pipe'[b] = pipe[b]
      BY <1>12, <1>a, <2>6, Zenon DEF NotifyPipe
    <3>2. \A v \in Workers : Notifies(v, b)' <=> Notifies(v, b)
      BY <2>2, <2>3, <2>6, Zenon DEF Notifies
    <3> QED
      BY <2>1, <2>4, <3>1, <3>2, BalanceKept, Zenon
  <2> QED
    BY <2>5, <2>6, Zenon
<1>13. ASSUME NEW w \in Workers, NotifyCallSoon(w) PROVE Balanced(b, l)'
  <2>1. UNCHANGED <<life, owner, registry, armed, draining, readers, pipe>> /\ job[w] = "notify"
    BY <1>13, Zenon DEF NotifyCallSoon
  <2>2. \A v \in Workers : v # w => job'[v] = job[v] /\ holds'[v] = holds[v]
    BY <1>13, <1>c, Zenon DEF NotifyCallSoon
  <2>4. Balanced(b, l) /\ AddrOf[l] = a
    BY <1>d, <2>1, Zenon
  <2>5. CASE /\ holds[w] = b /\ soon' = [soon EXCEPT ![owner[holds[w]]] = @ + 1]
             /\ job' = [job EXCEPT ![w] = "idle"]
    <3>a. Notifies(w, b) /\ ~Notifies(w, b)'
      BY <1>c, <2>1, <2>5, Zenon DEF Notifies
    <3>1. Notices(b) > 0 /\ Notices(b)' = Notices(b) - 1
      BY <3>a, <2>2, NoticesLess, Zenon
    <3>2. soon'[l] = soon[l] + 1
      BY <1>b, <2>1, <2>5, Zenon
    <3>3. Owed(b)' = Owed(b) /\ Running(b, l)' = Running(b, l)
      BY <2>1, Zenon DEF Owed, Running
    <3>4. Tally(Owed(b), Notices(b), soon[l], pipe[b], Running(b, l)) /\ Notices(b) > 0
      BY <2>4, <3>1, Zenon DEF Balanced
    <3>5. Tally(Owed(b), Notices(b) - 1, soon[l] + 1, pipe[b], Running(b, l))
      BY <1>g, <3>4, TallyScheduled, Zenon
    <3> QED
      BY <2>1, <3>1, <3>2, <3>3, <3>5, Zenon DEF Balanced
  <2>6. CASE /\ holds[w] # b /\ soon' = [soon EXCEPT ![owner[holds[w]]] = @ + 1]
             /\ holds' = [holds EXCEPT ![w] = "none"]
    <3>1. owner[holds[w]] # l
      BY <1>c, <2>1, <2>4, <2>6, Zenon
    <3>2. soon'[l] = soon[l]
      BY <1>b, <2>6, <3>1, Zenon
    <3>3. \A v \in Workers : Notifies(v, b)' <=> Notifies(v, b)
      BY <1>a, <1>c, <2>2, <2>6, Zenon DEF Notifies
    <3>4. /\ armed'[b] = armed[b] /\ pipe'[b] = pipe[b]
          /\ draining'[l] = b <=> draining[l] = b
      BY <2>1, Zenon
    <3> QED
      BY <2>4, <3>2, <3>3, <3>4, BalanceKept, Zenon
  <2>7. CASE job' = [job EXCEPT ![w] = "discard"] /\ UNCHANGED <<soon, holds>>
    <3>1. \A v \in Workers : Notifies(v, b)' <=> Notifies(v, b)
      BY <1>c, <2>1, <2>7, Zenon DEF Notifies
    <3> QED
      BY <2>1, <2>4, <2>7, <3>1, BalanceKept, Zenon
  <2> QED
    BY <1>13, <2>5, <2>6, <2>7, Zenon DEF NotifyCallSoon
<1>14. ASSUME NEW w \in Workers, Discard(w) PROVE Balanced(b, l)'
  <2>1. UNCHANGED <<loopVars, registry, notifierVars>> /\ job[w] = "discard"
    BY <1>14, Zenon DEF Discard
  <2>2. \A v \in Workers : v # w => job'[v] = job[v] /\ holds'[v] = holds[v]
    BY <1>14, <1>c, Zenon DEF Discard
  <2>3. job'[w] = "idle" /\ holds'[w] = "none"
    BY <1>14, <1>c, Zenon DEF Discard
  <2>4. Balanced(b, l)
    BY <1>d, <2>1, Zenon
  <2>5. CASE holds[w] = b
    <3>1. Notifies(w, b) /\ ~Notifies(w, b)'
      BY <2>1, <2>3, <2>5, Zenon DEF Notifies
    <3>2. Notices(b) > 0 /\ Notices(b)' = Notices(b) - 1
      BY <2>2, <3>1, NoticesLess, Zenon
    <3>3. armed'[b] = FALSE
      BY <1>14, <1>a, <2>5, Zenon DEF Discard
    <3>4. Owed(b)' = 0 /\ Running(b, l)' = Running(b, l)
      BY <2>1, <3>3, Zenon DEF Owed, Running
    <3>5. Tally(Owed(b), Notices(b), soon[l], pipe[b], Running(b, l))
      BY <2>4, Zenon DEF Balanced
    <3>6. Tally(0, Notices(b) - 1, soon[l], pipe[b], Running(b, l))
      BY <1>g, <3>2, <3>5, TallyDiscarded, Zenon
    <3> QED
      BY <2>1, <3>2, <3>4, <3>6, Zenon DEF Balanced
  <2>6. CASE holds[w] # b
    <3>1. armed'[b] = armed[b]
      BY <1>14, <1>a, <2>6, Zenon DEF Discard
    <3>2. \A v \in Workers : Notifies(v, b)' <=> Notifies(v, b)
      BY <1>a, <2>2, <2>3, <2>6, Zenon DEF Notifies
    <3>3. pipe'[b] = pipe[b] /\ soon'[l] = soon[l] /\ (draining'[l] = b <=> draining[l] = b)
      BY <2>1, Zenon
    <3> QED
      BY <2>4, <3>1, <3>2, <3>3, BalanceKept, Zenon
  <2> QED
    BY <2>5, <2>6, Zenon
<1>15. CASE UNCHANGED vars
  BY <1>15, <1>d, BalanceKept, Zenon DEF vars, Notifies
<1> QED
  BY <1>1, <1>3, <1>4, <1>5, <1>6, <1>7, <1>8, <1>9, <1>10, <1>11, <1>12, <1>13, <1>14,
     <1>15, Zenon
  DEF Next, LoopNext, FutNext, WorkerNext, Notify

\* One drain per batch: an armed batcher of an open loop has exactly one drain, or one
\* discard, to come and an unarmed one has none, however many workers push to it, whichever way they
\* notify, and whatever loop had its address before (push, notify, drain, evict_fn).
THEOREM BatcherOneDrain == Spec => []OneDrainPerBatch
<1>1. Init => DrainInv
  <2> SUFFICES ASSUME Init PROVE DrainInv
    OBVIOUS
  <2>1. PlacesInv
    BY DEF Init, PlacesInv
  <2>2. OneDrainPerBatch
    BY DEF Init, OneDrainPerBatch
  <2> QED
    BY <2>1, <2>2 DEF DrainInv
<1>2. IInv /\ DrainInv /\ [Next]_vars => DrainInv'
  BY PlacesStep, OneDrainStep DEF DrainInv
<1>3. DrainInv => OneDrainPerBatch
  BY DEF DrainInv
<1> QED
  BY <1>1, <1>2, <1>3, Invariance, PTL DEF Spec
=============================================================================

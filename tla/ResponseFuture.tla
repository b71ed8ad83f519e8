--------------------------- MODULE ResponseFuture ---------------------------
(***************************************************************************)
(* One ResponseFuture (src/src/future/response_future) and everyone who    *)
(* touches it:                                                             *)
(*   - Threads: Python threads that register and clear callbacks, block in *)
(*     result() and page the future forward;                               *)
(*   - the guarded task of the request in flight (task.rs);                *)
(*   - Drainers: blocking threads, at most one of which may drain at once; *)
(*   - the runtime, which the atexit hook shuts down (lib.rs).             *)
(* A critical section of the future's one lock is one step. Rows are built *)
(* with the lock released, so taking a page out and storing its rows are   *)
(* two steps. Requests are numbered in the order they were started.        *)
(***************************************************************************)
EXTENDS Naturals, Sequences

CONSTANTS Threads,      \* Python threads that use the future
          Drainers,     \* blocking threads of the runtime
          Callbacks,    \* callbacks, each registered at most once
          DeliveryOf,   \* the list each callback was registered on
          MaxRequests,  \* bound: requests started
          CanStop       \* whether the atexit hook may run

Actors == Threads \cup Drainers
Requests == 1..MaxRequests

ASSUME ActorsAssumption == /\ Threads \cap Drainers = {}
                           /\ Actors \cap {"nobody", "request"} = {}
ASSUME DeliveryAssumption == DeliveryOf \in [Callbacks -> {"Callbacks", "Errbacks"}]
ASSUME BoundAssumption == MaxRequests \in Nat \ {0}
ASSUME SwitchAssumption == CanStop \in BOOLEAN

\* The rows of a page: whether they are a list or an error, and whose list it is.
Rows == [ok : BOOLEAN, by : Actors \cup {"nobody", "request"}]
NoRows == [ok |-> FALSE, by |-> "nobody"]     \* not built yet
Failure == [ok |-> FALSE, by |-> "request"]   \* the request's own error

Undelivered == [req : Requests \cup {0}, rows : Rows, cbs : SUBSET Callbacks]
NoJob == [req |-> 0, rows |-> NoRows, cbs |-> {}]

VARIABLES
  request,    \* the State variant: "Pending", "Received" or "Failed"
  current,    \* the request in flight, or the last one that settled
  more,       \* the last page received says more follow
  rows,       \* rows of the settled request
  unfired,    \* callbacks the drainer has to run for the settled request
  registered, \* Shared.registered
  queue,      \* Drainer.unfired_pages
  permit,     \* the DrainToken is parked
  waiters,    \* Inner.waiters of the StateLock
  task,       \* the request's task: "none", "spawned", "polled" or "gone"
  runtime,    \* "up", "stopping" or "stopped"
  pc,         \* where each actor is
  job,        \* the page an actor took out of the lock
  notes,      \* waiters a completion read and has not notified yet
  after,      \* errbacks a torn-down request still has to fire
  added,      \* history: callbacks registered so far
  fired,      \* history: how often a callback was invoked for a request
  latest,     \* history: the request a drainer last invoked a callback for
  owed,       \* history: callbacks the drainer has yet to run for a request
  told,       \* history: rows the current page's readers got
  lost        \* history: work dropped by a runtime that shuts down

pageVars == <<request, current, more, rows, unfired>>
drainVars == <<queue, permit>>
taskVars == <<task, runtime>>
doneVars == <<notes, after>>
histVars == <<added, fired, latest, owed, told, lost>>
vars == <<pageVars, registered, drainVars, waiters, taskVars, pc, job, doneVars, histVars>>

-----------------------------------------------------------------------------
(* Helpers. *)

Pending == request = "Pending"

\* Shared::is_terminal: nothing can fire again.
Terminal == ~Pending /\ ~more

\* Delivery::of.
DeliveryFor(r) == IF r.ok THEN "Callbacks" ELSE "Errbacks"

\* The callbacks among cbs that fire for rows r.
Matching(cbs, r) == {c \in cbs : DeliveryOf[c] = DeliveryFor(r)}

\* Callbacks::for_outcome: the callbacks to fire, empty if none would. Rows that
\* are still to be built can go either way.
ForOutcome(ok) == IF ok \/ Matching(registered, Failure) # {} THEN registered ELSE {}

\* Mutant: a callback is kept even though no page can follow.
KeepAlways(c) == registered \cup {c}

\* register: a callback is kept only while a page can follow.
Keep(c) == IF Terminal THEN registered ELSE registered \cup {c}

\* register: a late registration joins the callbacks still to run.
Joins == unfired # {}

\* Mutant: the last to finish stores its rows.
StoreRowsAgain(req, built) ==
  IF request = "Received" /\ current = req THEN rows' = built ELSE rows' = rows

\* store_rows: the first to finish stores its rows, if the page is still current.
StoreRows(req, built) ==
  rows' = IF request = "Received" /\ current = req /\ rows = NoRows THEN built ELSE rows

\* Mutant: a page is requested although a request is in flight.
CanFetchAlways == more

\* start_fetching_next_page raises while a request is in flight, and when the last
\* page received says none follows.
CanFetch == ~Pending /\ more

\* Mutant: a page paged past is dropped with its callbacks.
QueueForgets == queue' = queue

\* switch_to_pending: a page whose callbacks have not run is queued.
QueueUnfired ==
  queue' = IF unfired = {} THEN queue
           ELSE Append(queue, [req |-> current, rows |-> rows, cbs |-> unfired])

\* Mutant: the drainer takes the current page before the ones paged past.
DrainNewest ==
  IF unfired # {} THEN [req |-> current, rows |-> rows, cbs |-> unfired]
  ELSE IF queue # <<>> THEN Head(queue) ELSE NoJob

\* Drainer::next: the oldest page paged past, else the current one.
DrainOldest ==
  IF queue # <<>> THEN Head(queue)
  ELSE IF unfired # {} THEN [req |-> current, rows |-> rows, cbs |-> unfired] ELSE NoJob

\* Mutant: a drainer is started although one runs.
CanWakeAlways == TRUE

\* Drainer::wake: the token is there to take.
CanWake == permit

Init ==
  /\ request = "Pending" /\ current = 1 /\ more = FALSE
  /\ rows = NoRows /\ unfired = {} /\ registered = {}
  /\ queue = <<>> /\ permit = TRUE /\ waiters = 0
  /\ task = "spawned" /\ runtime = "up"
  /\ pc = [a \in Actors |-> "idle"]
  /\ job = [a \in Actors |-> NoJob]
  /\ notes = [r \in Requests |-> 0]
  /\ after = [r \in Requests |-> {}]
  /\ added = {}
  /\ fired = [c \in Callbacks |-> [r \in Requests |-> 0]]
  /\ latest = 0
  /\ owed = [r \in Requests |-> {}]
  /\ told = {}
  /\ lost = {}

-----------------------------------------------------------------------------
(* Python threads. *)

\* Mutant: a callback that joined the drainer's run also runs by itself.
RegisterTwice(t, c) ==
  /\ pc[t] = "idle" /\ c \notin added
  /\ added' = added \cup {c}
  /\ registered' = Keep(c)
  /\ IF Joins THEN /\ unfired' = unfired \cup {c}
                   /\ owed' = [owed EXCEPT ![current] = @ \cup {c}]
     ELSE UNCHANGED <<unfired, owed>>
  /\ IF Pending THEN UNCHANGED <<pc, job>>
     ELSE /\ pc' = [pc EXCEPT ![t] = "build"]
          /\ job' = [job EXCEPT ![t] = [req |-> current, rows |-> rows, cbs |-> {c}]]
  /\ UNCHANGED <<request, current, more, rows, drainVars, waiters, taskVars,
                 doneVars, fired, latest, told, lost>>

\* register, up to the release of the lock.
Register(t, c) ==
  /\ pc[t] = "idle" /\ c \notin added
  /\ added' = added \cup {c}
  /\ registered' = Keep(c)
  /\ \/ /\ Joins
        /\ unfired' = unfired \cup {c}
        /\ owed' = [owed EXCEPT ![current] = @ \cup {c}]
        /\ UNCHANGED <<pc, job>>
     \/ /\ ~Joins /\ Pending
        /\ UNCHANGED <<unfired, owed, pc, job>>
     \/ /\ ~Joins /\ ~Pending
        /\ pc' = [pc EXCEPT ![t] = "build"]
        /\ job' = [job EXCEPT ![t] = [req |-> current, rows |-> rows, cbs |-> {c}]]
        /\ UNCHANGED <<unfired, owed>>
  /\ UNCHANGED <<request, current, more, rows, drainVars, waiters, taskVars,
                 doneVars, fired, latest, told, lost>>

\* clear_callbacks.
ClearCallbacks(t) ==
  /\ pc[t] = "idle" /\ registered # {}
  /\ registered' = {}
  /\ UNCHANGED <<pageVars, drainVars, waiters, taskVars, pc, job, doneVars, histVars>>

\* wait_rows: read the rows under the lock, or go to wait for the request.
WaitRows(t) ==
  /\ pc[t] \in {"idle", "again"}
  /\ IF Pending
     THEN pc' = [pc EXCEPT ![t] = "enter"] /\ job' = job
     ELSE /\ pc' = [pc EXCEPT ![t] = "build"]
          /\ job' = [job EXCEPT ![t] = [req |-> current, rows |-> rows, cbs |-> {}]]
  /\ UNCHANGED <<pageVars, registered, drainVars, waiters, taskVars, doneVars, histVars>>

\* Mutant: the state is not looked at again after relocking.
WaitWhileBlind(t) ==
  /\ pc[t] = "enter"
  /\ waiters' = waiters + 1
  /\ pc' = [pc EXCEPT ![t] = "waiting"]
  /\ UNCHANGED <<pageVars, registered, drainVars, taskVars, job, doneVars, histVars>>

\* wait_while: relock detached, and join the condvar if still pending.
WaitWhile(t) ==
  /\ pc[t] = "enter"
  /\ waiters' = IF Pending THEN waiters + 1 ELSE waiters
  /\ pc' = [pc EXCEPT ![t] = IF Pending THEN "waiting" ELSE "again"]
  /\ UNCHANGED <<pageVars, registered, drainVars, taskVars, job, doneVars, histVars>>

\* The condvar may return without a notification.
SpuriousWakeup(t) ==
  /\ pc[t] = "waiting"
  /\ pc' = [pc EXCEPT ![t] = "woken"]
  /\ UNCHANGED <<pageVars, registered, drainVars, waiters, taskVars, job, doneVars, histVars>>

\* Mutant: a waiter uncounts itself on every wakeup, also when it waits on.
RecheckUncounts(t) ==
  /\ pc[t] = "woken"
  /\ waiters' = waiters - 1
  /\ pc' = [pc EXCEPT ![t] = IF Pending THEN "waiting" ELSE "again"]
  /\ UNCHANGED <<pageVars, registered, drainVars, taskVars, job, doneVars, histVars>>

\* Back from the condvar: another request may be in flight by now.
Recheck(t) ==
  /\ pc[t] = "woken"
  /\ waiters' = IF Pending THEN waiters ELSE waiters - 1
  /\ pc' = [pc EXCEPT ![t] = IF Pending THEN "waiting" ELSE "again"]
  /\ UNCHANGED <<pageVars, registered, drainVars, taskVars, job, doneVars, histVars>>

\* start_fetching_next_page, up to the release of the lock.
StartFetchingNextPage(t) ==
  /\ pc[t] = "idle"
  /\ CanFetch
  /\ current < MaxRequests                      \* the bound MaxRequests
  /\ QueueUnfired
  /\ request' = "Pending" /\ current' = current + 1
  /\ rows' = NoRows /\ unfired' = {}
  /\ task' = "none"
  /\ pc' = [pc EXCEPT ![t] = "spawn"]
  /\ told' = {}
  /\ UNCHANGED <<more, registered, permit, waiters, runtime, job, doneVars,
                 added, fired, latest, owed, lost>>

\* ... and then the request is spawned; a runtime that stopped drops it at once.
SpawnRequest(t) ==
  /\ pc[t] = "spawn"
  /\ pc' = [pc EXCEPT ![t] = "idle"]
  /\ task' = IF runtime = "stopped" THEN "gone" ELSE "spawned"
  /\ lost' = IF runtime = "stopped" THEN lost \cup {"task"} ELSE lost
  /\ UNCHANGED <<pageVars, registered, drainVars, waiters, runtime, job, doneVars,
                 added, fired, latest, owed, told>>

-----------------------------------------------------------------------------
(* Building rows and running callbacks, by threads and drainers alike. *)

\* Where an actor goes once it is done with a page.
Rest(a) == IF a \in Drainers THEN "running" ELSE "idle"

\* The rows r of the page actor a took are there: on to the callbacks they fire.
HandOver(a, r) ==
  LET cbs == Matching(job[a].cbs, r) IN
  /\ pc' = [pc EXCEPT ![a] = IF cbs = {} THEN Rest(a) ELSE "fire"]
  /\ job' = [job EXCEPT ![a] = IF cbs = {} THEN NoJob
                               ELSE [req |-> job[a].req, rows |-> r, cbs |-> cbs]]
  /\ owed' = IF a \in Drainers THEN [owed EXCEPT ![job[a].req] = Matching(@, r)] ELSE owed

\* build_rows of rows that were built when the page was taken.
RowsBuilt(a) ==
  /\ pc[a] = "build" /\ job[a].rows # NoRows
  /\ HandOver(a, job[a].rows)
  /\ told' = IF current = job[a].req THEN told \cup {job[a].rows} ELSE told
  /\ UNCHANGED <<request, current, more, rows, unfired, registered, drainVars, waiters,
                 taskVars, doneVars, added, fired, latest, lost>>

\* build_rows: the row factory ran without the lock, and may have raised.
BuildRows(a, ok) ==
  /\ pc[a] = "build" /\ job[a].rows = NoRows
  /\ StoreRows(job[a].req, [ok |-> ok, by |-> a])
  /\ IF request = "Received" /\ current = job[a].req
     THEN /\ HandOver(a, rows')
          /\ told' = told \cup {rows'}
     ELSE /\ HandOver(a, [ok |-> ok, by |-> a])   \* paged past meanwhile
          /\ told' = told
  /\ UNCHANGED <<request, current, more, unfired, registered, drainVars, waiters,
                 taskVars, doneVars, added, fired, latest, lost>>

\* Callbacks::fire and LegacyCallback::invoke: one callback, errors are logged.
Invoke(a) ==
  /\ pc[a] = "fire"
  /\ \E c \in job[a].cbs :
       LET left == job[a].cbs \ {c} IN
       /\ fired' = [fired EXCEPT ![c][job[a].req] = @ + 1]
       /\ IF a \in Drainers
          THEN /\ latest' = job[a].req
               /\ owed' = [owed EXCEPT ![job[a].req] = @ \ {c}]
          ELSE UNCHANGED <<latest, owed>>
       /\ pc' = [pc EXCEPT ![a] = IF left = {} THEN Rest(a) ELSE "fire"]
       /\ job' = [job EXCEPT ![a] = IF left = {} THEN NoJob ELSE [@ EXCEPT !.cbs = left]]
  /\ UNCHANGED <<pageVars, registered, drainVars, waiters, taskVars, doneVars,
                 added, told, lost>>

-----------------------------------------------------------------------------
(* The request's task. *)

TaskPoll ==
  /\ task = "spawned"
  /\ task' = "polled"
  /\ UNCHANGED <<pageVars, registered, drainVars, waiters, runtime, pc, job, doneVars, histVars>>

\* Mutant: nobody is started to run the callbacks.
WakeDrainerNever == UNCHANGED <<permit, pc, lost>>

\* Drainer::wake: take the token and hand it to a blocking thread. A runtime that
\* shuts down drops the closure, and the token with it.
WakeDrainer ==
  IF CanWake
  THEN /\ permit' = FALSE
       /\ \/ /\ runtime # "stopped"
             /\ \E d \in Drainers : pc[d] = "idle" /\ pc' = [pc EXCEPT ![d] = "queued"]
             /\ lost' = lost
          \/ /\ runtime # "up"
             /\ lost' = lost \cup {"drain"}
             /\ pc' = pc
  ELSE UNCHANGED <<permit, pc, lost>>

\* complete: the request finished, with a page that says whether more follow or
\* with an error that keeps the last page received.
Complete(ok, follows) ==
  /\ task = "polled"
  /\ task' = "gone"
  /\ request' = IF ok THEN "Received" ELSE "Failed"
  /\ rows' = IF ok THEN NoRows ELSE Failure
  /\ more' = IF ok THEN follows ELSE more
  /\ unfired' = ForOutcome(ok)
  /\ owed' = [owed EXCEPT ![current] = ForOutcome(ok)]
  /\ registered' = IF more' THEN registered ELSE {}
  /\ IF ForOutcome(ok) # {} THEN WakeDrainer ELSE UNCHANGED <<permit, pc, lost>>
  /\ notes' = [notes EXCEPT ![current] = waiters]
  /\ UNCHANGED <<current, queue, waiters, runtime, job, after, added, fired, latest, told>>

\* The runtime drops the task. Only a polled task has a DropGuard, which calls
\* complete_dropped: the errbacks are consumed.
TaskDrop ==
  /\ task \in {"spawned", "polled"} /\ runtime # "up"
  /\ task' = "gone"
  /\ IF task = "polled" /\ Pending
     THEN /\ request' = "Failed" /\ rows' = Failure /\ unfired' = {}
          /\ registered' = {}
          /\ after' = [after EXCEPT ![current] = Matching(registered, Failure)]
          /\ notes' = [notes EXCEPT ![current] = waiters]
          /\ lost' = lost
     ELSE /\ lost' = lost \cup {"task"}
          /\ UNCHANGED <<request, rows, unfired, registered, doneVars>>
  /\ UNCHANGED <<current, more, drainVars, waiters, runtime, pc, job,
                 added, fired, latest, owed, told>>

\* Mutant: nobody is notified.
NotifyNobody(r) ==
  /\ notes[r] > 0
  /\ notes' = [notes EXCEPT ![r] = 0]
  /\ UNCHANGED <<pageVars, registered, drainVars, waiters, taskVars, pc, job, after, histVars>>

\* StateLock::notify, after the lock was released.
Notify(r) ==
  /\ notes[r] > 0
  /\ notes' = [notes EXCEPT ![r] = 0]
  /\ pc' = [a \in Actors |-> IF pc[a] = "waiting" THEN "woken" ELSE pc[a]]
  /\ UNCHANGED <<pageVars, registered, drainVars, waiters, taskVars, job, after, histVars>>

\* The end of complete_dropped: the errbacks run on the thread that dropped it.
FireDropped(r) ==
  /\ notes[r] = 0
  /\ \E c \in after[r] : /\ fired' = [fired EXCEPT ![c][r] = @ + 1]
                         /\ after' = [after EXCEPT ![r] = @ \ {c}]
  /\ UNCHANGED <<pageVars, registered, drainVars, waiters, taskVars, pc, job, notes,
                 added, latest, owed, told, lost>>

-----------------------------------------------------------------------------
(* The drainer and the runtime. *)

\* A blocking thread picks the drain up.
DrainStart(d) ==
  /\ pc[d] = "queued"
  /\ pc' = [pc EXCEPT ![d] = "running"]
  /\ UNCHANGED <<pageVars, registered, drainVars, waiters, taskVars, job, doneVars, histVars>>

\* A runtime that shuts down drops a drain no thread picked up.
DrainDrop(d) ==
  /\ pc[d] = "queued" /\ runtime # "up"
  /\ pc' = [pc EXCEPT ![d] = "idle"]
  /\ lost' = lost \cup {"drain"}
  /\ UNCHANGED <<pageVars, registered, drainVars, waiters, taskVars, job, doneVars,
                 added, fired, latest, owed, told>>

\* One turn of Drainer::run under the lock: take a page, or park the token.
DrainNext(d) ==
  /\ pc[d] = "running"
  /\ IF DrainOldest = NoJob
     THEN /\ permit' = TRUE
          /\ pc' = [pc EXCEPT ![d] = "idle"]
          /\ UNCHANGED <<queue, unfired, job>>
     ELSE /\ job' = [job EXCEPT ![d] = DrainOldest]
          /\ pc' = [pc EXCEPT ![d] = "build"]
          /\ IF queue # <<>> /\ DrainOldest = Head(queue)
             THEN queue' = Tail(queue) /\ unfired' = unfired
             ELSE unfired' = {} /\ queue' = queue
          /\ permit' = permit
  /\ UNCHANGED <<request, current, more, rows, registered, waiters, taskVars,
                 doneVars, histVars>>

Shutdown ==
  /\ CanStop /\ runtime = "up"
  /\ runtime' = "stopping"
  /\ UNCHANGED <<pageVars, registered, drainVars, waiters, task, pc, job, doneVars, histVars>>

\* The scheduler dropped its task and the pool its queue.
Stopped ==
  /\ runtime = "stopping"
  /\ task \notin {"spawned", "polled"} /\ \A d \in Drainers : pc[d] # "queued"
  /\ runtime' = "stopped"
  /\ UNCHANGED <<pageVars, registered, drainVars, waiters, task, pc, job, doneVars, histVars>>

-----------------------------------------------------------------------------
ThreadNext(t) ==
  \/ \E c \in Callbacks : Register(t, c)
  \/ ClearCallbacks(t) \/ WaitRows(t) \/ WaitWhile(t) \/ SpuriousWakeup(t) \/ Recheck(t)
  \/ StartFetchingNextPage(t) \/ SpawnRequest(t)

BuildNext(a) == RowsBuilt(a) \/ (\E ok \in BOOLEAN : BuildRows(a, ok)) \/ Invoke(a)

DrainerNext(d) == DrainStart(d) \/ DrainDrop(d) \/ DrainNext(d)

TaskNext == \/ TaskPoll \/ TaskDrop
            \/ \E ok, follows \in BOOLEAN : Complete(ok, follows)
            \/ \E r \in Requests : Notify(r) \/ FireDropped(r)

Next == \/ \E t \in Threads : ThreadNext(t)
        \/ \E a \in Actors : BuildNext(a)
        \/ \E d \in Drainers : DrainerNext(d)
        \/ TaskNext \/ Shutdown \/ Stopped

Spec == Init /\ [][Next]_vars

\* What runs without anybody's decision: a thread inside a call, blocking threads
\* and workers. The row factory and callbacks are taken to return; a request need
\* not complete.
Fairness ==
  /\ \A t \in Threads : /\ WF_vars(pc[t] = "again" /\ WaitRows(t))
                        /\ WF_vars(WaitWhile(t)) /\ WF_vars(Recheck(t))
                        /\ WF_vars(SpawnRequest(t))
  /\ \A a \in Actors : WF_vars(BuildNext(a))
  /\ \A d \in Drainers : WF_vars(DrainStart(d)) /\ WF_vars(DrainNext(d))
  /\ WF_vars(TaskPoll)
  /\ \A r \in Requests : WF_vars(Notify(r)) /\ WF_vars(FireDropped(r))

FairSpec == Spec /\ Fairness

-----------------------------------------------------------------------------
(* Properties. *)

PcValues == {"idle", "enter", "waiting", "woken", "again", "build", "fire", "spawn",
             "queued", "running"}

PageTypes == /\ request \in {"Pending", "Received", "Failed"}
             /\ current \in Requests /\ more \in BOOLEAN
             /\ rows \in Rows
             /\ unfired \subseteq Callbacks /\ registered \subseteq Callbacks
DrainTypes == /\ queue \in Seq(Undelivered) /\ permit \in BOOLEAN
              /\ waiters \in Nat
              /\ task \in {"none", "spawned", "polled", "gone"}
              /\ runtime \in {"up", "stopping", "stopped"}
ActorTypes == /\ pc \in [Actors -> PcValues]
              /\ job \in [Actors -> Undelivered]
              /\ notes \in [Requests -> Nat]
              /\ after \in [Requests -> SUBSET Callbacks]
HistTypes == /\ added \subseteq Callbacks
             /\ fired \in [Callbacks -> [Requests -> Nat]]
             /\ latest \in Nat
             /\ owed \in [Requests -> SUBSET Callbacks]
             /\ told \subseteq Rows
             /\ lost \subseteq {"task", "drain"}

\* Every variable has its type: the count of waiters never goes below zero.
TypeOK == PageTypes /\ DrainTypes /\ ActorTypes /\ HistTypes

\* settle's debug_assert: only a request in flight can settle. One request is in
\* flight at a time, whoever pages the future, and the state says so.
OneInFlight ==
  /\ task \in {"spawned", "polled"} \/ (\E t \in Threads : pc[t] = "spawn") => Pending
  /\ \A t, u \in Threads : pc[t] = "spawn" /\ pc[u] = "spawn" => t = u
  /\ (\E t \in Threads : pc[t] = "spawn") => task = "none"

\* A callback fires at most once for a page: what joins the drainer's run does
\* not run by itself too, and a page paged past is not run twice.
OncePerPage == \A c \in Callbacks, r \in Requests : fired[c][r] <= 1

Draining(d) == pc[d] \in {"queued", "running", "build", "fire"}

\* Two drainers never run at once: the token is parked exactly while none does.
OneDrainer ==
  /\ \A d, e \in Drainers : Draining(d) /\ Draining(e) => d = e
  /\ permit => \A d \in Drainers : ~Draining(d)

\* Callbacks that wait to run have a drainer that will run them: a page cannot
\* settle just as the drainer parks its token and be left behind.
DrainerCovers ==
  (runtime = "up" \/ lost = {}) /\ (queue # <<>> \/ unfired # {})
    => \E d \in Drainers : Draining(d)

\* No callback is forgotten: one that has to run for a request is waiting in the
\* state, in the queue or with the drainer until it ran.
NothingForgotten ==
  \A r \in Requests : \A c \in owed[r] :
    \/ current = r /\ c \in unfired
    \/ \E i \in 1..Len(queue) : queue[i].req = r /\ c \in queue[i].cbs
    \/ \E d \in Drainers : job[d].req = r /\ c \in job[d].cbs

\* Every reader that gets the rows of a page while it is current, and the drainer
\* too, gets the same list or the same error.
SameRows == \A r, s \in told : r = s

\* Once no page can follow, the future keeps no callback: a callback often holds
\* the future itself, and the cycle would never be collected.
CallbacksReleased == Terminal => registered = {}

\* A thread blocked in result() is going to be notified once its request settled.
WaiterCovered ==
  ~Pending => \A t \in Threads : pc[t] = "waiting" => \E r \in Requests : notes[r] > 0

\* The drainer goes through the pages in the order they were requested.
PageOrder == [][latest' >= latest]_vars

\* Nobody is stuck in result() while no request is in flight.
ResultReturns == \A t \in Threads : []<>Pending \/ []<>(pc[t] = "idle")

\* The callbacks of a settled page are run, however the future is paged meanwhile,
\* unless the runtime shut down on them.
CallbacksDelivered ==
  \A c \in Callbacks, r \in Requests :
    c \in owed[r] ~> (c \notin owed[r] \/ lost # {})
=============================================================================

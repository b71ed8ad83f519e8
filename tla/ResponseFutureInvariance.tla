---------------------- MODULE ResponseFutureInvariance ----------------------
(***************************************************************************)
(* For any threads, drainers, callbacks and number of requests: the pages  *)
(* of a ResponseFuture and their callbacks. Readers of a page agree on its *)
(* rows, pages are drained in order, and a callback that has to run for a  *)
(* page is in exactly one place until it ran, once.                        *)
(***************************************************************************)
EXTENDS ResponseFutureTypes

\* A request in flight has no rows yet, a failed one its error; the readers of the
\* current page got its rows, and whoever holds the page has them or is to build them.
RowsInv ==
  /\ Pending => rows = NoRows
  /\ request = "Failed" => rows = Failure
  /\ told \subseteq {rows}
  /\ rows = NoRows => told = {}
  /\ \A a \in Actors : job[a].req = current =>
       \/ job[a].rows = rows
       \/ request = "Received" /\ job[a].rows = NoRows

\* Pages paged past are queued in the order of their requests, after the page a
\* drainer works on; no callback waits for a page the drainer took.
OrderInv ==
  /\ \A i, j \in 1..Len(queue) : i < j => queue[i].req < queue[j].req
  /\ \A d \in Drainers : job[d].req # 0 =>
       /\ latest <= job[d].req
       /\ \A i \in 1..Len(queue) : job[d].req < queue[i].req
       /\ job[d].req = current => unfired = {}
  /\ \A i \in 1..Len(queue) : latest <= queue[i].req
  /\ latest <= current

\* Nothing ran for a request that has not settled, and nothing has to.
Unsettled(r) == r > current \/ (r = current /\ Pending)
FutureInv ==
  \A r \in Requests : Unsettled(r) =>
    owed[r] = {} /\ after[r] = {} /\ \A c \in Callbacks : fired[c][r] = 0

\* A callback that was not registered is nowhere.
AddedInv ==
  /\ unfired \subseteq added /\ registered \subseteq added
  /\ \A i \in 1..Len(queue) : queue[i].cbs \subseteq added
  /\ \A a \in Actors : job[a].cbs \subseteq added
  /\ \A r \in Requests : after[r] \subseteq added
  /\ \A c \in Callbacks \ added, r \in Requests : fired[c][r] = 0

\* Where a callback can wait to be run for a request, apart from after[r].
InState(c, r) == current = r /\ c \in unfired
InQueue(c, r) == \E i \in 1..Len(queue) : queue[i].req = r /\ c \in queue[i].cbs
With(a, c, r) == job[a].req = r /\ c \in job[a].cbs

\* A callback that may still run for a request is in one place, and did not run.
PlaceAt(c, r) ==
  /\ fired[c][r] \in {0, 1}
  /\ InState(c, r) \/ InQueue(c, r) \/ c \in after[r] => fired[c][r] = 0
  /\ InState(c, r) \/ InQueue(c, r) => c \notin after[r]
  /\ \A a \in Actors : With(a, c, r) =>
       fired[c][r] = 0 /\ c \notin after[r] /\ ~InState(c, r) /\ ~InQueue(c, r)
  /\ \A a, b \in Actors : With(a, c, r) /\ With(b, c, r) => a = b
PlaceInv == \A c \in Callbacks, r \in Requests : PlaceAt(c, r)

PageInv == RowsInv /\ OrderInv /\ FutureInv /\ AddedInv /\ PlaceInv /\ NothingForgotten
IInv == ActorInv /\ PageInv

-----------------------------------------------------------------------------
(* Steps that move no page. *)

\* What a step changes that neither takes, builds, moves nor settles a page.
Quiet == /\ UNCHANGED <<request, current, rows, unfired, queue, job, after, added, fired,
                        latest, owed, told>>
         /\ registered' \subseteq registered

\* Every step is quiet, or one of eleven.
LEMMA LoudSteps ==
  ASSUME [Next]_vars
  PROVE  \/ Quiet
         \/ \E t \in Threads : \/ \E c \in Callbacks : Register(t, c)
                               \/ WaitRows(t) \/ StartFetchingNextPage(t)
         \/ \E a \in Actors : \/ RowsBuilt(a) \/ Invoke(a)
                              \/ \E ok \in BOOLEAN : BuildRows(a, ok)
         \/ \E ok, follows \in BOOLEAN : Complete(ok, follows)
         \/ TaskDrop
         \/ \E r \in Requests : FireDropped(r)
         \/ \E d \in Drainers : DrainNext(d)
<1> USE DEF Quiet, pageVars, drainVars, taskVars, doneVars, histVars
<1>1. ASSUME NEW t \in Threads, ThreadNext(t)
      PROVE  \/ Quiet \/ WaitRows(t) \/ StartFetchingNextPage(t)
             \/ \E c \in Callbacks : Register(t, c)
  BY <1>1 DEF ThreadNext, ClearCallbacks, WaitWhile, SpuriousWakeup, Recheck, SpawnRequest
<1>2. ASSUME NEW d \in Drainers, DrainerNext(d)
      PROVE  Quiet \/ DrainNext(d)
  BY <1>2 DEF DrainerNext, DrainStart, DrainDrop
<1>3. ASSUME NEW r \in Requests, Notify(r)
      PROVE  Quiet
  BY <1>3 DEF Notify
<1>4. CASE TaskPoll \/ Shutdown \/ Stopped \/ UNCHANGED vars
  BY <1>4 DEF TaskPoll, Shutdown, Stopped, vars
<1> HIDE DEF Quiet
<1> QED
  BY <1>1, <1>2, <1>3, <1>4, Zenon DEF Next, BuildNext, TaskNext

\* A quiet step keeps everything said of pages.
LEMMA QuietStep ==
  ASSUME PageInv, Quiet
  PROVE  PageInv'
<1> USE DEF PageInv, Quiet
<1>1. RowsInv' /\ OrderInv' /\ FutureInv' /\ AddedInv'
  BY DEF RowsInv, OrderInv, FutureInv, Unsettled, AddedInv, Pending
<1>2. PlaceInv'
  BY DEF PlaceInv, PlaceAt, InState, InQueue, With
<1>3. NothingForgotten'
  BY DEF NothingForgotten
<1> QED
  BY <1>1, <1>2, <1>3

-----------------------------------------------------------------------------
(* What the other steps do to the pages and their callbacks. *)

\* An actor holds the page of a settled request, or none.
LEMMA JobFacts ==
  ASSUME TypeInv
  PROVE  /\ current \in Requests /\ current \in Nat /\ current > 0 /\ Requests \subseteq Nat
         /\ \A a \in Actors :
              /\ job[a] \in Undelivered /\ job[a].cbs \subseteq Callbacks
              /\ job[a].req \in Nat /\ job[a].req <= current
              /\ job[a].req = 0 => job[a].cbs = {}
              /\ job[a].req # 0 => job[a].req \in Requests
              /\ Pending => job[a].req # current
              /\ pc[a] \notin {"build", "fire"} => job[a] = NoJob
              /\ pc[a] \in {"build", "fire"} => job[a].req # 0
<1>1. current \in Requests /\ current \in Nat /\ current > 0 /\ Requests \subseteq Nat
  BY BoundAssumption DEF TypeInv, TypeOK, PageTypes, Requests
<1>2. ASSUME NEW a \in Actors
      PROVE  /\ job[a] \in Undelivered /\ job[a].cbs \subseteq Callbacks
             /\ job[a].req # 0 => job[a].req \in Requests
             /\ pc[a] \notin {"build", "fire"} => job[a] = NoJob
  BY DEF TypeInv, TypeOK, ActorTypes, JobInv, Busy, Undelivered
<1>3. ASSUME NEW a \in Actors, pc[a] \in {"build", "fire"}
      PROVE  job[a].req \in 1..current /\ (Pending => job[a].req # current)
  BY <1>3 DEF TypeInv, JobInv, Busy
<1>4. NoJob.req = 0 /\ NoJob.cbs = {}
  BY RowsTyped
<1> QED
  BY <1>1, <1>2, <1>3, <1>4

\* Where the members of a sequence are in its tail.
LEMMA TailFacts ==
  ASSUME NEW S, NEW s \in Seq(S), s # <<>>
  PROVE  \A i \in 1..Len(s) : i = 1 \/ (i - 1 \in 1..Len(Tail(s)) /\ s[i] = Tail(s)[i - 1])
OBVIOUS

\* A page paged past is of a settled request before the current one.
LEMMA QueueFacts ==
  ASSUME TypeInv
  PROVE  /\ queue \in Seq(Undelivered) /\ Len(queue) \in Nat
         /\ \A i \in 1..Len(queue) :
              /\ queue[i] \in Undelivered /\ queue[i].cbs \subseteq Callbacks
              /\ queue[i].req \in Nat /\ queue[i].req > 0 /\ queue[i].req < current
              /\ queue[i].req \in Requests
<1>1. queue \in Seq(Undelivered) /\ Len(queue) \in Nat /\ current \in 1..MaxRequests
  BY DEF TypeInv, TypeOK, DrainTypes, PageTypes, Requests
<1>2. ASSUME NEW i \in 1..Len(queue)
      PROVE  /\ queue[i] \in Undelivered /\ queue[i].cbs \subseteq Callbacks
             /\ queue[i].req \in 1..(current - 1)
  <2>1. queue[i] \in Undelivered
    BY <1>1
  <2> QED
    BY <2>1 DEF TypeInv, QueueInv, Undelivered
<1> QED
  BY <1>1, <1>2, BoundAssumption DEF Requests

\* Paging on queues the current page if its callbacks have not run.
LEMMA FetchEffect ==
  ASSUME TypeInv, NEW t \in Threads, StartFetchingNextPage(t)
  PROVE  /\ ~Pending /\ Pending' /\ current' = current + 1 /\ unfired' = {}
         /\ UNCHANGED <<job, after, added, fired, latest, owed, registered>>
         /\ \/ unfired = {} /\ queue' = queue
            \/ /\ unfired # {} /\ Len(queue') = Len(queue) + 1
               /\ \A i \in 1..Len(queue) : queue'[i] = queue[i]
               /\ queue'[Len(queue) + 1] = [req |-> current, rows |-> rows, cbs |-> unfired]
<1>1. /\ ~Pending /\ Pending' /\ current' = current + 1 /\ unfired' = {}
      /\ UNCHANGED <<job, after, added, fired, latest, owed, registered>>
  BY DEF StartFetchingNextPage, CanFetch, Pending, doneVars
<1>2. CASE unfired = {}
  BY <1>1, <1>2 DEF StartFetchingNextPage, QueueUnfired
<1>3. CASE unfired # {}
  <2> DEFINE page == [req |-> current, rows |-> rows, cbs |-> unfired]
  <2>1. queue' = Append(queue, page)
    BY <1>3 DEF StartFetchingNextPage, QueueUnfired
  <2>2. queue \in Seq(Undelivered) /\ page \in Undelivered
    BY RowsTyped DEF TypeInv, TypeOK, DrainTypes, PageTypes
  <2> HIDE DEF page
  <2>3. /\ Len(queue') = Len(queue) + 1
        /\ \A i \in 1..Len(queue) : queue'[i] = queue[i]
        /\ queue'[Len(queue) + 1] = page
    BY <2>1, <2>2
  <2> QED
    BY <1>1, <1>3, <2>3 DEF page
<1> QED
  BY <1>2, <1>3

\* The drainer that takes the oldest page paged past leaves the later ones.
LEMMA TailEffect ==
  ASSUME TypeInv, queue # <<>>, queue' = Tail(queue)
  PROVE  /\ 1 \in 1..Len(queue) /\ Head(queue) = queue[1]
         /\ Len(queue') = Len(queue) - 1
         /\ \A i \in 1..Len(queue') : i + 1 \in 1..Len(queue) /\ queue'[i] = queue[i + 1]
BY QueueFacts

\* Handing over rows touches one job: its callbacks are those the rows fire.
LEMMA HandOverEffect ==
  ASSUME TypeInv, NEW a \in Actors, pc[a] = "build", NEW r \in Rows, HandOver(a, r)
  PROVE  /\ \A b \in Actors : b # a => job'[b] = job[b]
         /\ \/ job'[a].req = 0 /\ job'[a].cbs = {} /\ Matching(job[a].cbs, r) = {}
            \/ /\ job'[a].req = job[a].req /\ job'[a].rows = r
               /\ job'[a].cbs = Matching(job[a].cbs, r)
         /\ job[a].req \in Requests
<1>1. /\ \A b \in Actors : b # a => job'[b] = job[b]
      /\ job[a].req \in Requests
      /\ \/ job'[a] = NoJob /\ Matching(job[a].cbs, r) = {}
         \/ job'[a] = [req |-> job[a].req, rows |-> r, cbs |-> Matching(job[a].cbs, r)]
  <2>1. \A b \in Actors : b # a => job'[b] = job[b]
    BY HandOverMoves, Zenon
  <2>2. \/ job'[a] = NoJob /\ Matching(job[a].cbs, r) = {}
        \/ job'[a] = [req |-> job[a].req, rows |-> r, cbs |-> Matching(job[a].cbs, r)]
    BY HandOverMoves, Zenon
  <2>3. job[a].req \in Requests
    BY HandOverMoves, Zenon
  <2> QED
    BY <2>1, <2>2, <2>3
<1> HIDE DEF Matching
<1> QED
  BY <1>1, RowsTyped

\* Invoking a callback touches one job, which no longer has that callback.
LEMMA InvokeEffect ==
  ASSUME TypeInv, NEW a \in Actors, Invoke(a)
  PROVE  \E c \in job[a].cbs :
           /\ c \in Callbacks /\ job[a].req \in Requests
           /\ fired' = [fired EXCEPT ![c][job[a].req] = @ + 1]
           /\ \A b \in Actors : b # a => job'[b] = job[b]
           /\ \/ job'[a].req = 0 /\ job'[a].cbs = {} /\ job[a].cbs \ {c} = {}
              \/ /\ job'[a].req = job[a].req /\ job'[a].rows = job[a].rows
                 /\ job'[a].cbs = job[a].cbs \ {c}
           /\ a \in Drainers => /\ latest' = job[a].req
                                /\ owed' = [owed EXCEPT ![job[a].req] = @ \ {c}]
           /\ a \notin Drainers => latest' = latest /\ owed' = owed
<1>1. PICK c \in job[a].cbs :
        /\ c \in Callbacks /\ job[a].req \in Requests
        /\ fired' = [fired EXCEPT ![c][job[a].req] = @ + 1]
        /\ \A b \in Actors : b # a => job'[b] = job[b]
        /\ \/ job'[a] = NoJob /\ job[a].cbs \ {c} = {}
           \/ job'[a] = [req |-> job[a].req, rows |-> job[a].rows, cbs |-> job[a].cbs \ {c}]
        /\ a \in Drainers => /\ latest' = job[a].req
                             /\ owed' = [owed EXCEPT ![job[a].req] = @ \ {c}]
        /\ a \notin Drainers => latest' = latest /\ owed' = owed
  BY InvokeMoves, Zenon
<1>2. \/ job'[a].req = 0 /\ job'[a].cbs = {} /\ job[a].cbs \ {c} = {}
      \/ /\ job'[a].req = job[a].req /\ job'[a].rows = job[a].rows
         /\ job'[a].cbs = job[a].cbs \ {c}
  BY <1>1, RowsTyped
<1> QED
  BY <1>1, <1>2, Zenon

\* A turn of the drainer touches its own job: nothing, the oldest page paged past,
\* or the current page.
LEMMA DrainEffect ==
  ASSUME TypeInv, NEW d \in Drainers, DrainNext(d)
  PROVE  /\ job[d].req = 0 /\ job[d].cbs = {}
         /\ UNCHANGED <<request, current, rows, registered, after, added, fired, latest, owed, told>>
         /\ \A b \in Actors : b # d => job'[b] = job[b]
         /\ \/ UNCHANGED <<queue, unfired, job>>
            \/ /\ queue # <<>> /\ queue' = Tail(queue) /\ unfired' = unfired
               /\ job'[d] = queue[1]
            \/ /\ queue = <<>> /\ queue' = queue /\ unfired # {} /\ unfired' = {}
               /\ job'[d].req = current /\ job'[d].rows = rows /\ job'[d].cbs = unfired
<1>1. job[d].req = 0 /\ job[d].cbs = {}
  BY Apart, JobFacts, RowsTyped DEF DrainNext
<1>2. UNCHANGED <<request, current, rows, registered, after, added, fired, latest, owed, told>>
  BY DEF DrainNext, doneVars, histVars
<1>3. job \in [Actors -> Undelivered] /\ d \in Actors
  BY Apart DEF TypeInv, TypeOK, ActorTypes
<1>4. CASE UNCHANGED <<queue, unfired, job>>
  BY <1>1, <1>2, <1>4
<1>5. CASE /\ queue # <<>> /\ Head(queue) = queue[1] /\ queue' = Tail(queue) /\ unfired' = unfired
           /\ job' = [job EXCEPT ![d] = Head(queue)]
  BY <1>1, <1>2, <1>3, <1>5
<1>6. CASE /\ queue = <<>> /\ unfired # {} /\ queue' = queue /\ unfired' = {}
           /\ job' = [job EXCEPT ![d] = [req |-> current, rows |-> rows, cbs |-> unfired]]
  BY <1>1, <1>2, <1>3, <1>6
<1> QED
  BY <1>4, <1>5, <1>6, DrainTakes, Zenon

-----------------------------------------------------------------------------
(* Readers of a page agree. *)

\* Every step keeps the readers of the current page agreed on its rows.
LEMMA RowsStep ==
  ASSUME TypeInv, OneInFlight, PageInv, [Next]_vars
  PROVE  RowsInv'
<1>0. RowsInv
  BY DEF PageInv
<1>1. ASSUME NEW t \in Threads, NEW c \in Callbacks, Register(t, c)
      PROVE  RowsInv'
  BY <1>1, <1>0 DEF Register, RowsInv, Pending, TypeInv, TypeOK, ActorTypes
<1>2. ASSUME NEW t \in Threads, WaitRows(t)
      PROVE  RowsInv'
  BY <1>2, <1>0 DEF WaitRows, RowsInv, Pending, histVars, pageVars, TypeInv, TypeOK, ActorTypes
<1>3. ASSUME NEW t \in Threads, StartFetchingNextPage(t)
      PROVE  RowsInv'
  <2>1. request' = "Pending" /\ rows' = NoRows /\ told' = {}
    BY <1>3, Zenon DEF StartFetchingNextPage
  <2> QED
    BY <1>3, <2>1, FetchEffect, JobFacts DEF RowsInv, Pending
<1>4. ASSUME NEW a \in Actors, RowsBuilt(a)
      PROVE  RowsInv'
  <2>1. /\ HandOver(a, job[a].rows) /\ pc[a] = "build" /\ job[a].rows # NoRows
        /\ job[a].rows \in Rows /\ job[a].req # 0
        /\ UNCHANGED <<request, current, rows>>
        /\ told' = IF current = job[a].req THEN told \cup {job[a].rows} ELSE told
    BY <1>4, JobFacts, Zenon DEF RowsBuilt, Undelivered
  <2>2. /\ \A b \in Actors : b # a => job'[b] = job[b]
        /\ job'[a].req = 0 \/ (job'[a].req = job[a].req /\ job'[a].rows = job[a].rows)
    BY <2>1, HandOverEffect
  <2> QED
    BY <1>0, <2>1, <2>2, RowsTyped, JobFacts DEF RowsInv, Pending
<1>5. ASSUME NEW a \in Actors, NEW ok \in BOOLEAN, BuildRows(a, ok)
      PROVE  RowsInv'
  <2> DEFINE built == [ok |-> ok, by |-> a]
  <2>1. /\ pc[a] = "build" /\ job[a].rows = NoRows /\ job[a].req # 0
        /\ UNCHANGED <<request, current>>
        /\ built \in Rows /\ built # NoRows
    BY <1>5, RowsTyped, JobFacts, Zenon DEF BuildRows
  <2>2. CASE request = "Received" /\ current = job[a].req
    <3>1. /\ rows' = (IF rows = NoRows THEN built ELSE rows) /\ rows' \in Rows /\ rows' # NoRows
          /\ HandOver(a, rows') /\ told' = told \cup {rows'}
      BY <1>5, <2>1, <2>2, Zenon DEF BuildRows, StoreRows, TypeInv, TypeOK, PageTypes
    <3>2. /\ \A b \in Actors : b # a => job'[b] = job[b]
          /\ job'[a].req = 0 \/ (job'[a].req = job[a].req /\ job'[a].rows = rows')
      BY <2>1, <3>1, HandOverEffect, Zenon
    <3> HIDE DEF built
    <3> QED
      BY <1>0, <2>1, <2>2, <3>1, <3>2, RowsTyped DEF RowsInv, Pending
  <2>3. CASE ~(request = "Received" /\ current = job[a].req)
    <3>1. rows' = rows /\ told' = told /\ HandOver(a, built)
      BY <1>5, <2>3, Zenon DEF BuildRows, StoreRows
    <3>2. /\ \A b \in Actors : b # a => job'[b] = job[b]
          /\ job'[a].req = 0 \/ (job'[a].req = job[a].req /\ job'[a].rows = built)
      BY <2>1, <3>1, HandOverEffect, Zenon
    <3>3. job[a].req # current
      BY <1>0, <2>1, <2>3, RowsTyped, JobFacts DEF RowsInv, Pending, TypeInv, TypeOK, PageTypes
    <3> HIDE DEF built
    <3> QED
      BY <1>0, <2>1, <2>3, <3>1, <3>2, <3>3, RowsTyped, JobFacts DEF RowsInv, Pending
  <2> QED
    BY <2>2, <2>3
<1>6. ASSUME NEW a \in Actors, Invoke(a)
      PROVE  RowsInv'
  <2>1. UNCHANGED <<request, current, rows, told>> /\ job[a].req # 0
    BY <1>6, JobFacts DEF Invoke, pageVars
  <2>2. /\ \A b \in Actors : b # a => job'[b] = job[b]
        /\ job'[a].req = 0 \/ (job'[a].req = job[a].req /\ job'[a].rows = job[a].rows)
    BY <1>6, InvokeEffect
  <2> QED
    BY <1>0, <2>1, <2>2, RowsTyped, JobFacts DEF RowsInv, Pending
<1>7. ASSUME NEW ok \in BOOLEAN, NEW follows \in BOOLEAN, Complete(ok, follows)
      PROVE  RowsInv'
  <2>1. Pending /\ ~Pending'
    BY <1>7, Zenon DEF Complete, OneInFlight, Pending
  <2> QED
    BY <1>7, <1>0, <2>1, JobFacts DEF Complete, RowsInv, Pending
<1>8. CASE TaskDrop
  BY <1>8, <1>0, RowsTyped, JobFacts DEF TaskDrop, RowsInv, Pending
<1>9. ASSUME NEW r \in Requests, FireDropped(r)
      PROVE  RowsInv'
  BY <1>9, <1>0 DEF FireDropped, RowsInv, Pending, pageVars
<1>10. ASSUME NEW d \in Drainers, DrainNext(d)
       PROVE  RowsInv'
  BY <1>10, <1>0, DrainEffect, QueueFacts, TailEffect DEF RowsInv, Pending
<1> QED
  BY <1>1, <1>2, <1>3, <1>4, <1>5, <1>6, <1>7, <1>8, <1>9, <1>10, LoudSteps,
     QuietStep DEF PageInv

-----------------------------------------------------------------------------
(* Pages are drained in the order of their requests. *)

\* A step that moves no page of a drainer and settles nothing keeps the order.
LEMMA OrderSame ==
  ASSUME TypeInv, OrderInv, UNCHANGED <<current, queue, latest>>,
         unfired = {} => unfired' = {},
         \A d \in Drainers : job'[d].req \in {0, job[d].req}
  PROVE  OrderInv'
BY DEF OrderInv

\* Every step keeps the order of the pages.
LEMMA OrderStep ==
  ASSUME TypeInv, OneInFlight, OneDrainer, PageInv, [Next]_vars
  PROVE  OrderInv'
<1>0. OrderInv
  BY DEF PageInv
<1>1. ASSUME NEW t \in Threads, NEW c \in Callbacks, Register(t, c)
      PROVE  OrderInv'
  <2>1. \A d \in Drainers : job'[d] = job[d]
    BY <1>1, Apart DEF Register, TypeInv, TypeOK, ActorTypes
  <2> QED
    BY <1>1, <1>0, <2>1, OrderSame DEF Register, Joins, drainVars
<1>2. ASSUME NEW t \in Threads, WaitRows(t)
      PROVE  OrderInv'
  <2>1. \A d \in Drainers : job'[d] = job[d]
    BY <1>2, Apart DEF WaitRows, TypeInv, TypeOK, ActorTypes
  <2> QED
    BY <1>2, <1>0, <2>1, OrderSame DEF WaitRows, pageVars, drainVars, histVars
<1>3. ASSUME NEW t \in Threads, StartFetchingNextPage(t)
      PROVE  OrderInv'
  <2>1. CASE queue' = queue
    BY <1>3, <1>0, <2>1, FetchEffect, QueueFacts, JobFacts DEF OrderInv, TypeInv, TypeOK,
       HistTypes
  <2>2. CASE /\ unfired # {} /\ Len(queue') = Len(queue) + 1
             /\ \A i \in 1..Len(queue) : queue'[i] = queue[i]
             /\ queue'[Len(queue) + 1] = [req |-> current, rows |-> rows, cbs |-> unfired]
    <3>1. queue'[Len(queue) + 1].req = current
      BY <2>2
    <3>2. \A i \in 1..Len(queue') : i \in 1..Len(queue) \/ i = Len(queue) + 1
      BY <2>2, QueueFacts
    <3>3. \A d \in Drainers : job[d].req # 0 => job[d].req < current
      BY <1>0, <2>2, JobFacts, Apart DEF OrderInv
    <3>4. /\ UNCHANGED <<job, latest>> /\ current' = current + 1 /\ unfired' = {}
      BY <1>3, FetchEffect
    <3>5. latest \in Nat
      BY Zenon DEF TypeInv, TypeOK, HistTypes
    <3>6. \A i, j \in 1..Len(queue') : i < j => queue'[i].req < queue'[j].req
      BY <1>0, <2>2, <3>1, <3>2, QueueFacts DEF OrderInv
    <3>7. \A d \in Drainers : job'[d].req # 0 =>
            \A i \in 1..Len(queue') : job'[d].req < queue'[i].req
      BY <1>0, <2>2, <3>1, <3>2, <3>3, <3>4 DEF OrderInv
    <3>8. \A i \in 1..Len(queue') : latest' <= queue'[i].req
      BY <1>0, <2>2, <3>1, <3>2, <3>4, Zenon DEF OrderInv
    <3> QED
      BY <1>0, <3>4, <3>5, <3>6, <3>7, <3>8, JobFacts DEF OrderInv
  <2> QED
    BY <1>3, <2>1, <2>2, FetchEffect, Zenon
<1>4. ASSUME NEW a \in Actors, RowsBuilt(a)
      PROVE  OrderInv'
  <2>1. pc[a] = "build" /\ job[a].rows \in Rows /\ HandOver(a, job[a].rows)
    BY <1>4, JobFacts, Zenon DEF RowsBuilt, Undelivered
  <2>2. \A d \in Drainers : job'[d].req \in {0, job[d].req}
    BY <2>1, HandOverEffect, Apart
  <2> QED
    BY <1>4, <1>0, <2>2, OrderSame, Zenon DEF RowsBuilt, drainVars
<1>5. ASSUME NEW a \in Actors, NEW ok \in BOOLEAN, BuildRows(a, ok)
      PROVE  OrderInv'
  <2>1. PICK r \in Rows : pc[a] = "build" /\ HandOver(a, r)
    BY <1>5, RowsTyped, Zenon DEF BuildRows, StoreRows, TypeInv, TypeOK, PageTypes
  <2>2. \A d \in Drainers : job'[d].req \in {0, job[d].req}
    BY <2>1, HandOverEffect, Apart
  <2> QED
    BY <1>5, <1>0, <2>2, OrderSame, Zenon DEF BuildRows, drainVars
<1>6. ASSUME NEW a \in Actors, Invoke(a)
      PROVE  OrderInv'
  <2>1. /\ UNCHANGED <<current, unfired, queue>> /\ job[a].req # 0
        /\ \A d \in Drainers : job'[d].req \in {0, job[d].req}
    BY <1>6, InvokeEffect, JobFacts, Apart, Zenon DEF Invoke, pageVars, drainVars
  <2>2. CASE latest' = latest
    BY <1>0, <2>1, <2>2, OrderSame, Zenon
  <2>3. CASE a \in Drainers /\ latest' = job[a].req
    <3>1. \A d \in Drainers : job[d].req # 0 => d = a
      BY <1>6, <2>3, RowsTyped, JobFacts, Apart DEF Invoke, OneDrainer, Draining
    <3> QED
      BY <1>0, <2>1, <2>3, <3>1, QueueFacts, JobFacts DEF OrderInv
  <2> QED
    BY <1>6, <2>2, <2>3, InvokeEffect
<1>7. ASSUME NEW ok \in BOOLEAN, NEW follows \in BOOLEAN, Complete(ok, follows)
      PROVE  OrderInv'
  <2>1. Pending
    BY <1>7 DEF Complete, OneInFlight
  <2> QED
    BY <1>7, <1>0, <2>1, JobFacts, Apart DEF Complete, OrderInv
<1>8. CASE TaskDrop
  BY <1>8, <1>0, OrderSame DEF TaskDrop, drainVars
<1>9. ASSUME NEW r \in Requests, FireDropped(r)
      PROVE  OrderInv'
  BY <1>9, <1>0, OrderSame DEF FireDropped, pageVars, drainVars
<1>10. ASSUME NEW d \in Drainers, DrainNext(d)
       PROVE  OrderInv'
  <2>1. /\ UNCHANGED <<current, latest>>
        /\ \A e \in Drainers : e # d => job[e].req = 0 /\ job'[e].req = 0
    <3>1. \A e \in Drainers : e # d => pc[e] \notin {"build", "fire"}
      BY <1>10 DEF DrainNext, OneDrainer, Draining
    <3> QED
      BY <1>10, <3>1, DrainEffect, RowsTyped, JobFacts, Apart
  <2>2. CASE UNCHANGED <<queue, unfired, job>>
    BY <1>0, <2>1, <2>2, OrderSame, Zenon
  <2>3. CASE queue # <<>> /\ queue' = Tail(queue) /\ unfired' = unfired /\ job'[d] = queue[1]
    <3>1. /\ 1 \in 1..Len(queue) /\ queue[1].req < current /\ queue[1].req \in Nat
          /\ \A i \in 1..Len(queue') : i + 1 \in 1..Len(queue) /\ queue'[i] = queue[i + 1]
      BY <2>3, TailEffect, QueueFacts
    <3>2. \A i, j \in 1..Len(queue') : i < j => queue'[i].req < queue'[j].req
      BY <1>0, <3>1, QueueFacts DEF OrderInv
    <3>3. \A i \in 1..Len(queue') : queue[1].req < queue'[i].req /\ latest <= queue'[i].req
      BY <1>0, <3>1, QueueFacts DEF OrderInv
    <3> QED
      BY <1>0, <2>1, <2>3, <3>1, <3>2, <3>3 DEF OrderInv
  <2>4. CASE queue = <<>> /\ queue' = queue /\ unfired' = {} /\ job'[d].req = current
    BY <1>0, <2>1, <2>4 DEF OrderInv
  <2> QED
    BY <1>10, <2>2, <2>3, <2>4, DrainEffect, Zenon
<1> QED
  BY <1>1, <1>2, <1>3, <1>4, <1>5, <1>6, <1>7, <1>8, <1>9, <1>10, LoudSteps,
     QuietStep DEF PageInv

-----------------------------------------------------------------------------
(* Requests that have not settled, callbacks that were not registered. *)

\* The rows of a page take callbacks off what is owed for its request only.
LEMMA HandOverOwed ==
  ASSUME TypeInv, NEW a \in Actors, pc[a] = "build", NEW r \in Rows, HandOver(a, r)
  PROVE  /\ \A q \in Requests : owed'[q] \subseteq owed[q]
         /\ \A q \in Requests : q # job[a].req => owed'[q] = owed[q]
         /\ a \notin Drainers => owed' = owed
         /\ a \in Drainers => owed'[job[a].req] = Matching(owed[job[a].req], r)
<1>1. job[a].req \in Requests /\ owed \in [Requests -> SUBSET Callbacks]
  BY HandOverEffect DEF TypeInv, TypeOK, HistTypes
<1>2. \A S : Matching(S, r) \subseteq S
  BY DEF Matching
<1>3. owed' = IF a \in Drainers THEN [owed EXCEPT ![job[a].req] = Matching(owed[job[a].req], r)]
              ELSE owed
  BY DEF HandOver
<1> QED
  BY <1>1, <1>2, <1>3, Zenon

\* Building rows hands them over, whichever rows they turn out to be.
LEMMA BuildHandsOver ==
  ASSUME TypeInv, NEW a \in Actors,
         RowsBuilt(a) \/ \E ok \in BOOLEAN : BuildRows(a, ok)
  PROVE  /\ pc[a] = "build" /\ \E r \in Rows : HandOver(a, r)
         /\ UNCHANGED <<request, current, unfired, queue, registered, after, added, fired, latest>>
<1>1. CASE RowsBuilt(a)
  BY <1>1, JobFacts, Zenon DEF RowsBuilt, Undelivered, doneVars, drainVars
<1>2. ASSUME NEW ok \in BOOLEAN, BuildRows(a, ok)
      PROVE  /\ pc[a] = "build" /\ \E r \in Rows : HandOver(a, r)
             /\ UNCHANGED <<request, current, unfired, queue, registered, after, added, fired, latest>>
  BY <1>2, RowsTyped DEF BuildRows, StoreRows, TypeInv, TypeOK, PageTypes, doneVars, drainVars
<1> QED
  BY <1>1, <1>2, Zenon

\* A callback that is invoked is counted for its request, and no other.
LEMMA FiredOnce ==
  ASSUME TypeInv, NEW c \in Callbacks, NEW r \in Requests,
         fired' = [fired EXCEPT ![c][r] = @ + 1]
  PROVE  /\ fired'[c][r] = fired[c][r] + 1
         /\ \A x \in Callbacks, q \in Requests : x # c \/ q # r => fired'[x][q] = fired[x][q]
         /\ \A x \in Callbacks, q \in Requests : fired[x][q] \in Nat
BY DEF TypeInv, TypeOK, HistTypes

\* Every step leaves requests that have not settled alone.
LEMMA FutureStep ==
  ASSUME TypeInv, OneInFlight, PageInv, [Next]_vars
  PROVE  FutureInv'
<1>0. FutureInv
  BY Zenon DEF PageInv
<1>1. ASSUME NEW t \in Threads, NEW c \in Callbacks, Register(t, c)
      PROVE  FutureInv'
  <2>1. unfired # {} => ~Pending
    BY Zenon DEF TypeInv, QueueInv
  <2>2. \A q \in Requests : q # current \/ Pending => owed'[q] = owed[q]
    BY <1>1, <2>1, Zenon DEF Register, Joins, TypeInv, TypeOK, HistTypes
  <2>3. UNCHANGED <<request, current, after, fired>>
    BY <1>1, Zenon DEF Register, doneVars
  <2>4. current \in Nat /\ ~(current > current)
    BY JobFacts
  <2> QED
    BY <1>0, <2>2, <2>3, <2>4, Zenon DEF FutureInv, Unsettled, Pending
<1>2. ASSUME NEW t \in Threads, WaitRows(t)
      PROVE  FutureInv'
  BY <1>2, <1>0, Zenon DEF WaitRows, FutureInv, Unsettled, Pending, pageVars, doneVars, histVars
<1>3. ASSUME NEW t \in Threads, StartFetchingNextPage(t)
      PROVE  FutureInv'
  <2>1. /\ ~Pending /\ Pending' /\ current' = current + 1
        /\ owed' = owed /\ after' = after /\ fired' = fired
    BY <1>3, FetchEffect, Zenon
  <2>2. \A r \in Requests : r > current + 1 \/ r = current + 1 => r > current
    BY JobFacts
  <2>3. \A r \in Requests : Unsettled(r)' => Unsettled(r)
    BY <2>1, <2>2, Zenon DEF Unsettled
  <2> QED
    BY <1>0, <2>1, <2>3, Zenon DEF FutureInv
<1>4. ASSUME NEW a \in Actors, RowsBuilt(a)
      PROVE  FutureInv'
  <2>1. /\ UNCHANGED <<request, current, after, fired>>
        /\ \A q \in Requests : owed'[q] \subseteq owed[q]
    BY <1>4, BuildHandsOver, HandOverOwed, Zenon
  <2> QED
    BY <1>0, <2>1 DEF FutureInv, Unsettled, Pending
<1>5. ASSUME NEW a \in Actors, NEW ok \in BOOLEAN, BuildRows(a, ok)
      PROVE  FutureInv'
  <2>1. /\ UNCHANGED <<request, current, after, fired>>
        /\ \A q \in Requests : owed'[q] \subseteq owed[q]
    BY <1>5, BuildHandsOver, HandOverOwed, Zenon
  <2> QED
    BY <1>0, <2>1 DEF FutureInv, Unsettled, Pending
<1>6. ASSUME NEW a \in Actors, Invoke(a)
      PROVE  FutureInv'
  <2>1. UNCHANGED <<request, current, after>>
    BY <1>6 DEF Invoke, pageVars, doneVars
  <2>2. PICK c \in Callbacks : /\ job[a].req \in Requests
                               /\ fired' = [fired EXCEPT ![c][job[a].req] = @ + 1]
                               /\ \/ owed' = owed
                                  \/ owed' = [owed EXCEPT ![job[a].req] = @ \ {c}]
    BY <1>6, InvokeEffect, Zenon
  <2>3. /\ \A x \in Callbacks, q \in Requests : q # job[a].req => fired'[x][q] = fired[x][q]
        /\ \A q \in Requests : owed'[q] \subseteq owed[q]
    BY <2>2, FiredOnce DEF TypeInv, TypeOK, HistTypes
  <2>4. ~Unsettled(job[a].req)
    BY JobFacts DEF Unsettled
  <2> QED
    BY <1>0, <2>1, <2>3, <2>4 DEF FutureInv, Unsettled, Pending
<1>7. ASSUME NEW ok \in BOOLEAN, NEW follows \in BOOLEAN, Complete(ok, follows)
      PROVE  FutureInv'
  <2>1. UNCHANGED <<current, after, fired>> /\ ~Pending'
    BY <1>7 DEF Complete, Pending
  <2>2. \A q \in Requests : q # current => owed'[q] = owed[q]
    BY <1>7 DEF Complete, TypeInv, TypeOK, HistTypes
  <2> QED
    BY <1>0, <2>1, <2>2, JobFacts DEF FutureInv, Unsettled
<1>8. CASE TaskDrop
  <2>1. CASE task = "polled" /\ Pending
    <3>1. UNCHANGED <<current, owed, fired>> /\ ~Pending'
      BY <1>8, <2>1 DEF TaskDrop, Pending
    <3>2. \A q \in Requests : q # current => after'[q] = after[q]
      BY <1>8, <2>1, Zenon DEF TaskDrop, TypeInv, TypeOK, ActorTypes
    <3> QED
      BY <1>0, <3>1, <3>2, JobFacts DEF FutureInv, Unsettled
  <2>2. CASE ~(task = "polled" /\ Pending)
    BY <1>8, <1>0, <2>2 DEF TaskDrop, FutureInv, Unsettled, Pending, doneVars
  <2> QED
    BY <2>1, <2>2, Zenon
<1>9. ASSUME NEW r \in Requests, FireDropped(r)
      PROVE  FutureInv'
  <2>1. UNCHANGED <<request, current, owed>>
    BY <1>9 DEF FireDropped, pageVars
  <2>2. PICK c \in after[r] : /\ fired' = [fired EXCEPT ![c][r] = @ + 1]
                              /\ after' = [after EXCEPT ![r] = @ \ {c}]
    BY <1>9, Zenon DEF FireDropped
  <2>3. c \in Callbacks /\ ~Unsettled(r)
    BY <1>0, <2>2, Zenon DEF FutureInv, TypeInv, TypeOK, ActorTypes
  <2>4. \A q \in Requests : q # r => after'[q] = after[q] /\ \A x \in Callbacks : fired'[x][q] = fired[x][q]
    BY <2>2, <2>3, FiredOnce DEF TypeInv, TypeOK, ActorTypes
  <2> QED
    BY <1>0, <2>1, <2>3, <2>4 DEF FutureInv, Unsettled, Pending
<1>10. ASSUME NEW d \in Drainers, DrainNext(d)
       PROVE  FutureInv'
  BY <1>10, <1>0, DrainEffect, Zenon DEF FutureInv, Unsettled, Pending
<1> QED
  BY <1>1, <1>2, <1>3, <1>4, <1>5, <1>6, <1>7, <1>8, <1>9, <1>10, LoudSteps,
     QuietStep DEF PageInv

\* Every step keeps callbacks that were not registered out of every place.
LEMMA AddedStep ==
  ASSUME TypeInv, OneInFlight, PageInv, [Next]_vars
  PROVE  AddedInv'
<1>0. AddedInv
  BY DEF PageInv
<1>a. added \subseteq Callbacks
  BY DEF TypeInv, TypeOK, HistTypes
<1>1. ASSUME NEW t \in Threads, NEW c \in Callbacks, Register(t, c)
      PROVE  AddedInv'
  <2>1. /\ added' = added \cup {c} /\ UNCHANGED <<queue, after, fired>>
        /\ unfired' \subseteq unfired \cup {c} /\ registered' \subseteq registered \cup {c}
    BY <1>1, Zenon DEF Register, Keep, doneVars, drainVars
  <2>2. \A b \in Actors : job'[b].cbs = job[b].cbs \/ job'[b].cbs = {c}
    BY <1>1 DEF Register, TypeInv, TypeOK, ActorTypes
  <2> QED
    BY <1>0, <2>1, <2>2, Zenon DEF AddedInv
<1>2. ASSUME NEW t \in Threads, WaitRows(t)
      PROVE  AddedInv'
  <2>1. UNCHANGED <<unfired, queue, registered, after, added, fired>>
    BY <1>2, Zenon DEF WaitRows, pageVars, drainVars, doneVars, histVars
  <2>2. \A b \in Actors : job'[b].cbs = job[b].cbs \/ job'[b].cbs = {}
    BY <1>2 DEF WaitRows, TypeInv, TypeOK, ActorTypes
  <2> QED
    BY <1>0, <2>1, <2>2, Zenon DEF AddedInv
<1>3. ASSUME NEW t \in Threads, StartFetchingNextPage(t)
      PROVE  AddedInv'
  <2>1. /\ unfired' = {} /\ UNCHANGED <<registered, job, after, added, fired>>
    BY <1>3, FetchEffect, Zenon
  <2>2. CASE queue' = queue
    BY <1>0, <2>1, <2>2, Zenon DEF AddedInv
  <2>3. CASE /\ Len(queue') = Len(queue) + 1
             /\ \A i \in 1..Len(queue) : queue'[i] = queue[i]
             /\ queue'[Len(queue) + 1] = [req |-> current, rows |-> rows, cbs |-> unfired]
    <3>1. queue'[Len(queue) + 1].cbs = unfired
      BY <2>3
    <3>2. \A i \in 1..Len(queue') : i \in 1..Len(queue) \/ i = Len(queue) + 1
      BY <2>3, QueueFacts
    <3> QED
      BY <1>0, <2>1, <2>3, <3>1, <3>2 DEF AddedInv
  <2> QED
    BY <1>3, <2>2, <2>3, FetchEffect, Zenon
<1>4. ASSUME NEW a \in Actors, RowsBuilt(a)
      PROVE  AddedInv'
  <2>1. UNCHANGED <<unfired, queue, registered, after, added, fired>>
    BY <1>4, BuildHandsOver
  <2>2. \A b \in Actors : job'[b].cbs \subseteq job[b].cbs
    <3>1. PICK r \in Rows : pc[a] = "build" /\ HandOver(a, r)
      BY <1>4, BuildHandsOver
    <3>2. job'[a].cbs = Matching(job[a].cbs, r) /\ \A b \in Actors : b # a => job'[b] = job[b]
      BY <3>1, HandOverEffect, Zenon
    <3>3. Matching(job[a].cbs, r) \subseteq job[a].cbs
      BY DEF Matching
    <3> QED
      BY <3>2, <3>3
  <2> QED
    BY <1>0, <2>1, <2>2 DEF AddedInv
<1>5. ASSUME NEW a \in Actors, NEW ok \in BOOLEAN, BuildRows(a, ok)
      PROVE  AddedInv'
  <2>1. UNCHANGED <<unfired, queue, registered, after, added, fired>>
    BY <1>5, BuildHandsOver
  <2>2. \A b \in Actors : job'[b].cbs \subseteq job[b].cbs
    <3>1. PICK r \in Rows : pc[a] = "build" /\ HandOver(a, r)
      BY <1>5, BuildHandsOver
    <3>2. job'[a].cbs = Matching(job[a].cbs, r) /\ \A b \in Actors : b # a => job'[b] = job[b]
      BY <3>1, HandOverEffect, Zenon
    <3>3. Matching(job[a].cbs, r) \subseteq job[a].cbs
      BY Zenon DEF Matching
    <3> QED
      BY <3>2, <3>3
  <2> QED
    BY <1>0, <2>1, <2>2 DEF AddedInv
<1>6. ASSUME NEW a \in Actors, Invoke(a)
      PROVE  AddedInv'
  <2>1. UNCHANGED <<unfired, queue, registered, after, added>>
    BY <1>6, Zenon DEF Invoke, pageVars, drainVars, doneVars
  <2>2. PICK c \in job[a].cbs :
          /\ c \in Callbacks /\ job[a].req \in Requests
          /\ fired' = [fired EXCEPT ![c][job[a].req] = @ + 1]
          /\ \A b \in Actors : job'[b].cbs \subseteq job[b].cbs
    BY <1>6, InvokeEffect
  <2>3. c \in added
    BY <1>0, <2>2, Zenon DEF AddedInv
  <2>4. \A x \in Callbacks \ added, q \in Requests : fired'[x][q] = fired[x][q]
    BY <2>2, <2>3, FiredOnce
  <2> QED
    BY <1>0, <2>1, <2>2, <2>4 DEF AddedInv
<1>7. ASSUME NEW ok \in BOOLEAN, NEW follows \in BOOLEAN, Complete(ok, follows)
      PROVE  AddedInv'
  <2>1. ForOutcome(ok) \subseteq registered
    BY DEF ForOutcome
  <2> QED
    BY <1>7, <1>0, <2>1 DEF Complete, AddedInv
<1>8. CASE TaskDrop
  <2>1. Matching(registered, Failure) \subseteq registered
    BY Zenon DEF Matching
  <2>2. CASE task = "polled" /\ Pending
    <3>1. \A q \in Requests : after'[q] \subseteq after[q] \cup registered
      BY <1>8, <2>1, <2>2, Zenon DEF TaskDrop, TypeInv, TypeOK, ActorTypes
    <3> QED
      BY <1>8, <1>0, <2>2, <3>1 DEF TaskDrop, AddedInv, drainVars
  <2>3. CASE ~(task = "polled" /\ Pending)
    BY <1>8, <1>0, <2>3, Zenon DEF TaskDrop, AddedInv, drainVars, doneVars
  <2> QED
    BY <2>2, <2>3
<1>9. ASSUME NEW r \in Requests, FireDropped(r)
      PROVE  AddedInv'
  <2>1. UNCHANGED <<unfired, queue, registered, job, added>>
    BY <1>9 DEF FireDropped, pageVars, drainVars
  <2>2. PICK c \in after[r] : /\ fired' = [fired EXCEPT ![c][r] = @ + 1]
                              /\ after' = [after EXCEPT ![r] = @ \ {c}]
    BY <1>9, Zenon DEF FireDropped
  <2>3. c \in Callbacks /\ c \in added
    BY <1>0, <2>2, Zenon DEF AddedInv, TypeInv, TypeOK, ActorTypes
  <2>4. \A x \in Callbacks \ added, q \in Requests : fired'[x][q] = fired[x][q]
    BY <2>2, <2>3, FiredOnce
  <2>5. \A q \in Requests : after'[q] \subseteq after[q]
    BY <2>2, Zenon DEF TypeInv, TypeOK, ActorTypes
  <2> QED
    BY <1>0, <2>1, <2>4, <2>5 DEF AddedInv
<1>10. ASSUME NEW d \in Drainers, DrainNext(d)
       PROVE  AddedInv'
  <2>1. UNCHANGED <<registered, after, added, fired>> /\ \A b \in Actors : b # d => job'[b] = job[b]
    BY <1>10, DrainEffect, Zenon
  <2>2. CASE UNCHANGED <<queue, unfired, job>>
    BY <1>0, <2>1, <2>2, Zenon DEF AddedInv
  <2>3. CASE queue # <<>> /\ queue' = Tail(queue) /\ unfired' = unfired /\ job'[d] = queue[1]
    <3>1. /\ 1 \in 1..Len(queue)
          /\ \A i \in 1..Len(queue') : i + 1 \in 1..Len(queue) /\ queue'[i] = queue[i + 1]
      BY <2>3, TailEffect, Zenon
    <3>2. \A i \in 1..Len(queue') : queue'[i].cbs \subseteq added
      BY <1>0, <3>1 DEF AddedInv
    <3>3. \A b \in Actors : job'[b].cbs \subseteq added
      BY <1>0, <2>1, <2>3, <3>1, Zenon DEF AddedInv
    <3> QED
      BY <1>0, <2>1, <2>3, <3>2, <3>3 DEF AddedInv
  <2>4. CASE queue = <<>> /\ queue' = queue /\ unfired' = {} /\ job'[d].cbs = unfired
    BY <1>0, <2>1, <2>4, Zenon DEF AddedInv
  <2> QED
    BY <1>10, <2>2, <2>3, <2>4, DrainEffect, Zenon
<1> QED
  BY <1>1, <1>2, <1>3, <1>4, <1>5, <1>6, <1>7, <1>8, <1>9, <1>10, LoudSteps,
     QuietStep DEF PageInv

-----------------------------------------------------------------------------
(* A callback is in one place until it ran. *)

\* A callback that was not registered is in no place.
LEMMA NotYetAnywhere ==
  ASSUME TypeInv, AddedInv, NEW c \in Callbacks, c \notin added, NEW r \in Requests
  PROVE  /\ fired[c][r] = 0 /\ c \notin after[r] /\ ~InState(c, r) /\ ~InQueue(c, r)
         /\ \A a \in Actors : ~With(a, c, r)
BY Zenon DEF AddedInv, InState, InQueue, With

\* No callback is in any place for a request that has not settled.
LEMMA UnsettledNowhere ==
  ASSUME TypeInv, FutureInv, NEW c \in Callbacks, NEW r \in Requests, Unsettled(r)
  PROVE  /\ fired[c][r] = 0 /\ c \notin after[r] /\ ~InState(c, r) /\ ~InQueue(c, r)
         /\ \A a \in Actors : ~With(a, c, r)
<1>1. fired[c][r] = 0 /\ after[r] = {}
  BY Zenon DEF FutureInv
<1>a. current \in Nat /\ ~(current > current)
  BY JobFacts
<1>2. ~InState(c, r)
  BY <1>a, Zenon DEF Unsettled, InState, TypeInv, QueueInv
<1>3. ~InQueue(c, r)
  BY JobFacts, QueueFacts DEF Unsettled, InQueue
<1>4. \A a \in Actors : ~With(a, c, r)
  BY JobFacts DEF Unsettled, With
<1> QED
  BY <1>1, <1>2, <1>3, <1>4, Zenon

\* A step that only lets callbacks drop out of places keeps each in one.
LEMMA PlaceShrinks ==
  ASSUME NEW c \in Callbacks, NEW r \in Requests, PlaceAt(c, r),
         fired'[c][r] = fired[c][r], after'[r] \subseteq after[r],
         InState(c, r)' => InState(c, r), InQueue(c, r)' => InQueue(c, r),
         \A a \in Actors : With(a, c, r)' => With(a, c, r)
  PROVE  PlaceAt(c, r)'
BY Zenon DEF PlaceAt

\* Every step keeps a callback in at most one place, and runs it at most once.
LEMMA PlaceStep ==
  ASSUME TypeInv, OneInFlight, PageInv, [Next]_vars
  PROVE  PlaceInv'
<1>0. OrderInv /\ FutureInv /\ AddedInv /\ PlaceInv
  BY Zenon DEF PageInv
<1>1. ASSUME NEW t \in Threads, NEW c \in Callbacks, Register(t, c)
      PROVE  PlaceInv'
  <2> SUFFICES ASSUME NEW x \in Callbacks, NEW q \in Requests
               PROVE  PlaceAt(x, q)'
    BY Zenon DEF PlaceInv
  <2>1. /\ UNCHANGED <<current, queue, after, fired>> /\ c \notin added
        /\ pc[t] = "idle"
    BY <1>1 DEF Register, drainVars, doneVars
  <2>2. InQueue(x, q)' <=> InQueue(x, q)
    BY <2>1 DEF InQueue
  <2>3. CASE unfired' = unfired \cup {c} /\ job' = job
    <3>1. /\ InState(x, q)' => InState(x, q) \/ (x = c /\ q = current)
          /\ \A b \in Actors : With(b, x, q)' <=> With(b, x, q)
      BY <2>1, <2>3 DEF InState, With
    <3>2. CASE x = c
      BY <1>0, <2>1, <2>2, <3>1, <3>2, NotYetAnywhere, Zenon DEF PlaceAt
    <3>3. CASE x # c
      BY <1>0, <2>1, <2>2, <3>1, <3>3, PlaceShrinks, Zenon DEF PlaceInv
    <3> QED
      BY <3>2, <3>3, Zenon
  <2>4. CASE unfired' = unfired /\ job' = job
    <3>1. /\ InState(x, q)' <=> InState(x, q)
          /\ \A b \in Actors : With(b, x, q)' <=> With(b, x, q)
      BY <2>1, <2>4, Zenon DEF InState, With
    <3> QED
      BY <1>0, <2>1, <2>2, <3>1, PlaceShrinks, Zenon DEF PlaceInv
  <2>5. CASE /\ unfired' = unfired
             /\ job' = [job EXCEPT ![t] = [req |-> current, rows |-> rows, cbs |-> {c}]]
    <3>1. job'[t].cbs = {c} /\ \A b \in Actors : b # t => job'[b] = job[b]
      BY <2>5, Apart, Zenon DEF TypeInv, TypeOK, ActorTypes
    <3>2. /\ InState(x, q)' <=> InState(x, q)
          /\ \A b \in Actors : With(b, x, q)' => With(b, x, q) \/ (b = t /\ x = c)
      BY <2>1, <2>5, <3>1 DEF InState, With
    <3>3. CASE x = c
      <4>1. /\ fired[x][q] = 0 /\ x \notin after[q] /\ ~InState(x, q) /\ ~InQueue(x, q)
            /\ \A b \in Actors : ~With(b, x, q)
        BY <1>0, <2>1, <3>3, NotYetAnywhere, Zenon
      <4> QED
        BY <2>1, <2>2, <3>2, <4>1, Zenon DEF PlaceAt
    <3>4. CASE x # c
      BY <1>0, <2>1, <2>2, <3>2, <3>4, PlaceShrinks, Zenon DEF PlaceInv
    <3> QED
      BY <3>3, <3>4
  <2> QED
    BY <1>1, <2>3, <2>4, <2>5 DEF Register
<1>2. ASSUME NEW t \in Threads, WaitRows(t)
      PROVE  PlaceInv'
  <2> SUFFICES ASSUME NEW x \in Callbacks, NEW q \in Requests
               PROVE  PlaceAt(x, q)'
    BY Zenon DEF PlaceInv
  <2>1. UNCHANGED <<current, unfired, queue, after, fired>>
    BY <1>2, Zenon DEF WaitRows, pageVars, drainVars, doneVars, histVars
  <2>2. \A b \in Actors : job'[b] = job[b] \/ job'[b].cbs = {}
    BY <1>2 DEF WaitRows, TypeInv, TypeOK, ActorTypes
  <2>3. \A b \in Actors : With(b, x, q)' => With(b, x, q)
    BY <2>2 DEF With
  <2>4. InState(x, q)' => InState(x, q)
    BY <2>1 DEF InState
  <2>5. InQueue(x, q)' => InQueue(x, q)
    BY <2>1 DEF InQueue
  <2> QED
    BY <1>0, <2>1, <2>3, <2>4, <2>5, PlaceShrinks, Zenon DEF PlaceInv
<1>3. ASSUME NEW t \in Threads, StartFetchingNextPage(t)
      PROVE  PlaceInv'
  <2> SUFFICES ASSUME NEW x \in Callbacks, NEW q \in Requests
               PROVE  PlaceAt(x, q)'
    BY DEF PlaceInv
  <2>1. UNCHANGED <<job, after, fired>> /\ unfired' = {}
    BY <1>3, FetchEffect
  <2>2. ~InState(x, q)' /\ \A b \in Actors : With(b, x, q)' <=> With(b, x, q)
    BY <2>1 DEF InState, With
  <2>3. InQueue(x, q)' => InQueue(x, q) \/ InState(x, q)
    <3>1. CASE queue' = queue
      BY <3>1 DEF InQueue
    <3>2. CASE /\ Len(queue') = Len(queue) + 1
               /\ \A i \in 1..Len(queue) : queue'[i] = queue[i]
               /\ queue'[Len(queue) + 1] = [req |-> current, rows |-> rows, cbs |-> unfired]
      <4>1. queue'[Len(queue) + 1].req = current /\ queue'[Len(queue) + 1].cbs = unfired
        BY <3>2
      <4>2. \A i \in 1..Len(queue') : i \in 1..Len(queue) \/ i = Len(queue) + 1
        BY <3>2, QueueFacts
      <4> QED
        BY <3>2, <4>1, <4>2, Zenon DEF InQueue, InState
    <3> QED
      BY <1>3, <3>1, <3>2, FetchEffect, Zenon
  <2> QED
    BY <1>0, <2>1, <2>2, <2>3, Zenon DEF PlaceInv, PlaceAt
<1>4. ASSUME NEW a \in Actors, RowsBuilt(a)
      PROVE  PlaceInv'
  <2> SUFFICES ASSUME NEW x \in Callbacks, NEW q \in Requests
               PROVE  PlaceAt(x, q)'
    BY DEF PlaceInv
  <2>1. UNCHANGED <<current, unfired, queue, after, fired>>
    BY <1>4, BuildHandsOver, Zenon
  <2>2. \A b \in Actors : With(b, x, q)' => With(b, x, q)
    <3>1. PICK r \in Rows : pc[a] = "build" /\ HandOver(a, r)
      BY <1>4, BuildHandsOver, Zenon
    <3>2. /\ \A b \in Actors : b # a => job'[b] = job[b]
          /\ \/ job'[a].req = 0 /\ job'[a].cbs = {}
             \/ job'[a].req = job[a].req /\ job'[a].cbs = Matching(job[a].cbs, r)
      BY <3>1, HandOverEffect
    <3>3. Matching(job[a].cbs, r) \subseteq job[a].cbs
      BY DEF Matching
    <3> QED
      BY <3>2, <3>3 DEF With
  <2>3. InState(x, q)' => InState(x, q)
    BY <2>1, Zenon DEF InState
  <2>4. InQueue(x, q)' => InQueue(x, q)
    BY <2>1 DEF InQueue
  <2> QED
    BY <1>0, <2>1, <2>2, <2>3, <2>4, PlaceShrinks, Zenon DEF PlaceInv
<1>5. ASSUME NEW a \in Actors, NEW ok \in BOOLEAN, BuildRows(a, ok)
      PROVE  PlaceInv'
  <2> SUFFICES ASSUME NEW x \in Callbacks, NEW q \in Requests
               PROVE  PlaceAt(x, q)'
    BY DEF PlaceInv
  <2>1. UNCHANGED <<current, unfired, queue, after, fired>>
    BY <1>5, BuildHandsOver, Zenon
  <2>2. \A b \in Actors : With(b, x, q)' => With(b, x, q)
    <3>1. PICK r \in Rows : pc[a] = "build" /\ HandOver(a, r)
      BY <1>5, BuildHandsOver, Zenon
    <3>2. /\ \A b \in Actors : b # a => job'[b] = job[b]
          /\ \/ job'[a].req = 0 /\ job'[a].cbs = {}
             \/ job'[a].req = job[a].req /\ job'[a].cbs = Matching(job[a].cbs, r)
      BY <3>1, HandOverEffect, Zenon
    <3>3. Matching(job[a].cbs, r) \subseteq job[a].cbs
      BY DEF Matching
    <3> QED
      BY <3>2, <3>3 DEF With
  <2>3. InState(x, q)' => InState(x, q)
    BY <2>1 DEF InState
  <2>4. InQueue(x, q)' => InQueue(x, q)
    BY <2>1, Zenon DEF InQueue
  <2> QED
    BY <1>0, <2>1, <2>2, <2>3, <2>4, PlaceShrinks, Zenon DEF PlaceInv
<1>6. ASSUME NEW a \in Actors, Invoke(a)
      PROVE  PlaceInv'
  <2> SUFFICES ASSUME NEW x \in Callbacks, NEW q \in Requests
               PROVE  PlaceAt(x, q)'
    BY DEF PlaceInv
  <2>1. UNCHANGED <<current, unfired, queue, after>>
    BY <1>6, Zenon DEF Invoke, pageVars, drainVars, doneVars
  <2>2. PICK c \in job[a].cbs :
          /\ c \in Callbacks /\ job[a].req \in Requests
          /\ fired' = [fired EXCEPT ![c][job[a].req] = @ + 1]
          /\ \A b \in Actors : b # a => job'[b] = job[b]
          /\ \/ job'[a].req = 0 /\ job'[a].cbs = {}
             \/ job'[a].req = job[a].req /\ job'[a].cbs = job[a].cbs \ {c}
    BY <1>6, InvokeEffect
  <2>3. InState(x, q)' <=> InState(x, q)
    BY <2>1 DEF InState
  <2>4. InQueue(x, q)' <=> InQueue(x, q)
    BY <2>1 DEF InQueue
  <2>5. \A b \in Actors : With(b, x, q)' => With(b, x, q)
    BY <2>2 DEF With
  <2>6. CASE x = c /\ q = job[a].req
    <3>1. With(a, x, q) /\ ~With(a, x, q)'
      BY <2>2, <2>6 DEF With
    <3>2. fired'[x][q] = 1
      <4>1. fired[x][q] = 0
        BY <1>0, <3>1, Zenon DEF PlaceInv, PlaceAt
      <4>2. fired'[c][job[a].req] = fired[c][job[a].req] + 1
        BY <2>2 DEF TypeInv, TypeOK, HistTypes
      <4> QED
        BY <2>6, <4>1, <4>2
    <3> QED
      BY <1>0, <2>1, <2>3, <2>4, <2>5, <3>1, <3>2, Zenon DEF PlaceInv, PlaceAt
  <2>7. CASE ~(x = c /\ q = job[a].req)
    <3>1. fired'[x][q] = fired[x][q]
      BY <2>2, <2>7, FiredOnce
    <3> QED
      BY <1>0, <2>1, <2>3, <2>4, <2>5, <3>1, PlaceShrinks, Zenon DEF PlaceInv
  <2> QED
    BY <2>6, <2>7
<1>7. ASSUME NEW ok \in BOOLEAN, NEW follows \in BOOLEAN, Complete(ok, follows)
      PROVE  PlaceInv'
  <2> SUFFICES ASSUME NEW x \in Callbacks, NEW q \in Requests
               PROVE  PlaceAt(x, q)'
    BY Zenon DEF PlaceInv
  <2>1. UNCHANGED <<current, queue, job, after, fired>> /\ Pending
    BY <1>7 DEF Complete, OneInFlight
  <2>2. InQueue(x, q)' <=> InQueue(x, q)
    BY <2>1 DEF InQueue
  <2>3. \A b \in Actors : With(b, x, q)' <=> With(b, x, q)
    BY <2>1 DEF With
  <2>4. CASE q = current
    <3>1. Unsettled(q)
      BY <2>1, <2>4 DEF Unsettled
    <3>2. /\ fired[x][q] = 0 /\ x \notin after[q] /\ ~InQueue(x, q)
          /\ \A b \in Actors : ~With(b, x, q)
      BY <1>0, <3>1, UnsettledNowhere, Zenon
    <3> QED
      BY <2>1, <2>2, <2>3, <3>2, Zenon DEF PlaceAt
  <2>5. CASE q # current
    <3>1. ~InState(x, q)'
      BY <2>1, <2>5 DEF InState
    <3> QED
      BY <1>0, <2>1, <2>2, <2>3, <3>1, PlaceShrinks, Zenon DEF PlaceInv
  <2> QED
    BY <2>4, <2>5
<1>8. CASE TaskDrop
  <2> SUFFICES ASSUME NEW x \in Callbacks, NEW q \in Requests
               PROVE  PlaceAt(x, q)'
    BY DEF PlaceInv
  <2>1. UNCHANGED <<current, queue, job, fired>>
    BY <1>8 DEF TaskDrop, drainVars
  <2>2. InQueue(x, q)' <=> InQueue(x, q)
    BY <2>1 DEF InQueue
  <2>3. \A b \in Actors : With(b, x, q)' <=> With(b, x, q)
    BY <2>1, Zenon DEF With
  <2>4. InState(x, q)' => InState(x, q)
    BY <1>8, <2>1 DEF TaskDrop, InState
  <2>5. CASE task = "polled" /\ Pending /\ q = current
    <3>1. Unsettled(q)
      BY <2>5 DEF Unsettled
    <3>2. /\ fired[x][q] = 0 /\ ~InState(x, q) /\ ~InQueue(x, q)
          /\ \A b \in Actors : ~With(b, x, q)
      BY <1>0, <3>1, UnsettledNowhere, Zenon
    <3> QED
      BY <2>1, <2>2, <2>3, <2>4, <3>2, Zenon DEF PlaceAt
  <2>6. CASE ~(task = "polled" /\ Pending /\ q = current)
    <3>1. after'[q] = after[q]
      BY <1>8, <2>6 DEF TaskDrop, doneVars, TypeInv, TypeOK, ActorTypes
    <3> QED
      BY <1>0, <2>1, <2>2, <2>3, <2>4, <3>1, PlaceShrinks, Zenon DEF PlaceInv
  <2> QED
    BY <2>5, <2>6
<1>9. ASSUME NEW r \in Requests, FireDropped(r)
      PROVE  PlaceInv'
  <2> SUFFICES ASSUME NEW x \in Callbacks, NEW q \in Requests
               PROVE  PlaceAt(x, q)'
    BY DEF PlaceInv
  <2>1. UNCHANGED <<current, unfired, queue, job>>
    BY <1>9 DEF FireDropped, pageVars, drainVars
  <2>2. PICK c \in after[r] : /\ fired' = [fired EXCEPT ![c][r] = @ + 1]
                              /\ after' = [after EXCEPT ![r] = @ \ {c}]
    BY <1>9, Zenon DEF FireDropped
  <2>3. /\ c \in Callbacks
        /\ after'[r] = after[r] \ {c} /\ \A p \in Requests : p # r => after'[p] = after[p]
    BY <2>2 DEF TypeInv, TypeOK, ActorTypes
  <2>4. /\ InState(x, q)' <=> InState(x, q)
        /\ \A b \in Actors : With(b, x, q)' <=> With(b, x, q)
    BY <2>1 DEF InState, With
  <2>5. InQueue(x, q)' <=> InQueue(x, q)
    BY <2>1, Zenon DEF InQueue
  <2>6. CASE x = c /\ q = r
    <3>1. fired'[x][q] = 1 /\ x \notin after'[q]
      <4>1. fired[x][q] = 0
        BY <1>0, <2>2, <2>6 DEF PlaceInv, PlaceAt
      <4>2. fired'[c][r] = fired[c][r] + 1
        BY <2>2, <2>3, FiredOnce, Zenon
      <4> QED
        BY <2>3, <2>6, <4>1, <4>2
    <3> QED
      BY <1>0, <2>2, <2>4, <2>5, <2>6, <3>1, Zenon DEF PlaceInv, PlaceAt
  <2>7. CASE ~(x = c /\ q = r)
    <3>1. fired'[x][q] = fired[x][q] /\ after'[q] \subseteq after[q]
      BY <2>2, <2>3, <2>7, FiredOnce
    <3> QED
      BY <1>0, <2>4, <2>5, <3>1, PlaceShrinks, Zenon DEF PlaceInv
  <2> QED
    BY <2>6, <2>7
<1>10. ASSUME NEW d \in Drainers, DrainNext(d)
       PROVE  PlaceInv'
  <2> SUFFICES ASSUME NEW x \in Callbacks, NEW q \in Requests
               PROVE  PlaceAt(x, q)'
    BY DEF PlaceInv
  <2>1. /\ UNCHANGED <<current, after, fired>> /\ job[d].cbs = {}
        /\ \A b \in Actors : b # d => job'[b] = job[b]
    BY <1>10, DrainEffect
  <2>2. \A b \in Actors : b # d => (With(b, x, q)' <=> With(b, x, q))
    BY <2>1 DEF With
  <2>3. CASE UNCHANGED <<queue, unfired, job>>
    <3>1. /\ InState(x, q)' <=> InState(x, q)
          /\ \A b \in Actors : With(b, x, q)' <=> With(b, x, q)
      BY <2>1, <2>3 DEF InState, With
    <3>2. InQueue(x, q)' <=> InQueue(x, q)
      BY <2>3, Zenon DEF InQueue
    <3> QED
      BY <1>0, <2>1, <3>1, <3>2, PlaceShrinks, Zenon DEF PlaceInv
  <2>4. CASE queue # <<>> /\ queue' = Tail(queue) /\ unfired' = unfired /\ job'[d] = queue[1]
    <3>1. /\ 1 \in 1..Len(queue) /\ queue[1].req < current
          /\ \A i \in 1..Len(queue') : /\ i + 1 \in 1..Len(queue) /\ queue'[i] = queue[i + 1]
                                       /\ queue[1].req < queue'[i].req
      BY <1>0, <2>4, TailEffect, QueueFacts DEF OrderInv
    <3>2. InState(x, q)' <=> InState(x, q)
      BY <2>1, <2>4, Zenon DEF InState
    <3>3. InQueue(x, q)' => InQueue(x, q)
      BY <3>1 DEF InQueue
    <3>4. With(d, x, q)' => InQueue(x, q) /\ ~InQueue(x, q)' /\ ~InState(x, q)
      <4>1. With(d, x, q)' <=> queue[1].req = q /\ x \in queue[1].cbs
        BY <2>4 DEF With
      <4>2. queue[1].req = q /\ x \in queue[1].cbs => InQueue(x, q)
        BY <3>1, Zenon DEF InQueue
      <4>3. queue[1].req = q => ~InQueue(x, q)'
        BY <3>1, QueueFacts DEF InQueue
      <4>4. queue[1].req = q => ~InState(x, q)
        BY <3>1, QueueFacts DEF InState
      <4> QED
        BY <4>1, <4>2, <4>3, <4>4, Zenon
    <3>5. ~With(d, x, q)
      BY <2>1 DEF With
    <3> QED
      BY <1>0, <2>1, <2>2, <3>2, <3>3, <3>4, <3>5, Zenon DEF PlaceInv, PlaceAt
  <2>5. CASE /\ queue = <<>> /\ queue' = queue /\ unfired' = {}
             /\ job'[d].req = current /\ job'[d].cbs = unfired
    <3>1. ~InState(x, q)' /\ (With(d, x, q)' <=> InState(x, q)) /\ ~With(d, x, q)
      BY <2>1, <2>5 DEF InState, With
    <3>2. ~InQueue(x, q)'
      BY <2>5 DEF InQueue
    <3> QED
      BY <1>0, <2>1, <2>2, <3>1, <3>2, Zenon DEF PlaceInv, PlaceAt
  <2> QED
    BY <1>10, <2>3, <2>4, <2>5, DrainEffect, Zenon
<1> QED
  BY <1>1, <1>2, <1>3, <1>4, <1>5, <1>6, <1>7, <1>8, <1>9, <1>10, LoudSteps,
     QuietStep DEF PageInv

-----------------------------------------------------------------------------
(* No callback is forgotten. *)

\* A callback waits in the state, in the queue or with a drainer.
Kept(c, r) == InState(c, r) \/ InQueue(c, r) \/ \E d \in Drainers : With(d, c, r)

\* NothingForgotten in terms of these places.
LEMMA ForgottenPlaces == NothingForgotten <=> \A r \in Requests : \A c \in owed[r] : Kept(c, r)
BY Zenon DEF NothingForgotten, Kept, InState, InQueue, With

\* Every step keeps what is owed in a place where the drainer finds it.
LEMMA OwedStep ==
  ASSUME TypeInv, OneInFlight, PageInv, [Next]_vars
  PROVE  NothingForgotten'
<1>0. \A r \in Requests : \A c \in owed[r] : Kept(c, r)
  BY ForgottenPlaces DEF PageInv
<1>a. owed \in [Requests -> SUBSET Callbacks]
  BY DEF TypeInv, TypeOK, HistTypes
<1>1. ASSUME NEW t \in Threads, NEW c \in Callbacks, Register(t, c)
      PROVE  NothingForgotten'
  <2> SUFFICES ASSUME NEW q \in Requests, NEW x \in owed'[q]
               PROVE  Kept(x, q)'
    BY Zenon DEF NothingForgotten, Kept, InState, InQueue, With
  <2>1. UNCHANGED <<current, queue>> /\ unfired \subseteq unfired'
    BY <1>1, Zenon DEF Register, drainVars
  <2>2. \A d \in Drainers : job'[d] = job[d]
    BY <1>1, Apart, Zenon DEF Register, TypeInv, TypeOK, ActorTypes
  <2>3. x \in owed[q] \/ (q = current /\ x \in unfired')
    BY <1>1, <1>a, Zenon DEF Register
  <2>4. /\ InState(x, q) => InState(x, q)'
        /\ q = current /\ x \in unfired' => InState(x, q)'
        /\ \A d \in Drainers : With(d, x, q)' <=> With(d, x, q)
    BY <2>1, <2>2 DEF InState, With
  <2>5. InQueue(x, q) => InQueue(x, q)'
    BY <2>1, Zenon DEF InQueue
  <2> QED
    BY <1>0, <2>3, <2>4, <2>5, Zenon DEF Kept
<1>2. ASSUME NEW t \in Threads, WaitRows(t)
      PROVE  NothingForgotten'
  <2> SUFFICES ASSUME NEW q \in Requests, NEW x \in owed'[q]
               PROVE  Kept(x, q)'
    BY Zenon DEF NothingForgotten, Kept, InState, InQueue, With
  <2>1. UNCHANGED <<current, queue, unfired, owed>>
    BY <1>2 DEF WaitRows, pageVars, drainVars, histVars
  <2>2. \A d \in Drainers : job'[d] = job[d]
    BY <1>2, Apart, Zenon DEF WaitRows, TypeInv, TypeOK, ActorTypes
  <2>3. /\ InState(x, q) => InState(x, q)'
        /\ \A d \in Drainers : With(d, x, q)' <=> With(d, x, q)
    BY <2>1, <2>2, Zenon DEF InState, With
  <2>4. InQueue(x, q) => InQueue(x, q)'
    BY <2>1 DEF InQueue
  <2> QED
    BY <1>0, <2>1, <2>3, <2>4, Zenon DEF Kept
<1>3. ASSUME NEW t \in Threads, StartFetchingNextPage(t)
      PROVE  NothingForgotten'
  <2> SUFFICES ASSUME NEW q \in Requests, NEW x \in owed'[q]
               PROVE  Kept(x, q)'
    BY DEF NothingForgotten, Kept, InState, InQueue, With
  <2>1. UNCHANGED <<job, owed>>
    BY <1>3, FetchEffect
  <2>2. \A d \in Drainers : With(d, x, q)' <=> With(d, x, q)
    BY <2>1 DEF With
  <2>3. InQueue(x, q) \/ InState(x, q) => InQueue(x, q)'
    <3>1. CASE unfired = {} /\ queue' = queue
      BY <3>1, Zenon DEF InQueue, InState
    <3>2. CASE /\ Len(queue') = Len(queue) + 1
               /\ \A i \in 1..Len(queue) : queue'[i] = queue[i]
               /\ queue'[Len(queue) + 1] = [req |-> current, rows |-> rows, cbs |-> unfired]
      <4>1. queue'[Len(queue) + 1].req = current /\ queue'[Len(queue) + 1].cbs = unfired
        BY <3>2
      <4>2. Len(queue) + 1 \in 1..Len(queue') /\ \A i \in 1..Len(queue) : i \in 1..Len(queue')
        BY <3>2, QueueFacts
      <4>3. InQueue(x, q) => InQueue(x, q)'
        BY <3>2, <4>2 DEF InQueue
      <4>4. InState(x, q) => InQueue(x, q)'
        BY <4>1, <4>2 DEF InQueue, InState
      <4> QED
        BY <4>3, <4>4, Zenon
    <3> QED
      BY <1>3, <3>1, <3>2, FetchEffect, Zenon
  <2> QED
    BY <1>0, <2>1, <2>2, <2>3, Zenon DEF Kept
<1>4. ASSUME NEW a \in Actors, RowsBuilt(a)
      PROVE  NothingForgotten'
  <2> SUFFICES ASSUME NEW q \in Requests, NEW x \in owed'[q]
               PROVE  Kept(x, q)'
    BY Zenon DEF NothingForgotten, Kept, InState, InQueue, With
  <2>1. UNCHANGED <<current, unfired, queue>>
    BY <1>4, BuildHandsOver, Zenon
  <2>2. PICK r \in Rows : pc[a] = "build" /\ HandOver(a, r)
    BY <1>4, BuildHandsOver, Zenon
  <2>3. /\ \A b \in Actors : b # a => job'[b] = job[b]
        /\ \/ job'[a].req = 0 /\ Matching(job[a].cbs, r) = {}
           \/ job'[a].req = job[a].req /\ job'[a].cbs = Matching(job[a].cbs, r)
    BY <2>2, HandOverEffect
  <2>4. x \in owed[q] /\ (a \in Drainers /\ q = job[a].req => x \in Matching(owed[q], r))
    BY <2>2, HandOverOwed, Zenon
  <2>5. /\ InState(x, q) => InState(x, q)'
        /\ InQueue(x, q) => InQueue(x, q)'
    BY <2>1, Zenon DEF InState, InQueue
  <2>6. ASSUME NEW d \in Drainers, With(d, x, q)
        PROVE  With(d, x, q)'
    <3>1. CASE d # a
      BY <2>3, <2>6, <3>1, Apart, Zenon DEF With
    <3>2. CASE d = a
      <4>1. x \in Matching(job[a].cbs, r)
        BY <2>4, <2>6, <3>2 DEF With, Matching
      <4> QED
        BY <2>3, <2>6, <3>2, <4>1, Zenon DEF With
    <3> QED
      BY <3>1, <3>2
  <2> QED
    BY <1>0, <2>4, <2>5, <2>6, Zenon DEF Kept
<1>5. ASSUME NEW a \in Actors, NEW ok \in BOOLEAN, BuildRows(a, ok)
      PROVE  NothingForgotten'
  <2> SUFFICES ASSUME NEW q \in Requests, NEW x \in owed'[q]
               PROVE  Kept(x, q)'
    BY Zenon DEF NothingForgotten, Kept, InState, InQueue, With
  <2>1. UNCHANGED <<current, unfired, queue>>
    BY <1>5, BuildHandsOver, Zenon
  <2>2. PICK r \in Rows : pc[a] = "build" /\ HandOver(a, r)
    BY <1>5, BuildHandsOver
  <2>3. /\ \A b \in Actors : b # a => job'[b] = job[b]
        /\ \/ job'[a].req = 0 /\ Matching(job[a].cbs, r) = {}
           \/ job'[a].req = job[a].req /\ job'[a].cbs = Matching(job[a].cbs, r)
    BY <2>2, HandOverEffect, Zenon
  <2>4. x \in owed[q] /\ (a \in Drainers /\ q = job[a].req => x \in Matching(owed[q], r))
    BY <2>2, HandOverOwed, Zenon
  <2>5. /\ InState(x, q) => InState(x, q)'
        /\ InQueue(x, q) => InQueue(x, q)'
    BY <2>1, Zenon DEF InState, InQueue
  <2>6. ASSUME NEW d \in Drainers, With(d, x, q)
        PROVE  With(d, x, q)'
    <3>1. CASE d # a
      BY <2>3, <2>6, <3>1, Apart, Zenon DEF With
    <3>2. CASE d = a
      <4>1. x \in Matching(job[a].cbs, r)
        BY <2>4, <2>6, <3>2 DEF With, Matching
      <4> QED
        BY <2>3, <2>6, <3>2, <4>1, Zenon DEF With
    <3> QED
      BY <3>1, <3>2
  <2> QED
    BY <1>0, <2>4, <2>5, <2>6, Zenon DEF Kept
<1>6. ASSUME NEW a \in Actors, Invoke(a)
      PROVE  NothingForgotten'
  <2> SUFFICES ASSUME NEW q \in Requests, NEW x \in owed'[q]
               PROVE  Kept(x, q)'
    BY DEF NothingForgotten, Kept, InState, InQueue, With
  <2>1. UNCHANGED <<current, unfired, queue>>
    BY <1>6, Zenon DEF Invoke, pageVars, drainVars
  <2>2. PICK c \in job[a].cbs :
          /\ c \in Callbacks /\ job[a].req \in Requests
          /\ \A b \in Actors : b # a => job'[b] = job[b]
          /\ \/ job'[a].req = 0 /\ job[a].cbs \ {c} = {}
             \/ job'[a].req = job[a].req /\ job'[a].cbs = job[a].cbs \ {c}
          /\ a \in Drainers => owed' = [owed EXCEPT ![job[a].req] = @ \ {c}]
          /\ a \notin Drainers => owed' = owed
    BY <1>6, InvokeEffect
  <2>3. x \in owed[q] /\ (a \in Drainers /\ q = job[a].req => x # c)
    BY <1>a, <2>2, Zenon
  <2>4. /\ InState(x, q) => InState(x, q)'
        /\ InQueue(x, q) => InQueue(x, q)'
    BY <2>1 DEF InState, InQueue
  <2>5. ASSUME NEW d \in Drainers, With(d, x, q)
        PROVE  With(d, x, q)'
    BY <2>2, <2>3, <2>5, Apart, Zenon DEF With
  <2> QED
    BY <1>0, <2>3, <2>4, <2>5, Zenon DEF Kept
<1>7. ASSUME NEW ok \in BOOLEAN, NEW follows \in BOOLEAN, Complete(ok, follows)
      PROVE  NothingForgotten'
  <2> SUFFICES ASSUME NEW q \in Requests, NEW x \in owed'[q]
               PROVE  Kept(x, q)'
    BY Zenon DEF NothingForgotten, Kept, InState, InQueue, With
  <2>1. UNCHANGED <<current, queue, job>> /\ unfired' = ForOutcome(ok) /\ unfired = {}
    BY <1>7, Zenon DEF Complete, OneInFlight, TypeInv, QueueInv
  <2>2. x \in owed[q] \/ (q = current /\ x \in unfired')
    BY <1>7, <1>a, <2>1, Zenon DEF Complete
  <2>3. /\ ~InState(x, q) /\ (q = current /\ x \in unfired' => InState(x, q)')
        /\ \A d \in Drainers : With(d, x, q)' <=> With(d, x, q)
    BY <2>1, Zenon DEF InState, With
  <2>4. InQueue(x, q) => InQueue(x, q)'
    BY <2>1 DEF InQueue
  <2> QED
    BY <1>0, <2>2, <2>3, <2>4, Zenon DEF Kept
<1>8. CASE TaskDrop
  <2> SUFFICES ASSUME NEW q \in Requests, NEW x \in owed'[q]
               PROVE  Kept(x, q)'
    BY Zenon DEF NothingForgotten, Kept, InState, InQueue, With
  <2>1. UNCHANGED <<current, queue, job, owed>> /\ unfired' = unfired
    BY <1>8, Zenon DEF TaskDrop, drainVars, TypeInv, QueueInv
  <2>2. /\ InState(x, q) => InState(x, q)'
        /\ \A d \in Drainers : With(d, x, q)' <=> With(d, x, q)
    BY <2>1, Zenon DEF InState, With
  <2>3. InQueue(x, q) => InQueue(x, q)'
    BY <2>1 DEF InQueue
  <2> QED
    BY <1>0, <2>1, <2>2, <2>3, Zenon DEF Kept
<1>9. ASSUME NEW r \in Requests, FireDropped(r)
      PROVE  NothingForgotten'
  <2> SUFFICES ASSUME NEW q \in Requests, NEW x \in owed'[q]
               PROVE  Kept(x, q)'
    BY Zenon DEF NothingForgotten, Kept, InState, InQueue, With
  <2>1. UNCHANGED <<current, queue, job, owed, unfired>>
    BY <1>9, Zenon DEF FireDropped, pageVars, drainVars
  <2>2. /\ InState(x, q) => InState(x, q)'
        /\ \A d \in Drainers : With(d, x, q)' <=> With(d, x, q)
    BY <2>1, Zenon DEF InState, With
  <2>3. InQueue(x, q) => InQueue(x, q)'
    BY <2>1 DEF InQueue
  <2> QED
    BY <1>0, <2>1, <2>2, <2>3, Zenon DEF Kept
<1>10. ASSUME NEW d \in Drainers, DrainNext(d)
       PROVE  NothingForgotten'
  <2> SUFFICES ASSUME NEW q \in Requests, NEW x \in owed'[q]
               PROVE  Kept(x, q)'
    BY Zenon DEF NothingForgotten, Kept, InState, InQueue, With
  <2>1. /\ UNCHANGED <<current, owed>> /\ job[d].cbs = {}
        /\ \A b \in Actors : b # d => job'[b] = job[b]
    BY <1>10, DrainEffect, Zenon
  <2>2. \A e \in Drainers : With(e, x, q) => With(e, x, q)'
    BY <2>1, Apart DEF With
  <2>3. CASE UNCHANGED <<queue, unfired, job>>
    <3>1. /\ InState(x, q) => InState(x, q)'
          /\ InQueue(x, q) => InQueue(x, q)'
      BY <2>1, <2>3, Zenon DEF InState, InQueue
    <3> QED
      BY <1>0, <2>1, <2>2, <3>1, Zenon DEF Kept
  <2>4. CASE queue # <<>> /\ queue' = Tail(queue) /\ unfired' = unfired /\ job'[d] = queue[1]
    <3>1. InState(x, q) => InState(x, q)'
      BY <2>1, <2>4, Zenon DEF InState
    <3>2. /\ Len(queue) \in Nat
          /\ \A i \in 1..Len(queue) :
               i = 1 \/ (i - 1 \in 1..Len(queue') /\ queue[i] = queue'[i - 1])
      BY <2>4, QueueFacts, TailFacts, Zenon
    <3>3. InQueue(x, q) => InQueue(x, q)' \/ With(d, x, q)'
      BY <2>4, <3>2 DEF InQueue, With
    <3> QED
      BY <1>0, <2>1, <2>2, <3>1, <3>3, Zenon DEF Kept
  <2>5. CASE /\ queue = <<>> /\ queue' = queue /\ unfired' = {}
             /\ job'[d].req = current /\ job'[d].cbs = unfired
    <3>1. InState(x, q) => With(d, x, q)'
      BY <2>1, <2>5, Zenon DEF InState, With
    <3>2. ~InQueue(x, q)
      BY <2>5 DEF InQueue
    <3> QED
      BY <1>0, <2>1, <2>2, <3>1, <3>2, Zenon DEF Kept
  <2> QED
    BY <1>10, <2>3, <2>4, <2>5, DrainEffect, Zenon
<1> QED
  BY <1>1, <1>2, <1>3, <1>4, <1>5, <1>6, <1>7, <1>8, <1>9, <1>10, LoudSteps, QuietStep,
     Zenon DEF PageInv

\* An empty queue has no index, and the first request is not before the zeroth.
LEMMA LenNone == (\A i \in 1..Len(<<>>) : FALSE) /\ 0 <= 1 /\ 0 # 1
OBVIOUS

-----------------------------------------------------------------------------
(* The invariant, and what it gives. *)

\* IInv is an invariant: it holds of a new future, and every step keeps it.
THEOREM PageInvariance == Spec => []IInv
<1>1. Init => PageInv
  <2> SUFFICES ASSUME Init PROVE PageInv
    OBVIOUS
  <2> USE Apart DEF Init
  <2>0. /\ \A i \in 1..Len(queue) : FALSE
        /\ latest <= current
        /\ \A a \in Actors : job[a].req # current
    BY LenNone, Zenon DEF NoJob
  <2>1. RowsInv
    BY <2>0, Zenon DEF RowsInv, Pending
  <2>2. OrderInv /\ FutureInv /\ AddedInv
    BY <2>0, Zenon DEF OrderInv, FutureInv, AddedInv, NoJob
  <2>3. PlaceInv
    BY <2>0, Zenon DEF PlaceInv, PlaceAt, InState, InQueue, With, NoJob
  <2>4. NothingForgotten
    BY Zenon DEF NothingForgotten
  <2> QED
    BY <2>1, <2>2, <2>3, <2>4, Zenon DEF PageInv
<1>2. ActorInv /\ PageInv /\ [Next]_vars => PageInv'
  BY RowsStep, OrderStep, FutureStep, AddedStep, PlaceStep, OwedStep DEF ActorInv, PageInv
<1>3. Spec => [](ActorInv /\ PageInv)
  BY <1>1, <1>2, ActorInvariance, PTL DEF Spec
<1> QED
  BY <1>3 DEF IInv

\* A callback is invoked at most once for a page, whether the drainer, the thread
\* that registered it or the thread that tore the request down runs it.
THEOREM ResponseOncePerPage == Spec => []OncePerPage
<1>1. IInv => OncePerPage
  <2> SUFFICES ASSUME PlaceInv, NEW c \in Callbacks, NEW r \in Requests
               PROVE  fired[c][r] <= 1
    BY Zenon DEF IInv, PageInv, OncePerPage
  <2>1. fired[c][r] \in {0, 1}
    BY Zenon DEF PlaceInv, PlaceAt
  <2> QED
    BY <2>1
<1> QED
  BY <1>1, PageInvariance, PTL

\* A callback that has to run for a page is in the state, in the queue or with the
\* drainer until it ran, however the future is paged meanwhile.
THEOREM ResponseNothingForgotten == Spec => []NothingForgotten
<1>1. IInv => NothingForgotten
  BY DEF IInv, PageInv
<1> QED
  BY <1>1, PageInvariance, PTL

\* Threads and drainers that build the rows of the current page concurrently all
\* get the rows that were stored first.
THEOREM ResponseSameRows == Spec => []SameRows
<1>1. IInv => SameRows
  BY DEF IInv, PageInv, RowsInv, SameRows
<1> QED
  BY <1>1, PageInvariance, PTL

\* The drainer never invokes a callback for an earlier page than one it already ran
\* callbacks for.
THEOREM ResponsePageOrder == Spec => PageOrder
<1>1. IInv /\ [Next]_vars => [latest' >= latest]_vars
  <2> SUFFICES ASSUME IInv, [Next]_vars PROVE latest' >= latest
    OBVIOUS
  <2>1. TypeInv /\ OrderInv /\ latest \in Nat
    BY Zenon DEF IInv, ActorInv, PageInv, TypeInv, TypeOK, HistTypes
  <2>2. ASSUME NEW a \in Actors, Invoke(a) PROVE latest' >= latest
    <3>1. /\ latest' = latest \/ latest' = job[a].req
          /\ a \in Drainers \/ latest' = latest
      BY <2>1, <2>2, InvokeEffect, Zenon
    <3>2. pc[a] = "fire"
      BY <2>2, Zenon DEF Invoke
    <3>3. job[a].req # 0
      BY <2>1, <3>2, JobFacts
    <3>4. latest' = latest \/ latest <= latest'
      BY <2>1, <3>1, <3>3, Zenon DEF OrderInv
    <3> QED
      BY <2>1, <3>4
  <2>3. latest' = latest \/ \E a \in Actors : Invoke(a)
    BY LoudSteps, Zenon DEF Quiet, Register, WaitRows, StartFetchingNextPage, RowsBuilt,
       BuildRows,
       Complete, TaskDrop, FireDropped, DrainNext, histVars
  <2> QED
    BY <2>1, <2>2, <2>3
<1> QED
  BY <1>1, PageInvariance, PTL DEF PageOrder, Spec
=============================================================================

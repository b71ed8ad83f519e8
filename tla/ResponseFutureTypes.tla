------------------------ MODULE ResponseFutureTypes -------------------------
(***************************************************************************)
(* For any threads, drainers, callbacks and number of requests: where the  *)
(* actors of a ResponseFuture can be. The types, the count of waiters, the *)
(* one request in flight, the one drainer and its token.                   *)
(***************************************************************************)
EXTENDS ResponseFuture, TLAPS

ThreadPcs == {"idle", "enter", "waiting", "woken", "again", "build", "fire", "spawn"}
DrainerPcs == {"idle", "queued", "running", "build", "fire"}

Busy(a) == pc[a] \in {"build", "fire"}

\* An actor holds a page exactly while it builds rows or runs callbacks, and it is
\* the page of a request that settled.
JobInv ==
  /\ \A t \in Threads : pc[t] \in ThreadPcs
  /\ \A d \in Drainers : pc[d] \in DrainerPcs
  /\ \A a \in Actors : Busy(a) => job[a].req \in 1..current /\ (Pending => job[a].req # current)
  /\ \A a \in Actors : ~Busy(a) => job[a] = NoJob

\* Pages paged past are of earlier requests, and a request in flight has nothing to
\* run callbacks for.
QueueInv == /\ \A i \in 1..Len(queue) : queue[i].req \in 1..(current - 1)
            /\ Pending => unfired = {}

\* Threads that wait_while counted in waiters and that have not left it.
Counted == {t \in Threads : pc[t] \in {"waiting", "woken"}}

\* S has n members: f numbers them from 1 to n.
Numbering(f, S, n) ==
  /\ f \in [S -> 1..n]
  /\ \A s, t \in S : f[s] = f[t] => s = t
  /\ \A i \in 1..n : \E s \in S : f[s] = i
Numbered(S, n) == n \in Nat /\ \E f : Numbering(f, S, n)

\* TypeOK is inductive once waiters is known to count exactly those threads.
TypeInv == TypeOK /\ JobInv /\ QueueInv /\ Numbered(Counted, waiters)

\* The token is parked only when there is nothing to drain. It is away only with a
\* drainer, or with a runtime that shut down.
TokenInv ==
  /\ permit => queue = <<>> /\ unfired = {}
  /\ permit \/ "drain" \in lost \/ \E d \in Drainers : Draining(d)
  /\ lost # {} => runtime # "up"

ActorInv == TypeInv /\ OneInFlight /\ OneDrainer /\ TokenInv /\ WaiterCovered /\ CallbacksReleased

-----------------------------------------------------------------------------
(* Facts the steps rest on. *)

\* Threads and drainers are actors, told apart from each other and from the names
\* of rows nobody built.
LEMMA Apart ==
  /\ Threads \subseteq Actors /\ Drainers \subseteq Actors
  /\ \A t \in Threads : t \notin Drainers
  /\ \A d \in Drainers : d \notin Threads
  /\ \A a \in Actors : a # "nobody" /\ a # "request" /\ (a \in Threads \/ a \in Drainers)
BY ActorsAssumption, Zenon DEF Actors

\* The rows and jobs the code writes down are typed.
LEMMA RowsTyped ==
  /\ NoRows \in Rows /\ Failure \in Rows /\ NoRows # Failure
  /\ \A a \in Actors, ok \in BOOLEAN : [ok |-> ok, by |-> a] \in Rows /\ [ok |-> ok, by |-> a] # NoRows
  /\ NoJob \in Undelivered /\ NoJob.req = 0 /\ NoJob.cbs = {}
  /\ \A q \in Requests, w \in Rows, S \in SUBSET Callbacks :
       [req |-> q, rows |-> w, cbs |-> S] \in Undelivered
BY Apart DEF NoRows, Failure, Rows, NoJob, Undelivered

\* Nobody is counted as zero.
LEMMA NumberedNone ==
  ASSUME NEW n PROVE Numbered({}, n) <=> n = 0
<1>1. ASSUME n = 0 PROVE Numbered({}, n)
  <2> DEFINE f == [s \in {} |-> 1]
  <2>1. Numbering(f, {}, 0)
    BY DEF Numbering
  <2> HIDE DEF f
  <2> QED
    BY <1>1, <2>1 DEF Numbered
<1>2. ASSUME Numbered({}, n) PROVE n = 0
  BY <1>2 DEF Numbered, Numbering
<1> QED
  BY <1>1, <1>2

\* While one waits, waiters is positive.
LEMMA NumberedSome ==
  ASSUME NEW S, NEW n, Numbered(S, n), NEW t \in S
  PROVE  n \in Nat /\ n > 0
BY DEF Numbered, Numbering

\* The increment counts the thread that goes to wait.
LEMMA NumberedMore ==
  ASSUME NEW S, NEW n, Numbered(S, n), NEW t, t \notin S
  PROVE  Numbered(S \cup {t}, n + 1)
<1>1. PICK f : Numbering(f, S, n)
  BY DEF Numbered
<1> DEFINE g == [s \in S \cup {t} |-> IF s = t THEN n + 1 ELSE f[s]]
<1>2. n \in Nat /\ n + 1 \in Nat
  BY DEF Numbered
<1>3. g \in [S \cup {t} -> 1..(n + 1)]
  BY <1>1, <1>2 DEF Numbering
<1>4. \A s, u \in S \cup {t} : g[s] = g[u] => s = u
  BY <1>1, <1>2 DEF Numbering
<1>5. \A i \in 1..(n + 1) : \E s \in S \cup {t} : g[s] = i
  <2> TAKE i \in 1..(n + 1)
  <2>1. CASE i = n + 1
    BY <2>1
  <2>2. CASE i # n + 1
    <3>1. i \in 1..n
      BY <1>2, <2>2
    <3>2. PICK s \in S : f[s] = i
      BY <1>1, <3>1 DEF Numbering
    <3> QED
      BY <3>2
  <2> QED
    BY <2>1, <2>2
<1> HIDE DEF g
<1>6. Numbering(g, S \cup {t}, n + 1)
  BY <1>3, <1>4, <1>5 DEF Numbering
<1> QED
  BY <1>2, <1>6 DEF Numbered

\* The decrement: whoever had the last number takes that of the thread that left.
LEMMA NumberedLess ==
  ASSUME NEW S, NEW n, Numbered(S, n), NEW t \in S
  PROVE  Numbered(S \ {t}, n - 1)
<1>1. PICK f : Numbering(f, S, n)
  BY DEF Numbered
<1> DEFINE g == [s \in S \ {t} |-> IF f[s] = n THEN f[t] ELSE f[s]]
<1>2. n \in Nat /\ n - 1 \in Nat
  BY NumberedSome
<1>3. g \in [S \ {t} -> 1..(n - 1)]
  BY <1>1, <1>2 DEF Numbering
<1>4. \A s, u \in S \ {t} : g[s] = g[u] => s = u
  BY <1>1, <1>2 DEF Numbering
<1>5. \A i \in 1..(n - 1) : \E s \in S \ {t} : g[s] = i
  <2> TAKE i \in 1..(n - 1)
  <2>1. i \in 1..n /\ n \in 1..n /\ i # n
    BY <1>2
  <2>2. PICK s \in S : f[s] = i
    BY <1>1, <2>1 DEF Numbering
  <2>3. PICK u \in S : f[u] = n
    BY <1>1, <2>1 DEF Numbering
  <2>4. CASE s = t
    BY <2>1, <2>2, <2>3, <2>4
  <2>5. CASE s # t
    BY <2>1, <2>2, <2>5
  <2> QED
    BY <2>4, <2>5
<1> HIDE DEF g
<1>6. Numbering(g, S \ {t}, n - 1)
  BY <1>3, <1>4, <1>5 DEF Numbering
<1> QED
  BY <1>2, <1>6 DEF Numbered

\* A step that moves no thread into or out of the condvar keeps the count.
LEMMA CountSame ==
  ASSUME Numbered(Counted, waiters), waiters' = waiters,
         \A t \in Threads : pc'[t] \in {"waiting", "woken"} <=> pc[t] \in {"waiting", "woken"}
  PROVE  Numbered(Counted, waiters)'
<1>1. Counted' = Counted
  BY DEF Counted
<1> QED
  BY <1>1 DEF Numbered

-----------------------------------------------------------------------------
(* Type correctness: Python threads. *)

\* register keeps the types.
LEMMA RegisterTypes ==
  ASSUME TypeInv, NEW t \in Threads, NEW c \in Callbacks, Register(t, c)
  PROVE  TypeInv'
<1> USE Apart, RowsTyped DEF TypeInv, Register
<1>1. PageTypes'
  BY DEF TypeOK, PageTypes, Keep
<1>2. DrainTypes'
  BY DEF TypeOK, DrainTypes, drainVars, taskVars
<1>3. ActorTypes'
  BY DEF TypeOK, PageTypes, ActorTypes, PcValues, doneVars
<1>4. HistTypes'
  BY DEF TypeOK, PageTypes, HistTypes
<1>5. JobInv'
  BY DEF TypeOK, PageTypes, ActorTypes, JobInv, ThreadPcs, DrainerPcs, Busy, Pending, Requests
<1>6. QueueInv'
  BY DEF QueueInv, Joins, Pending, drainVars
<1>7. Numbered(Counted, waiters)'
  <2>1. \A u \in Threads : pc'[u] \in {"waiting", "woken"} <=> pc[u] \in {"waiting", "woken"}
    BY DEF TypeOK, ActorTypes
  <2> QED
    BY <2>1, CountSame
<1> QED
  BY <1>1, <1>2, <1>3, <1>4, <1>5, <1>6, <1>7 DEF TypeOK

\* clear_callbacks keeps the types.
LEMMA ClearTypes ==
  ASSUME TypeInv, NEW t \in Threads, ClearCallbacks(t)
  PROVE  TypeInv'
<1> USE Apart, RowsTyped DEF TypeInv, TypeOK, pageVars, drainVars, taskVars, doneVars,
   histVars, ClearCallbacks
<1>1. PageTypes'
  BY DEF PageTypes
<1>2. DrainTypes'
  BY DEF DrainTypes
<1>3. ActorTypes'
  BY DEF PageTypes, ActorTypes, PcValues
<1>4. HistTypes'
  BY DEF PageTypes, HistTypes
<1>5. JobInv'
  BY DEF PageTypes, ActorTypes, JobInv, ThreadPcs, DrainerPcs, Busy, Pending, Requests
<1>6. QueueInv'
  BY DEF QueueInv, Pending, PageTypes, Requests
<1>7. Numbered(Counted, waiters)'
  <2>1. \A u \in Threads : pc'[u] \in {"waiting", "woken"} <=> pc[u] \in {"waiting", "woken"}
    BY DEF ActorTypes
  <2> QED
    BY <2>1, CountSame
<1> QED
  BY <1>1, <1>2, <1>3, <1>4, <1>5, <1>6, <1>7

\* wait_rows, up to the release of the lock, keeps the types.
LEMMA WaitRowsTypes ==
  ASSUME TypeInv, NEW t \in Threads, WaitRows(t)
  PROVE  TypeInv'
<1> USE Apart, RowsTyped DEF TypeInv, TypeOK, pageVars, drainVars, taskVars, doneVars,
   histVars, WaitRows
<1>1. PageTypes'
  BY DEF PageTypes
<1>2. DrainTypes'
  BY DEF DrainTypes
<1>3. ActorTypes'
  BY DEF PageTypes, ActorTypes, PcValues
<1>4. HistTypes'
  BY DEF PageTypes, HistTypes
<1>5. JobInv'
  BY DEF PageTypes, ActorTypes, JobInv, ThreadPcs, DrainerPcs, Busy, Pending, Requests
<1>6. QueueInv'
  BY DEF QueueInv, Pending, PageTypes, Requests
<1>7. Numbered(Counted, waiters)'
  <2>1. \A u \in Threads : pc'[u] \in {"waiting", "woken"} <=> pc[u] \in {"waiting", "woken"}
    BY DEF ActorTypes
  <2> QED
    BY <2>1, CountSame
<1> QED
  BY <1>1, <1>2, <1>3, <1>4, <1>5, <1>6, <1>7, Zenon

\* wait_while counts whoever goes to wait.
LEMMA WaitWhileTypes ==
  ASSUME TypeInv, NEW t \in Threads, WaitWhile(t)
  PROVE  TypeInv'
<1> USE Apart, RowsTyped DEF TypeInv, TypeOK, pageVars, drainVars, taskVars, doneVars,
   histVars, WaitWhile
<1>1. PageTypes'
  BY DEF PageTypes
<1>2. DrainTypes'
  BY DEF DrainTypes
<1>3. ActorTypes'
  BY DEF PageTypes, ActorTypes, PcValues
<1>4. HistTypes'
  BY DEF PageTypes, HistTypes
<1>5. JobInv'
  BY Zenon DEF PageTypes, ActorTypes, JobInv, ThreadPcs, DrainerPcs, Busy, Pending, Requests
<1>6. QueueInv'
  BY DEF QueueInv, Pending, PageTypes, Requests
<1>7. Numbered(Counted, waiters)'
  <2>1. CASE Pending
    <3>1. Counted' = Counted \cup {t} /\ t \notin Counted
      BY <2>1 DEF ActorTypes, Counted
    <3> QED
      BY <2>1, <3>1, NumberedMore
  <2>2. CASE ~Pending
    <3>1. Counted' = Counted
      BY <2>2 DEF ActorTypes, Counted
    <3> QED
      BY <2>2, <3>1 DEF Numbered
  <2> QED
    BY <2>1, <2>2
<1> QED
  BY <1>1, <1>2, <1>3, <1>4, <1>5, <1>6, <1>7

\* A spurious wakeup changes no count.
LEMMA SpuriousTypes ==
  ASSUME TypeInv, NEW t \in Threads, SpuriousWakeup(t)
  PROVE  TypeInv'
<1> USE Apart, RowsTyped DEF TypeInv, TypeOK, pageVars, drainVars, taskVars, doneVars,
   histVars, SpuriousWakeup
<1>1. PageTypes'
  BY DEF PageTypes
<1>2. DrainTypes'
  BY DEF DrainTypes
<1>3. ActorTypes'
  BY DEF PageTypes, ActorTypes, PcValues
<1>4. HistTypes'
  BY DEF PageTypes, HistTypes
<1>5. JobInv'
  BY Zenon DEF PageTypes, ActorTypes, JobInv, ThreadPcs, DrainerPcs, Busy, Pending, Requests
<1>6. QueueInv'
  BY DEF QueueInv, Pending, PageTypes, Requests
<1>7. Numbered(Counted, waiters)'
  <2>1. \A u \in Threads : pc'[u] \in {"waiting", "woken"} <=> pc[u] \in {"waiting", "woken"}
    BY DEF ActorTypes
  <2> QED
    BY <2>1, CountSame
<1> QED
  BY <1>1, <1>2, <1>3, <1>4, <1>5, <1>6, <1>7

\* A waiter that leaves wait_while was counted, so the decrement stays in the naturals.
LEMMA RecheckTypes ==
  ASSUME TypeInv, NEW t \in Threads, Recheck(t)
  PROVE  TypeInv'
<1> USE Apart, RowsTyped DEF TypeInv, TypeOK, pageVars, drainVars, taskVars, doneVars,
   histVars, Recheck
<1>1. PageTypes'
  BY DEF PageTypes
<1>2. DrainTypes'
  <2>1. t \in Counted
    BY DEF Counted
  <2>2. waiters \in Nat /\ waiters > 0
    BY <2>1, NumberedSome
  <2>3. waiters' \in Nat
    BY <2>2
  <2> QED
    BY <2>3 DEF DrainTypes
<1>3. ActorTypes'
  BY DEF PageTypes, ActorTypes, PcValues
<1>4. HistTypes'
  BY Zenon DEF PageTypes, HistTypes
<1>5. JobInv'
  BY Zenon DEF PageTypes, ActorTypes, JobInv, ThreadPcs, DrainerPcs, Busy, Pending, Requests
<1>6. QueueInv'
  BY DEF QueueInv, Pending, PageTypes, Requests
<1>7. Numbered(Counted, waiters)'
  <2>1. CASE ~Pending
    <3>1. Counted' = Counted \ {t} /\ t \in Counted
      BY <2>1 DEF ActorTypes, Counted
    <3> QED
      BY <2>1, <3>1, NumberedLess
  <2>2. CASE Pending
    <3>1. Counted' = Counted
      BY <2>2 DEF ActorTypes, Counted
    <3> QED
      BY <2>2, <3>1 DEF Numbered
  <2> QED
    BY <2>1, <2>2
<1> QED
  BY <1>1, <1>2, <1>3, <1>4, <1>5, <1>6, <1>7

\* start_fetching_next_page, up to the release of the lock, keeps the types.
LEMMA FetchTypes ==
  ASSUME TypeInv, NEW t \in Threads, StartFetchingNextPage(t)
  PROVE  TypeInv'
<1> USE Apart, RowsTyped, BoundAssumption DEF TypeInv, TypeOK, pageVars, drainVars,
   taskVars, doneVars, histVars, StartFetchingNextPage, QueueUnfired
<1>1. PageTypes'
  BY DEF PageTypes, Requests
<1>2. DrainTypes'
  <2>1. [req |-> current, rows |-> rows, cbs |-> unfired] \in Undelivered
    BY DEF PageTypes
  <2>2. queue' \in Seq(Undelivered)
    BY <2>1 DEF DrainTypes
  <2> QED
    BY <2>2 DEF DrainTypes
<1>3. ActorTypes'
  BY DEF PageTypes, ActorTypes, PcValues
<1>4. HistTypes'
  BY Zenon DEF PageTypes, HistTypes
<1>5. JobInv'
  BY DEF PageTypes, ActorTypes, JobInv, ThreadPcs, DrainerPcs, Busy, Pending, Requests
<1>6. QueueInv'
  BY DEF QueueInv, Pending, PageTypes, Requests
<1>7. Numbered(Counted, waiters)'
  <2>1. \A u \in Threads : pc'[u] \in {"waiting", "woken"} <=> pc[u] \in {"waiting", "woken"}
    BY Zenon DEF ActorTypes
  <2> QED
    BY <2>1, CountSame
<1> QED
  BY <1>1, <1>2, <1>3, <1>4, <1>5, <1>6, <1>7

\* Spawning the request keeps the types.
LEMMA SpawnTypes ==
  ASSUME TypeInv, NEW t \in Threads, SpawnRequest(t)
  PROVE  TypeInv'
<1> USE Apart, RowsTyped DEF TypeInv, TypeOK, pageVars, drainVars, taskVars, doneVars,
   histVars, SpawnRequest
<1>1. PageTypes'
  BY DEF PageTypes
<1>2. DrainTypes'
  BY DEF DrainTypes
<1>3. ActorTypes'
  BY DEF PageTypes, ActorTypes, PcValues
<1>4. HistTypes'
  BY Zenon DEF PageTypes, HistTypes
<1>5. JobInv'
  BY Zenon DEF PageTypes, ActorTypes, JobInv, ThreadPcs, DrainerPcs, Busy, Pending, Requests
<1>6. QueueInv'
  BY DEF QueueInv, Pending, PageTypes, Requests
<1>7. Numbered(Counted, waiters)'
  <2>1. \A u \in Threads : pc'[u] \in {"waiting", "woken"} <=> pc[u] \in {"waiting", "woken"}
    BY DEF ActorTypes
  <2> QED
    BY <2>1, CountSame
<1> QED
  BY <1>1, <1>2, <1>3, <1>4, <1>5, <1>6, <1>7

-----------------------------------------------------------------------------
(* Type correctness: building rows and running callbacks. *)

\* An actor that has the rows of its page goes on to their callbacks, or is done
\* with the page.
LEMMA HandOverMoves ==
  ASSUME TypeInv, NEW a \in Actors, pc[a] = "build", NEW r \in Rows, HandOver(a, r)
  PROVE  /\ pc' \in [Actors -> PcValues] /\ job' \in [Actors -> Undelivered]
         /\ owed' \in [Requests -> SUBSET Callbacks]
         /\ \A b \in Actors : b # a => pc'[b] = pc[b] /\ job'[b] = job[b]
         /\ \/ /\ pc'[a] = Rest(a) /\ job'[a] = NoJob /\ Matching(job[a].cbs, r) = {}
            \/ /\ pc'[a] = "fire" /\ Matching(job[a].cbs, r) # {}
               /\ job'[a] = [req |-> job[a].req, rows |-> r, cbs |-> Matching(job[a].cbs, r)]
         /\ job[a].req \in Requests
<1>1. job[a].req \in Requests
  BY BoundAssumption DEF TypeInv, JobInv, Busy, TypeOK, PageTypes, Requests
<1>2. Matching(job[a].cbs, r) \in SUBSET Callbacks
  BY Zenon DEF TypeInv, TypeOK, ActorTypes, Undelivered, Matching
<1>3. [req |-> job[a].req, rows |-> r, cbs |-> Matching(job[a].cbs, r)] \in Undelivered
  BY <1>1, <1>2, RowsTyped
<1>4. Rest(a) \in PcValues /\ "fire" \in PcValues
  BY DEF Rest, PcValues
<1>5. pc' \in [Actors -> PcValues] /\ job' \in [Actors -> Undelivered]
  BY <1>3, <1>4, RowsTyped DEF TypeInv, TypeOK, ActorTypes, HandOver
<1>6. owed' \in [Requests -> SUBSET Callbacks]
  BY <1>1 DEF TypeInv, TypeOK, HistTypes, HandOver, Matching
<1>7. \A b \in Actors : b # a => pc'[b] = pc[b] /\ job'[b] = job[b]
  BY DEF TypeInv, TypeOK, ActorTypes, HandOver
<1>8. \/ /\ pc'[a] = Rest(a) /\ job'[a] = NoJob /\ Matching(job[a].cbs, r) = {}
      \/ /\ pc'[a] = "fire" /\ Matching(job[a].cbs, r) # {}
         /\ job'[a] = [req |-> job[a].req, rows |-> r, cbs |-> Matching(job[a].cbs, r)]
  BY DEF TypeInv, TypeOK, ActorTypes, HandOver
<1> QED
  BY <1>1, <1>5, <1>6, <1>7, <1>8, Zenon

\* Handing over rows that were there keeps the types.
LEMMA RowsBuiltTypes ==
  ASSUME TypeInv, NEW a \in Actors, RowsBuilt(a)
  PROVE  TypeInv'
<1>r. rows' \in Rows /\ job[a].rows \in Rows
  BY Zenon DEF RowsBuilt, TypeInv, TypeOK, PageTypes, ActorTypes, Undelivered
<1>a. PICK r \in Rows : HandOver(a, r) /\ told' \subseteq told \cup {r}
  BY <1>r, RowsTyped DEF RowsBuilt
<1>b. /\ pc[a] = "build"
      /\ UNCHANGED <<request, current, more, unfired, registered, queue, permit, waiters, task,
                     runtime, notes, after, added, fired, latest, lost>>
  BY Zenon DEF RowsBuilt, drainVars, taskVars, doneVars
<1>c. /\ pc' \in [Actors -> PcValues] /\ job' \in [Actors -> Undelivered]
      /\ owed' \in [Requests -> SUBSET Callbacks]
      /\ \A b \in Actors : b # a => pc'[b] = pc[b] /\ job'[b] = job[b]
      /\ \/ pc'[a] = Rest(a) /\ job'[a] = NoJob
         \/ pc'[a] = "fire" /\ job'[a].req = job[a].req
  <2>1. /\ pc' \in [Actors -> PcValues] /\ job' \in [Actors -> Undelivered]
        /\ owed' \in [Requests -> SUBSET Callbacks]
        /\ \A b \in Actors : b # a => pc'[b] = pc[b] /\ job'[b] = job[b]
    BY <1>a, <1>b, HandOverMoves, Zenon
  <2>2. \/ pc'[a] = Rest(a) /\ job'[a] = NoJob
        \/ /\ pc'[a] = "fire"
           /\ job'[a] = [req |-> job[a].req, rows |-> r, cbs |-> Matching(job[a].cbs, r)]
    BY <1>a, <1>b, HandOverMoves
  <2> QED
    BY <2>1, <2>2
<1> USE Apart DEF TypeInv, TypeOK
<1>1. PageTypes'
  BY <1>b, <1>r DEF PageTypes
<1>2. DrainTypes'
  BY <1>b DEF DrainTypes
<1>3. ActorTypes'
  BY <1>b, <1>c DEF ActorTypes
<1>4. HistTypes'
  BY <1>a, <1>b, <1>c, Zenon DEF HistTypes
<1>5. JobInv'
  BY <1>b, <1>c DEF ActorTypes, JobInv, ThreadPcs, DrainerPcs, Busy, Pending, Rest
<1>6. QueueInv'
  BY <1>b, Zenon DEF QueueInv, Pending
<1>7. Numbered(Counted, waiters)'
  <2>1. \A u \in Threads : pc'[u] \in {"waiting", "woken"} <=> pc[u] \in {"waiting", "woken"}
    BY <1>b, <1>c DEF Rest
  <2> QED
    BY <1>b, <2>1, CountSame
<1> QED
  BY <1>1, <1>2, <1>3, <1>4, <1>5, <1>6, <1>7

\* Building the rows of a page keeps the types.
LEMMA BuildRowsTypes ==
  ASSUME TypeInv, NEW a \in Actors, NEW ok \in BOOLEAN, BuildRows(a, ok)
  PROVE  TypeInv'
<1>r. rows' \in Rows
  BY RowsTyped, Zenon DEF BuildRows, StoreRows, TypeInv, TypeOK, PageTypes
<1>a. PICK r \in Rows : HandOver(a, r) /\ told' \subseteq told \cup {r}
  BY <1>r, RowsTyped, Zenon DEF BuildRows
<1>b. /\ pc[a] = "build"
      /\ UNCHANGED <<request, current, more, unfired, registered, queue, permit, waiters, task,
                     runtime, notes, after, added, fired, latest, lost>>
  BY Zenon DEF BuildRows, drainVars, taskVars, doneVars
<1>c. /\ pc' \in [Actors -> PcValues] /\ job' \in [Actors -> Undelivered]
      /\ owed' \in [Requests -> SUBSET Callbacks]
      /\ \A b \in Actors : b # a => pc'[b] = pc[b] /\ job'[b] = job[b]
      /\ \/ pc'[a] = Rest(a) /\ job'[a] = NoJob
         \/ pc'[a] = "fire" /\ job'[a].req = job[a].req
  <2>1. /\ pc' \in [Actors -> PcValues] /\ job' \in [Actors -> Undelivered]
        /\ owed' \in [Requests -> SUBSET Callbacks]
        /\ \A b \in Actors : b # a => pc'[b] = pc[b] /\ job'[b] = job[b]
    BY <1>a, <1>b, HandOverMoves, Zenon
  <2>2. \/ pc'[a] = Rest(a) /\ job'[a] = NoJob
        \/ /\ pc'[a] = "fire"
           /\ job'[a] = [req |-> job[a].req, rows |-> r, cbs |-> Matching(job[a].cbs, r)]
    BY <1>a, <1>b, HandOverMoves, Zenon
  <2> QED
    BY <2>1, <2>2
<1> USE Apart DEF TypeInv, TypeOK
<1>1. PageTypes'
  BY <1>b, <1>r DEF PageTypes
<1>2. DrainTypes'
  BY <1>b DEF DrainTypes
<1>3. ActorTypes'
  BY <1>b, <1>c DEF ActorTypes
<1>4. HistTypes'
  BY <1>a, <1>b, <1>c, Zenon DEF HistTypes
<1>5. JobInv'
  BY <1>b, <1>c, Zenon DEF ActorTypes, JobInv, ThreadPcs, DrainerPcs, Busy, Pending, Rest
<1>6. QueueInv'
  BY <1>b DEF QueueInv, Pending
<1>7. Numbered(Counted, waiters)'
  <2>1. \A u \in Threads : pc'[u] \in {"waiting", "woken"} <=> pc[u] \in {"waiting", "woken"}
    BY <1>b, <1>c DEF Rest
  <2> QED
    BY <1>b, <2>1, CountSame
<1> QED
  BY <1>1, <1>2, <1>3, <1>4, <1>5, <1>6, <1>7, Zenon

\* A page with fewer callbacks to run.
LEMMA Fewer ==
  ASSUME NEW p \in Undelivered, NEW S
  PROVE  [p EXCEPT !.cbs = S] = [req |-> p.req, rows |-> p.rows, cbs |-> S]
BY DEF Undelivered

\* Where an actor is once it invoked one of the callbacks it holds.
LEMMA InvokeMoves ==
  ASSUME TypeInv, NEW a \in Actors, Invoke(a)
  PROVE  \E c \in job[a].cbs :
           LET left == job[a].cbs \ {c} IN
           /\ c \in Callbacks /\ job[a].req \in Requests
           /\ fired' = [fired EXCEPT ![c][job[a].req] = @ + 1]
           /\ \A b \in Actors : b # a => pc'[b] = pc[b] /\ job'[b] = job[b]
           /\ \/ pc'[a] = Rest(a) /\ job'[a] = NoJob /\ left = {}
              \/ /\ pc'[a] = "fire" /\ left # {}
                 /\ job'[a] = [req |-> job[a].req, rows |-> job[a].rows, cbs |-> left]
           /\ job' \in [Actors -> Undelivered] /\ pc' \in [Actors -> PcValues]
           /\ a \in Drainers => /\ latest' = job[a].req
                                /\ owed' = [owed EXCEPT ![job[a].req] = @ \ {c}]
           /\ a \notin Drainers => latest' = latest /\ owed' = owed
<1> USE DEF TypeInv, TypeOK, ActorTypes
<1>1. job[a] \in Undelivered /\ job[a].req \in Requests /\ job[a].cbs \subseteq Callbacks
  BY BoundAssumption DEF JobInv, Busy, PageTypes, Requests, Undelivered, Invoke
<1>2. PICK c \in job[a].cbs :
        LET left == job[a].cbs \ {c} IN
        /\ fired' = [fired EXCEPT ![c][job[a].req] = @ + 1]
        /\ IF a \in Drainers
           THEN /\ latest' = job[a].req
                /\ owed' = [owed EXCEPT ![job[a].req] = @ \ {c}]
           ELSE UNCHANGED <<latest, owed>>
        /\ pc' = [pc EXCEPT ![a] = IF left = {} THEN Rest(a) ELSE "fire"]
        /\ job' = [job EXCEPT ![a] = IF left = {} THEN NoJob ELSE [@ EXCEPT !.cbs = left]]
  BY Zenon DEF Invoke
<1>3. \A b \in Actors : b # a => pc'[b] = pc[b] /\ job'[b] = job[b]
  BY <1>2
<1>4. [job[a] EXCEPT !.cbs = job[a].cbs \ {c}] =
        [req |-> job[a].req, rows |-> job[a].rows, cbs |-> job[a].cbs \ {c}]
  BY <1>1, Fewer, Zenon
<1>5. CASE job[a].cbs \ {c} = {}
  <2>1. pc'[a] = Rest(a) /\ job'[a] = NoJob
    BY <1>2, <1>5
  <2>2. job' \in [Actors -> Undelivered] /\ pc' \in [Actors -> PcValues]
    BY <1>2, <1>5, RowsTyped DEF PcValues, Rest
  <2> QED
    BY <1>1, <1>2, <1>3, <1>5, <2>1, <2>2, Zenon
<1>6. CASE job[a].cbs \ {c} # {}
  <2>1. pc'[a] = "fire"
    BY <1>2, <1>6
  <2>2. job'[a] = [req |-> job[a].req, rows |-> job[a].rows, cbs |-> job[a].cbs \ {c}]
    BY <1>2, <1>4, <1>6, Zenon
  <2>3. [req |-> job[a].req, rows |-> job[a].rows, cbs |-> job[a].cbs \ {c}] \in Undelivered
    BY <1>1, RowsTyped DEF Undelivered
  <2>4. job' \in [Actors -> Undelivered] /\ pc' \in [Actors -> PcValues]
    BY <1>2, <1>4, <1>6, <2>3 DEF PcValues
  <2> QED
    BY <1>1, <1>2, <1>3, <1>6, <2>1, <2>2, <2>4, Zenon
<1> QED
  BY <1>5, <1>6, Zenon

\* The two changes of the history that Invoke makes keep its types.
LEMMA HistoryTyped ==
  ASSUME NEW f \in [Callbacks -> [Requests -> Nat]], NEW w \in [Requests -> SUBSET Callbacks],
         NEW c \in Callbacks, NEW r \in Requests
  PROVE  /\ [f EXCEPT ![c][r] = @ + 1] \in [Callbacks -> [Requests -> Nat]]
         /\ [w EXCEPT ![r] = @ \ {c}] \in [Requests -> SUBSET Callbacks]
         /\ r \in Nat
BY BoundAssumption DEF Requests

\* Invoking a callback keeps the types.
LEMMA InvokeTypes ==
  ASSUME TypeInv, NEW a \in Actors, Invoke(a)
  PROVE  TypeInv'
<1>a. PICK c \in job[a].cbs :
        LET left == job[a].cbs \ {c} IN
        /\ c \in Callbacks /\ job[a].req \in Requests
        /\ fired' = [fired EXCEPT ![c][job[a].req] = @ + 1]
        /\ \A b \in Actors : b # a => pc'[b] = pc[b] /\ job'[b] = job[b]
        /\ \/ pc'[a] = Rest(a) /\ job'[a] = NoJob /\ left = {}
           \/ /\ pc'[a] = "fire" /\ left # {}
              /\ job'[a] = [req |-> job[a].req, rows |-> job[a].rows, cbs |-> left]
        /\ job' \in [Actors -> Undelivered] /\ pc' \in [Actors -> PcValues]
        /\ a \in Drainers => /\ latest' = job[a].req
                             /\ owed' = [owed EXCEPT ![job[a].req] = @ \ {c}]
        /\ a \notin Drainers => latest' = latest /\ owed' = owed
  BY InvokeMoves, Zenon
<1>b. /\ pc[a] = "fire"
      /\ UNCHANGED <<request, current, more, rows, unfired, registered, queue, permit, waiters,
                     task, runtime, notes, after, added, told, lost>>
  BY Zenon DEF Invoke, pageVars, drainVars, taskVars, doneVars
<1>c. \/ pc'[a] = Rest(a) /\ job'[a] = NoJob
      \/ pc'[a] = "fire" /\ job'[a].req = job[a].req
  BY <1>a
<1> USE Apart DEF TypeInv, TypeOK
<1>1. PageTypes'
  BY <1>b, Zenon DEF PageTypes
<1>2. DrainTypes'
  BY <1>b, Zenon DEF DrainTypes
<1>3. ActorTypes'
  BY <1>a, <1>b DEF ActorTypes
<1>4. HistTypes'
  <2>0. /\ fired \in [Callbacks -> [Requests -> Nat]] /\ latest \in Nat
        /\ owed \in [Requests -> SUBSET Callbacks]
    BY Zenon DEF HistTypes
  <2>1. fired' \in [Callbacks -> [Requests -> Nat]]
    BY <1>a, <2>0, HistoryTyped, Zenon
  <2>2. latest' \in Nat /\ owed' \in [Requests -> SUBSET Callbacks]
    <3>1. CASE a \in Drainers
      <4>1. latest' = job[a].req /\ owed' = [owed EXCEPT ![job[a].req] = @ \ {c}]
        BY <1>a, <3>1, Zenon
      <4>2. /\ job[a].req \in Nat
            /\ [owed EXCEPT ![job[a].req] = @ \ {c}] \in [Requests -> SUBSET Callbacks]
        BY <1>a, <2>0, HistoryTyped, Zenon
      <4> QED
        BY <4>1, <4>2, Zenon
    <3>2. CASE a \notin Drainers
      BY <1>a, <2>0, <3>2, Zenon
    <3> QED
      BY <3>1, <3>2, Zenon
  <2> QED
    BY <1>b, <2>1, <2>2, Zenon DEF HistTypes
<1>5. JobInv'
  <2>1. JobInv
    OBVIOUS
  <2> HIDE DEF TypeInv, TypeOK
  <2> QED
    BY <1>a, <1>b, <1>c, <2>1 DEF JobInv, ThreadPcs, DrainerPcs, Busy, Pending, Rest
<1>6. QueueInv'
  BY <1>b, Zenon DEF QueueInv, Pending
<1>7. Numbered(Counted, waiters)'
  <2>1. \A u \in Threads : pc'[u] \in {"waiting", "woken"} <=> pc[u] \in {"waiting", "woken"}
    BY <1>a, <1>b, <1>c DEF Rest
  <2> QED
    BY <1>b, <2>1, CountSame, Zenon
<1> QED
  BY <1>1, <1>2, <1>3, <1>4, <1>5, <1>6, <1>7, Zenon

-----------------------------------------------------------------------------
(* Type correctness: the task, the drainer and the runtime. *)

\* What a completion does to the drainers: it starts an idle one with the parked
\* token, or loses the token to a runtime that shuts down.
LEMMA CompleteWakes ==
  ASSUME TypeInv, NEW ok \in BOOLEAN, NEW follows \in BOOLEAN, Complete(ok, follows)
  PROVE  \/ UNCHANGED <<permit, pc, lost>> /\ (ForOutcome(ok) = {} \/ ~permit)
         \/ /\ permit /\ permit' = FALSE /\ lost' = lost /\ ForOutcome(ok) # {}
            /\ \E d \in Drainers : pc[d] = "idle" /\ pc' = [pc EXCEPT ![d] = "queued"]
         \/ /\ permit /\ permit' = FALSE /\ runtime # "up" /\ lost' = lost \cup {"drain"}
            /\ pc' = pc /\ ForOutcome(ok) # {}
BY Zenon DEF Complete, WakeDrainer, CanWake

\* The first poll of the task keeps the types.
LEMMA PollTypes ==
  ASSUME TypeInv, TaskPoll
  PROVE  TypeInv'
<1> USE Apart, RowsTyped DEF TypeInv, TypeOK, pageVars, drainVars, taskVars, doneVars,
   histVars, TaskPoll
<1>1. PageTypes'
  BY Zenon DEF PageTypes
<1>2. DrainTypes'
  BY Zenon DEF DrainTypes
<1>3. ActorTypes'
  BY Zenon DEF PageTypes, ActorTypes, PcValues
<1>4. HistTypes'
  BY Zenon DEF PageTypes, HistTypes
<1>5. JobInv'
  BY Zenon DEF PageTypes, ActorTypes, JobInv, ThreadPcs, DrainerPcs, Busy, Pending, Requests
<1>6. QueueInv'
  BY Zenon DEF QueueInv, Pending, PageTypes, Requests
<1>7. Numbered(Counted, waiters)'
  <2>1. \A u \in Threads : pc'[u] \in {"waiting", "woken"} <=> pc[u] \in {"waiting", "woken"}
    BY Zenon DEF ActorTypes
  <2> QED
    BY <2>1, CountSame, Zenon
<1> QED
  BY <1>1, <1>2, <1>3, <1>4, <1>5, <1>6, <1>7, Zenon

\* complete keeps the types: the request in flight becomes a settled one.
LEMMA CompleteTypes ==
  ASSUME TypeInv, NEW ok \in BOOLEAN, NEW follows \in BOOLEAN, Complete(ok, follows)
  PROVE  TypeInv'
<1> USE Apart, RowsTyped DEF TypeInv, TypeOK
<1>a. ForOutcome(ok) \subseteq Callbacks
  BY Zenon DEF ForOutcome, PageTypes
<1>b. /\ task' = "gone" /\ request' \in {"Received", "Failed"}
      /\ rows' \in Rows /\ more' \in BOOLEAN /\ unfired' = ForOutcome(ok)
      /\ owed' = [owed EXCEPT ![current] = ForOutcome(ok)]
      /\ notes' = [notes EXCEPT ![current] = waiters]
      /\ registered' \in {registered, {}}
      /\ UNCHANGED <<current, queue, waiters, runtime, job, after, added, fired, latest, told>>
  BY DEF Complete, PageTypes
<1>c. /\ permit' \in BOOLEAN /\ lost' \subseteq {"task", "drain"}
      /\ pc' \in [Actors -> PcValues]
      /\ \A t \in Threads : pc'[t] = pc[t]
      /\ \A d \in Drainers : pc'[d] = pc[d] \/ (pc[d] = "idle" /\ pc'[d] = "queued")
  <2>1. CASE UNCHANGED <<permit, pc, lost>>
    BY <2>1 DEF DrainTypes, ActorTypes, HistTypes
  <2>2. CASE /\ permit' = FALSE /\ lost' = lost
             /\ \E d \in Drainers : pc[d] = "idle" /\ pc' = [pc EXCEPT ![d] = "queued"]
    BY <2>2, Zenon DEF ActorTypes, HistTypes, PcValues
  <2>3. CASE permit' = FALSE /\ lost' = lost \cup {"drain"} /\ pc' = pc
    BY <2>3, Zenon DEF ActorTypes, HistTypes
  <2> QED
    BY <2>1, <2>2, <2>3, CompleteWakes, Zenon
<1>1. PageTypes'
  BY <1>a, <1>b, Zenon DEF PageTypes
<1>2. DrainTypes'
  BY <1>b, <1>c DEF DrainTypes
<1>3. ActorTypes'
  BY <1>b, <1>c, Zenon DEF ActorTypes, DrainTypes
<1>4. HistTypes'
  BY <1>a, <1>b, <1>c DEF HistTypes, PageTypes
<1>5. JobInv'
  BY <1>b, <1>c, Zenon DEF JobInv, ThreadPcs, DrainerPcs, Busy, Pending
<1>6. QueueInv'
  BY <1>b, Zenon DEF QueueInv, Pending
<1>7. Numbered(Counted, waiters)'
  BY <1>b, <1>c, CountSame, Zenon
<1> QED
  BY <1>1, <1>2, <1>3, <1>4, <1>5, <1>6, <1>7, Zenon

\* Dropping the task keeps the types.
LEMMA TaskDropTypes ==
  ASSUME TypeInv, TaskDrop
  PROVE  TypeInv'
<1> USE Apart, RowsTyped DEF TypeInv, TypeOK, pageVars, drainVars, taskVars, doneVars,
   histVars, TaskDrop, Matching
<1>1. PageTypes'
  BY Zenon DEF PageTypes
<1>2. DrainTypes'
  BY Zenon DEF DrainTypes
<1>3. ActorTypes'
  <2>1. Matching(registered, Failure) \subseteq Callbacks
    BY DEF PageTypes
  <2> HIDE DEF Matching
  <2>2. CASE task = "polled" /\ Pending
    BY <2>1, <2>2, Zenon DEF DrainTypes, ActorTypes
  <2>3. CASE ~(task = "polled" /\ Pending)
    BY <2>3 DEF ActorTypes
  <2> QED
    BY <2>2, <2>3, Zenon
<1>4. HistTypes'
  BY Zenon DEF PageTypes, HistTypes
<1>5. JobInv'
  BY DEF PageTypes, ActorTypes, JobInv, ThreadPcs, DrainerPcs, Busy, Pending, Requests
<1>6. QueueInv'
  BY Zenon DEF QueueInv, Pending, PageTypes, Requests
<1>7. Numbered(Counted, waiters)'
  <2>1. \A u \in Threads : pc'[u] \in {"waiting", "woken"} <=> pc[u] \in {"waiting", "woken"}
    BY Zenon DEF ActorTypes
  <2> QED
    BY <2>1, CountSame, Zenon
<1> QED
  BY <1>1, <1>2, <1>3, <1>4, <1>5, <1>6, <1>7, Zenon

\* notify moves waiters only within the condvar.
LEMMA NotifyTypes ==
  ASSUME TypeInv, NEW r \in Requests, Notify(r)
  PROVE  TypeInv'
<1> USE Apart, RowsTyped DEF TypeInv, TypeOK, pageVars, drainVars, taskVars, doneVars,
   histVars, Notify
<1>1. PageTypes'
  BY Zenon DEF PageTypes
<1>2. DrainTypes'
  BY Zenon DEF DrainTypes
<1>3. ActorTypes'
  BY Zenon DEF PageTypes, ActorTypes, PcValues
<1>4. HistTypes'
  BY Zenon DEF PageTypes, HistTypes
<1>5. JobInv'
  BY DEF PageTypes, ActorTypes, JobInv, ThreadPcs, DrainerPcs, Busy, Pending, Requests
<1>6. QueueInv'
  BY Zenon DEF QueueInv, Pending, PageTypes, Requests
<1>7. Numbered(Counted, waiters)'
  <2>1. \A u \in Threads : pc'[u] \in {"waiting", "woken"} <=> pc[u] \in {"waiting", "woken"}
    BY Zenon DEF ActorTypes
  <2> QED
    BY <2>1, CountSame, Zenon
<1> QED
  BY <1>1, <1>2, <1>3, <1>4, <1>5, <1>6, <1>7, Zenon

\* Running the errbacks of a torn-down request keeps the types.
LEMMA FireDroppedTypes ==
  ASSUME TypeInv, NEW r \in Requests, FireDropped(r)
  PROVE  TypeInv'
<1> USE Apart, RowsTyped DEF TypeInv, TypeOK, pageVars, drainVars, taskVars, doneVars,
   histVars, FireDropped
<1>1. PageTypes'
  BY Zenon DEF PageTypes
<1>2. DrainTypes'
  BY Zenon DEF DrainTypes
<1>3. ActorTypes'
  BY Zenon DEF PageTypes, ActorTypes, PcValues
<1>4. HistTypes'
  <2>1. PICK c \in after[r] : fired' = [fired EXCEPT ![c][r] = @ + 1]
    BY Zenon
  <2>2. c \in Callbacks
    BY <2>1, Zenon DEF ActorTypes
  <2>0. /\ fired \in [Callbacks -> [Requests -> Nat]]
        /\ owed \in [Requests -> SUBSET Callbacks]
    BY Zenon DEF HistTypes
  <2>3. fired' \in [Callbacks -> [Requests -> Nat]]
    BY <2>0, <2>1, <2>2, HistoryTyped, Zenon
  <2> QED
    BY <2>3, Zenon DEF HistTypes
<1>5. JobInv'
  BY Zenon DEF PageTypes, ActorTypes, JobInv, ThreadPcs, DrainerPcs, Busy, Pending, Requests
<1>6. QueueInv'
  BY Zenon DEF QueueInv, Pending, PageTypes, Requests
<1>7. Numbered(Counted, waiters)'
  <2>1. \A u \in Threads : pc'[u] \in {"waiting", "woken"} <=> pc[u] \in {"waiting", "woken"}
    BY Zenon DEF ActorTypes
  <2> QED
    BY <2>1, CountSame, Zenon
<1> QED
  BY <1>1, <1>2, <1>3, <1>4, <1>5, <1>6, <1>7, Zenon

\* A blocking thread that picks the drain up keeps the types.
LEMMA DrainStartTypes ==
  ASSUME TypeInv, NEW d \in Drainers, DrainStart(d)
  PROVE  TypeInv'
<1> USE Apart, RowsTyped DEF TypeInv, TypeOK, pageVars, drainVars, taskVars, doneVars,
   histVars, DrainStart
<1>1. PageTypes'
  BY Zenon DEF PageTypes
<1>2. DrainTypes'
  BY Zenon DEF DrainTypes
<1>3. ActorTypes'
  BY Zenon DEF PageTypes, ActorTypes, PcValues
<1>4. HistTypes'
  BY Zenon DEF PageTypes, HistTypes
<1>5. JobInv'
  BY DEF PageTypes, ActorTypes, JobInv, ThreadPcs, DrainerPcs, Busy, Pending, Requests
<1>6. QueueInv'
  BY Zenon DEF QueueInv, Pending, PageTypes, Requests
<1>7. Numbered(Counted, waiters)'
  <2>1. \A u \in Threads : pc'[u] \in {"waiting", "woken"} <=> pc[u] \in {"waiting", "woken"}
    BY Zenon DEF ActorTypes
  <2> QED
    BY <2>1, CountSame, Zenon
<1> QED
  BY <1>1, <1>2, <1>3, <1>4, <1>5, <1>6, <1>7, Zenon

\* Dropping a queued drain keeps the types.
LEMMA DrainDropTypes ==
  ASSUME TypeInv, NEW d \in Drainers, DrainDrop(d)
  PROVE  TypeInv'
<1> USE Apart, RowsTyped DEF TypeInv, TypeOK, pageVars, drainVars, taskVars, doneVars,
   histVars, DrainDrop
<1>1. PageTypes'
  BY Zenon DEF PageTypes
<1>2. DrainTypes'
  BY Zenon DEF DrainTypes
<1>3. ActorTypes'
  BY Zenon DEF PageTypes, ActorTypes, PcValues
<1>4. HistTypes'
  BY Zenon DEF PageTypes, HistTypes
<1>5. JobInv'
  BY DEF PageTypes, ActorTypes, JobInv, ThreadPcs, DrainerPcs, Busy, Pending, Requests
<1>6. QueueInv'
  BY Zenon DEF QueueInv, Pending, PageTypes, Requests
<1>7. Numbered(Counted, waiters)'
  <2>1. \A u \in Threads : pc'[u] \in {"waiting", "woken"} <=> pc[u] \in {"waiting", "woken"}
    BY DEF ActorTypes
  <2> QED
    BY <2>1, CountSame, Zenon
<1> QED
  BY <1>1, <1>2, <1>3, <1>4, <1>5, <1>6, <1>7, Zenon

\* A turn of the drainer: it parks the token when nothing is left, and otherwise
\* takes the oldest page paged past, or the current one when there is none.
LEMMA DrainTakes ==
  ASSUME TypeInv, NEW d \in Drainers, DrainNext(d)
  PROVE  \/ /\ queue = <<>> /\ unfired = {} /\ permit' = TRUE
            /\ pc' = [pc EXCEPT ![d] = "idle"]
            /\ UNCHANGED <<queue, unfired, job>>
         \/ /\ queue # <<>> /\ Head(queue) \in Undelivered /\ Head(queue) = queue[1]
            /\ queue' = Tail(queue) /\ unfired' = unfired /\ permit' = permit
            /\ job' = [job EXCEPT ![d] = Head(queue)]
            /\ pc' = [pc EXCEPT ![d] = "build"]
         \/ /\ queue = <<>> /\ unfired # {}
            /\ queue' = queue /\ unfired' = {} /\ permit' = permit
            /\ job' = [job EXCEPT ![d] = [req |-> current, rows |-> rows, cbs |-> unfired]]
            /\ pc' = [pc EXCEPT ![d] = "build"]
<1>1. CASE queue # <<>>
  <2>1. Head(queue) \in Undelivered /\ Head(queue) = queue[1] /\ 1 \in 1..Len(queue)
    BY <1>1 DEF TypeInv, TypeOK, DrainTypes
  <2>a. queue[1].req \in 1..(current - 1)
    BY <2>1, Zenon DEF TypeInv, QueueInv
  <2>b. NoJob.req = 0
    BY Zenon DEF NoJob
  <2>c. \A n : n \in 1..(current - 1) => n # 0
    OBVIOUS
  <2>2. Head(queue) # NoJob
    BY <2>1, <2>a, <2>b, <2>c, Zenon
  <2> QED
    BY <1>1, <2>1, <2>2 DEF DrainNext, DrainOldest
<1>2. CASE queue = <<>> /\ unfired # {}
  <2>1. [req |-> current, rows |-> rows, cbs |-> unfired] # NoJob
    BY <1>2, Zenon DEF NoJob
  <2> QED
    BY <1>2, <2>1, Zenon DEF DrainNext, DrainOldest
<1>3. CASE queue = <<>> /\ unfired = {}
  BY <1>3 DEF DrainNext, DrainOldest
<1> QED
  BY <1>1, <1>2, <1>3, Zenon

\* A turn of the drainer keeps the types.
LEMMA DrainNextTypes ==
  ASSUME TypeInv, NEW d \in Drainers, DrainNext(d)
  PROVE  TypeInv'
<1>a. /\ pc[d] = "running"
      /\ UNCHANGED <<request, current, more, rows, registered, waiters, task, runtime, notes,
                     after, added, fired, latest, owed, told, lost>>
  BY DEF DrainNext, taskVars, doneVars, histVars
<1>b. \E p \in {"idle", "build"} : pc' = [pc EXCEPT ![d] = p]
  BY DrainTakes, Zenon
<1>c. ActorTypes' /\ DrainTypes' /\ PageTypes' /\ JobInv' /\ QueueInv'
  <2>1. CASE UNCHANGED <<queue, unfired, job>> /\ permit' = TRUE /\ pc' = [pc EXCEPT ![d] = "idle"]
    <3> USE <1>a, <2>1, Apart DEF TypeInv, TypeOK
    <3>1. ActorTypes' /\ DrainTypes' /\ PageTypes'
      BY Zenon DEF ActorTypes, DrainTypes, PageTypes, PcValues
    <3>2. JobInv' /\ QueueInv'
      BY Zenon DEF ActorTypes, JobInv, QueueInv, Busy, Pending, ThreadPcs, DrainerPcs
    <3> QED
      BY <3>1, <3>2, Zenon
  <2>2. CASE /\ queue # <<>> /\ Head(queue) \in Undelivered /\ Head(queue) = queue[1]
             /\ queue' = Tail(queue) /\ unfired' = unfired /\ permit' = permit
             /\ job' = [job EXCEPT ![d] = Head(queue)]
             /\ pc' = [pc EXCEPT ![d] = "build"]
    <3> USE <1>a, <2>2, Apart DEF TypeInv, TypeOK
    <3>1. ActorTypes' /\ DrainTypes' /\ PageTypes'
      BY DEF ActorTypes, DrainTypes, PageTypes, PcValues
    <3>2. /\ queue \in Seq(Undelivered) /\ 1 \in 1..Len(queue)
          /\ \A i \in 1..Len(queue') : i + 1 \in 1..Len(queue) /\ queue'[i] = queue[i + 1]
      BY DEF DrainTypes
    <3>3. QueueInv'
      BY <3>2, Zenon DEF QueueInv, Pending
    <3>4. job'[d].req \in 1..current /\ (Pending => job'[d].req # current)
      BY <3>2 DEF QueueInv, ActorTypes, PageTypes, Requests
    <3>5. JobInv'
      BY <3>4, Zenon DEF ActorTypes, JobInv, Busy, Pending, ThreadPcs, DrainerPcs
    <3> QED
      BY <3>1, <3>3, <3>5, Zenon
  <2>3. CASE /\ queue = <<>> /\ unfired # {}
             /\ queue' = queue /\ unfired' = {} /\ permit' = permit
             /\ job' = [job EXCEPT ![d] = [req |-> current, rows |-> rows, cbs |-> unfired]]
             /\ pc' = [pc EXCEPT ![d] = "build"]
    <3> USE <1>a, <2>3, Apart, RowsTyped DEF TypeInv, TypeOK
    <3>1. ActorTypes' /\ DrainTypes' /\ PageTypes'
      BY Zenon DEF ActorTypes, DrainTypes, PageTypes, PcValues
    <3>2. QueueInv'
      BY Zenon DEF QueueInv, Pending
    <3>3. job'[d].req \in 1..current /\ (Pending => job'[d].req # current)
      BY BoundAssumption DEF ActorTypes, PageTypes, Requests, QueueInv, Pending
    <3>4. JobInv'
      BY <3>3, Zenon DEF ActorTypes, JobInv, Busy, Pending, ThreadPcs, DrainerPcs
    <3> QED
      BY <3>1, <3>2, <3>4, Zenon
  <2> QED
    BY <2>1, <2>2, <2>3, DrainTakes, Zenon
<1>1. HistTypes'
  BY <1>a, Zenon DEF TypeInv, TypeOK, HistTypes
<1>2. Numbered(Counted, waiters)'
  <2>1. \A u \in Threads : pc'[u] \in {"waiting", "woken"} <=> pc[u] \in {"waiting", "woken"}
    BY <1>b, Apart, Zenon DEF TypeInv, TypeOK, ActorTypes
  <2> QED
    BY <1>a, <2>1, CountSame DEF TypeInv
<1> QED
  BY <1>c, <1>1, <1>2 DEF TypeInv, TypeOK

\* The atexit hook keeps the types.
LEMMA ShutdownTypes ==
  ASSUME TypeInv, Shutdown
  PROVE  TypeInv'
<1> USE Apart, RowsTyped DEF TypeInv, TypeOK, pageVars, drainVars, taskVars, doneVars,
   histVars, Shutdown
<1>1. PageTypes'
  BY Zenon DEF PageTypes
<1>2. DrainTypes'
  BY Zenon DEF DrainTypes
<1>3. ActorTypes'
  BY Zenon DEF PageTypes, ActorTypes, PcValues
<1>4. HistTypes'
  BY Zenon DEF PageTypes, HistTypes
<1>5. JobInv'
  BY DEF PageTypes, ActorTypes, JobInv, ThreadPcs, DrainerPcs, Busy, Pending, Requests
<1>6. QueueInv'
  BY Zenon DEF QueueInv, Pending, PageTypes, Requests
<1>7. Numbered(Counted, waiters)'
  <2>1. \A u \in Threads : pc'[u] \in {"waiting", "woken"} <=> pc[u] \in {"waiting", "woken"}
    BY Zenon DEF ActorTypes
  <2> QED
    BY <2>1, CountSame, Zenon
<1> QED
  BY <1>1, <1>2, <1>3, <1>4, <1>5, <1>6, <1>7, Zenon

\* The end of the runtime keeps the types.
LEMMA StoppedTypes ==
  ASSUME TypeInv, Stopped
  PROVE  TypeInv'
<1> USE Apart, RowsTyped DEF TypeInv, TypeOK, pageVars, drainVars, taskVars, doneVars,
   histVars, Stopped
<1>1. PageTypes'
  BY Zenon DEF PageTypes
<1>2. DrainTypes'
  BY Zenon DEF DrainTypes
<1>3. ActorTypes'
  BY Zenon DEF PageTypes, ActorTypes, PcValues
<1>4. HistTypes'
  BY Zenon DEF PageTypes, HistTypes
<1>5. JobInv'
  BY DEF PageTypes, ActorTypes, JobInv, ThreadPcs, DrainerPcs, Busy, Pending, Requests
<1>6. QueueInv'
  BY Zenon DEF QueueInv, Pending, PageTypes, Requests
<1>7. Numbered(Counted, waiters)'
  <2>1. \A u \in Threads : pc'[u] \in {"waiting", "woken"} <=> pc[u] \in {"waiting", "woken"}
    BY Zenon DEF ActorTypes
  <2> QED
    BY <2>1, CountSame, Zenon
<1> QED
  BY <1>1, <1>2, <1>3, <1>4, <1>5, <1>6, <1>7, Zenon

-----------------------------------------------------------------------------
(* Type correctness. *)

\* The future is created with its request in flight and nobody busy.
LEMMA TypesInit == Init => TypeInv
<1> SUFFICES ASSUME Init PROVE TypeInv
  BY Zenon
<1> USE Apart, RowsTyped, BoundAssumption DEF Init
<1>1. PageTypes /\ DrainTypes
  <2>1. current \in Requests
    BY DEF Requests
  <2>2. PageTypes
    BY <2>1, Zenon DEF PageTypes
  <2>3. queue \in Seq(Undelivered)
    OBVIOUS
  <2> QED
    BY <2>2, <2>3, Zenon DEF DrainTypes
<1>2. ActorTypes
  BY Zenon DEF ActorTypes, PcValues
<1>3. HistTypes
  BY Zenon DEF HistTypes
<1>4. JobInv /\ QueueInv
  BY DEF JobInv, QueueInv, Busy, ThreadPcs, DrainerPcs
<1>5. Numbered(Counted, waiters)
  <2>1. Counted = {}
    BY Zenon DEF Counted
  <2> QED
    BY <2>1, NumberedNone, Zenon
<1> QED
  BY <1>1, <1>2, <1>3, <1>4, <1>5 DEF TypeInv, TypeOK

\* Every step keeps the types.
LEMMA TypesStep ==
  ASSUME TypeInv, [Next]_vars
  PROVE  TypeInv'
<1>1. ASSUME NEW t \in Threads, NEW c \in Callbacks, Register(t, c)
      PROVE  TypeInv'
  BY <1>1, RegisterTypes
<1>2. ASSUME NEW t \in Threads, ClearCallbacks(t)
      PROVE  TypeInv'
  BY <1>2, ClearTypes
<1>3. ASSUME NEW t \in Threads, WaitRows(t)
      PROVE  TypeInv'
  BY <1>3, WaitRowsTypes
<1>4. ASSUME NEW t \in Threads, WaitWhile(t)
      PROVE  TypeInv'
  BY <1>4, WaitWhileTypes
<1>5. ASSUME NEW t \in Threads, SpuriousWakeup(t)
      PROVE  TypeInv'
  BY <1>5, SpuriousTypes
<1>6. ASSUME NEW t \in Threads, Recheck(t)
      PROVE  TypeInv'
  BY <1>6, RecheckTypes
<1>7. ASSUME NEW t \in Threads, StartFetchingNextPage(t)
      PROVE  TypeInv'
  BY <1>7, FetchTypes
<1>8. ASSUME NEW t \in Threads, SpawnRequest(t)
      PROVE  TypeInv'
  BY <1>8, SpawnTypes
<1>9. ASSUME NEW a \in Actors, RowsBuilt(a)
      PROVE  TypeInv'
  BY <1>9, RowsBuiltTypes
<1>10. ASSUME NEW a \in Actors, NEW ok \in BOOLEAN, BuildRows(a, ok)
       PROVE  TypeInv'
  BY <1>10, BuildRowsTypes
<1>11. ASSUME NEW a \in Actors, Invoke(a)
       PROVE  TypeInv'
  BY <1>11, InvokeTypes
<1>12. CASE TaskPoll
  BY <1>12, PollTypes
<1>13. ASSUME NEW ok \in BOOLEAN, NEW follows \in BOOLEAN, Complete(ok, follows)
       PROVE  TypeInv'
  BY <1>13, CompleteTypes
<1>14. CASE TaskDrop
  BY <1>14, TaskDropTypes
<1>15. ASSUME NEW r \in Requests, Notify(r)
       PROVE  TypeInv'
  BY <1>15, NotifyTypes
<1>16. ASSUME NEW r \in Requests, FireDropped(r)
       PROVE  TypeInv'
  BY <1>16, FireDroppedTypes
<1>17. ASSUME NEW d \in Drainers, DrainStart(d)
       PROVE  TypeInv'
  BY <1>17, DrainStartTypes
<1>18. ASSUME NEW d \in Drainers, DrainDrop(d)
       PROVE  TypeInv'
  BY <1>18, DrainDropTypes
<1>19. ASSUME NEW d \in Drainers, DrainNext(d)
       PROVE  TypeInv'
  BY <1>19, DrainNextTypes
<1>20. CASE Shutdown
  BY <1>20, ShutdownTypes
<1>21. CASE Stopped
  BY <1>21, StoppedTypes
<1>22. CASE UNCHANGED vars
  BY <1>22, Zenon DEF TypeInv, TypeOK, PageTypes, DrainTypes, ActorTypes, HistTypes,
     JobInv, QueueInv,
              Busy, Pending, Counted, vars, pageVars, drainVars, taskVars, doneVars, histVars
<1> QED
  BY <1>1, <1>2, <1>3, <1>4, <1>5, <1>6, <1>7, <1>8, <1>9, <1>10, <1>11, <1>12, <1>13,
     <1>14, <1>15, <1>16, <1>17, <1>18, <1>19, <1>20, <1>21, <1>22
     DEF Next, ThreadNext, BuildNext, DrainerNext, TaskNext

-----------------------------------------------------------------------------
(* One request in flight. *)

\* A step that starts and ends no request keeps the one in flight.
LEMMA FlightSame ==
  ASSUME OneInFlight, request' = request, task' = task,
         \A u \in Threads : pc'[u] = "spawn" => pc[u] = "spawn"
  PROVE  OneInFlight'
BY DEF OneInFlight, Pending

\* Actors that build rows or invoke callbacks do not spawn requests.
LEMMA BusyFlight ==
  ASSUME TypeInv, NEW a \in Actors, RowsBuilt(a) \/ (\E ok \in BOOLEAN : BuildRows(a, ok)) \/ Invoke(a)
  PROVE  \E p \in {"idle", "running", "fire"} : pc' = [pc EXCEPT ![a] = p]
<1>1. CASE RowsBuilt(a) \/ \E ok \in BOOLEAN : BuildRows(a, ok)
  BY <1>1, Zenon DEF RowsBuilt, BuildRows, HandOver, Rest
<1>2. CASE Invoke(a)
  BY <1>2, Zenon DEF Invoke, Rest
<1> QED
  BY <1>1, <1>2

\* Every step keeps at most one request in flight, and the state says so.
LEMMA FlightStep ==
  ASSUME TypeInv, OneInFlight, [Next]_vars
  PROVE  OneInFlight'
<1> USE DEF TypeInv, TypeOK, ActorTypes
<1>1. ASSUME NEW t \in Threads, NEW c \in Callbacks, Register(t, c)
      PROVE  OneInFlight'
  BY <1>1, Apart, FlightSame, Zenon DEF Register, pageVars, drainVars, taskVars, doneVars,
     histVars
<1>2. ASSUME NEW t \in Threads, ClearCallbacks(t)
      PROVE  OneInFlight'
  BY <1>2, Apart, FlightSame, Zenon DEF ClearCallbacks, pageVars, drainVars, taskVars,
     doneVars, histVars
<1>3. ASSUME NEW t \in Threads, WaitRows(t)
      PROVE  OneInFlight'
  BY <1>3, Apart, FlightSame, Zenon DEF WaitRows, pageVars, drainVars, taskVars, doneVars,
     histVars
<1>4. ASSUME NEW t \in Threads, WaitWhile(t)
      PROVE  OneInFlight'
  BY <1>4, Apart, FlightSame, Zenon DEF WaitWhile, pageVars, drainVars, taskVars, doneVars,
     histVars
<1>5. ASSUME NEW t \in Threads, SpuriousWakeup(t)
      PROVE  OneInFlight'
  BY <1>5, Apart, FlightSame, Zenon DEF SpuriousWakeup, pageVars, drainVars, taskVars,
     doneVars, histVars
<1>6. ASSUME NEW t \in Threads, Recheck(t)
      PROVE  OneInFlight'
  BY <1>6, Apart, FlightSame, Zenon DEF Recheck, pageVars, drainVars, taskVars, doneVars,
     histVars
<1>7. ASSUME NEW t \in Threads, StartFetchingNextPage(t)
      PROVE  OneInFlight'
  BY <1>7, Apart, Zenon DEF StartFetchingNextPage, CanFetch, OneInFlight, Pending
<1>8. ASSUME NEW t \in Threads, SpawnRequest(t)
      PROVE  OneInFlight'
  BY <1>8, Apart DEF SpawnRequest, OneInFlight, Pending, pageVars
<1>9. ASSUME NEW a \in Actors, RowsBuilt(a)
      PROVE  OneInFlight'
  <2>1. \E p \in {"idle", "running", "fire"} : pc' = [pc EXCEPT ![a] = p]
    BY <1>9, BusyFlight, Zenon
  <2>2. request' = request /\ task' = task
    BY <1>9 DEF RowsBuilt, pageVars, taskVars
  <2> QED
    BY <2>1, <2>2, Apart, FlightSame
<1>10. ASSUME NEW a \in Actors, NEW ok \in BOOLEAN, BuildRows(a, ok)
       PROVE  OneInFlight'
  <2>1. \E p \in {"idle", "running", "fire"} : pc' = [pc EXCEPT ![a] = p]
    BY <1>10, BusyFlight
  <2>2. request' = request /\ task' = task
    BY <1>10, Zenon DEF BuildRows, pageVars, taskVars
  <2> QED
    BY <2>1, <2>2, Apart, FlightSame
<1>11. ASSUME NEW a \in Actors, Invoke(a)
       PROVE  OneInFlight'
  <2>1. \E p \in {"idle", "running", "fire"} : pc' = [pc EXCEPT ![a] = p]
    BY <1>11, BusyFlight
  <2>2. request' = request /\ task' = task
    BY <1>11, Zenon DEF Invoke, pageVars, taskVars
  <2> QED
    BY <2>1, <2>2, Apart, FlightSame
<1>12. CASE TaskPoll
  BY <1>12, Zenon DEF TaskPoll, OneInFlight, Pending, pageVars
<1>13. ASSUME NEW ok \in BOOLEAN, NEW follows \in BOOLEAN, Complete(ok, follows)
       PROVE  OneInFlight'
  <2>1. \A t \in Threads : pc[t] # "spawn"
    BY <1>13 DEF Complete, OneInFlight
  <2>2. \A t \in Threads : pc'[t] # "spawn"
    BY <1>13, <2>1, Apart, CompleteWakes, Zenon
  <2> QED
    BY <1>13, <2>2, Zenon DEF Complete, OneInFlight
<1>14. CASE TaskDrop
  BY <1>14, Zenon DEF TaskDrop, OneInFlight, Pending
<1>15. ASSUME NEW r \in Requests, Notify(r)
       PROVE  OneInFlight'
  BY <1>15, Apart, FlightSame, Zenon DEF Notify, pageVars, drainVars, taskVars, doneVars,
     histVars
<1>16. ASSUME NEW r \in Requests, FireDropped(r)
       PROVE  OneInFlight'
  BY <1>16, Apart, FlightSame, Zenon DEF FireDropped, pageVars, drainVars, taskVars,
     doneVars, histVars
<1>17. ASSUME NEW d \in Drainers, DrainStart(d)
       PROVE  OneInFlight'
  BY <1>17, Apart, FlightSame, Zenon DEF DrainStart, pageVars, drainVars, taskVars,
     doneVars, histVars
<1>18. ASSUME NEW d \in Drainers, DrainDrop(d)
       PROVE  OneInFlight'
  BY <1>18, Apart, FlightSame, Zenon DEF DrainDrop, pageVars, drainVars, taskVars,
     doneVars, histVars
<1>19. ASSUME NEW d \in Drainers, DrainNext(d)
       PROVE  OneInFlight'
  BY <1>19, Apart, FlightSame, Zenon DEF DrainNext, pageVars, drainVars, taskVars,
     doneVars, histVars
<1>20. CASE Shutdown
  BY <1>20, Apart, FlightSame, Zenon DEF Shutdown, pageVars, drainVars, taskVars, doneVars,
     histVars
<1>21. CASE Stopped
  BY <1>21, Apart, FlightSame, Zenon DEF Stopped, pageVars, drainVars, taskVars, doneVars,
     histVars
<1>22. CASE UNCHANGED vars
  BY <1>22 DEF OneInFlight, Pending, vars, pageVars, drainVars, taskVars, doneVars, histVars
<1> QED
  BY <1>1, <1>2, <1>3, <1>4, <1>5, <1>6, <1>7, <1>8, <1>9, <1>10, <1>11, <1>12, <1>13,
     <1>14, <1>15, <1>16, <1>17, <1>18, <1>19, <1>20, <1>21, <1>22, Zenon
     DEF Next, ThreadNext, BuildNext, DrainerNext, TaskNext

-----------------------------------------------------------------------------
(* One drainer, and its token. *)

\* A step that neither starts nor ends a drain keeps the token where it is.
LEMMA TokenSame ==
  ASSUME OneDrainer, TokenInv, permit' = permit,
         \A d \in Drainers : Draining(d)' <=> Draining(d),
         queue = <<>> /\ unfired = {} => queue' = <<>> /\ unfired' = {},
         lost \subseteq lost', lost' # {} => runtime' # "up"
  PROVE  OneDrainer' /\ TokenInv'
BY DEF OneDrainer, TokenInv

\* Every step keeps the token parked or with the one drainer.
LEMMA TokenStep ==
  ASSUME TypeInv, OneDrainer, TokenInv, [Next]_vars
  PROVE  OneDrainer' /\ TokenInv'
<1>0. lost # {} => runtime # "up"
  BY Zenon DEF TokenInv
<1> USE Apart DEF TypeInv, TypeOK, ActorTypes
<1>1. ASSUME NEW t \in Threads, NEW c \in Callbacks, Register(t, c)
      PROVE  OneDrainer' /\ TokenInv'
  <2>1. \A d \in Drainers : Draining(d)' <=> Draining(d)
    BY <1>1, Zenon DEF Register, Draining
  <2> QED
    BY <1>1, <1>0, <2>1, TokenSame, Zenon DEF Register, pageVars, drainVars, taskVars,
       doneVars, histVars, Joins
<1>2. ASSUME NEW t \in Threads, ClearCallbacks(t)
      PROVE  OneDrainer' /\ TokenInv'
  BY <1>2, <1>0, TokenSame, Zenon DEF ClearCallbacks, Draining, pageVars, drainVars,
     taskVars, doneVars, histVars
<1>3. ASSUME NEW t \in Threads, WaitRows(t)
      PROVE  OneDrainer' /\ TokenInv'
  <2>1. \A d \in Drainers : Draining(d)' <=> Draining(d)
    BY <1>3, Zenon DEF WaitRows, Draining
  <2> QED
    BY <1>3, <1>0, <2>1, TokenSame, Zenon DEF WaitRows, pageVars, drainVars, taskVars,
       doneVars, histVars
<1>4. ASSUME NEW t \in Threads, WaitWhile(t)
      PROVE  OneDrainer' /\ TokenInv'
  <2>1. \A d \in Drainers : Draining(d)' <=> Draining(d)
    BY <1>4, Zenon DEF WaitWhile, Draining
  <2> QED
    BY <1>4, <1>0, <2>1, TokenSame, Zenon DEF WaitWhile, pageVars, drainVars, taskVars,
       doneVars, histVars
<1>5. ASSUME NEW t \in Threads, SpuriousWakeup(t)
      PROVE  OneDrainer' /\ TokenInv'
  <2>1. \A d \in Drainers : Draining(d)' <=> Draining(d)
    BY <1>5, Zenon DEF SpuriousWakeup, Draining
  <2> QED
    BY <1>5, <1>0, <2>1, TokenSame, Zenon DEF SpuriousWakeup, pageVars, drainVars,
       taskVars, doneVars, histVars
<1>6. ASSUME NEW t \in Threads, Recheck(t)
      PROVE  OneDrainer' /\ TokenInv'
  <2>1. \A d \in Drainers : Draining(d)' <=> Draining(d)
    BY <1>6, Zenon DEF Recheck, Draining
  <2> QED
    BY <1>6, <1>0, <2>1, TokenSame, Zenon DEF Recheck, pageVars, drainVars, taskVars,
       doneVars, histVars
<1>7. ASSUME NEW t \in Threads, StartFetchingNextPage(t)
      PROVE  OneDrainer' /\ TokenInv'
  <2>1. \A d \in Drainers : Draining(d)' <=> Draining(d)
    BY <1>7, Zenon DEF StartFetchingNextPage, Draining
  <2> QED
    BY <1>7, <1>0, <2>1, TokenSame, Zenon DEF StartFetchingNextPage, pageVars, drainVars,
       taskVars, doneVars, histVars, QueueUnfired
<1>8. ASSUME NEW t \in Threads, SpawnRequest(t)
      PROVE  OneDrainer' /\ TokenInv'
  <2>1. \A d \in Drainers : Draining(d)' <=> Draining(d)
    BY <1>8, Zenon DEF SpawnRequest, Draining
  <2> QED
    BY <1>8, <1>0, <2>1, TokenSame, Zenon DEF SpawnRequest, pageVars, drainVars, taskVars,
       doneVars, histVars
<1>9. ASSUME NEW a \in Actors, RowsBuilt(a)
      PROVE  OneDrainer' /\ TokenInv'
  <2>1. pc[a] \in {"build", "fire"}
    BY <1>9 DEF RowsBuilt
  <2>2. \E p \in {"idle", "running", "fire"} :
          pc' = [pc EXCEPT ![a] = p] /\ (a \in Drainers => p # "idle")
    BY <1>9, Zenon DEF RowsBuilt, HandOver, Rest
  <2>3. \A d \in Drainers : Draining(d)' <=> Draining(d)
    BY <2>1, <2>2 DEF Draining
  <2> QED
    BY <1>9, <1>0, <2>3, TokenSame, Zenon DEF RowsBuilt, pageVars, drainVars, taskVars,
       doneVars, histVars
<1>10. ASSUME NEW a \in Actors, NEW ok \in BOOLEAN, BuildRows(a, ok)
       PROVE  OneDrainer' /\ TokenInv'
  <2>1. pc[a] \in {"build", "fire"}
    BY <1>10, Zenon DEF BuildRows
  <2>2. \E p \in {"idle", "running", "fire"} :
          pc' = [pc EXCEPT ![a] = p] /\ (a \in Drainers => p # "idle")
    BY <1>10, Zenon DEF BuildRows, HandOver, Rest
  <2>3. \A d \in Drainers : Draining(d)' <=> Draining(d)
    BY <2>1, <2>2 DEF Draining
  <2> QED
    BY <1>10, <1>0, <2>3, TokenSame, Zenon DEF BuildRows, pageVars, drainVars, taskVars,
       doneVars, histVars
<1>11. ASSUME NEW a \in Actors, Invoke(a)
       PROVE  OneDrainer' /\ TokenInv'
  <2>1. pc[a] \in {"build", "fire"}
    BY <1>11 DEF Invoke
  <2>2. \E p \in {"idle", "running", "fire"} :
          pc' = [pc EXCEPT ![a] = p] /\ (a \in Drainers => p # "idle")
    BY <1>11, Zenon DEF Invoke, HandOver, Rest
  <2>3. \A d \in Drainers : Draining(d)' <=> Draining(d)
    BY <2>1, <2>2 DEF Draining
  <2> QED
    BY <1>11, <1>0, <2>3, TokenSame DEF Invoke, pageVars, drainVars, taskVars, doneVars,
       histVars
<1>12. CASE TaskPoll
  BY <1>12, <1>0, TokenSame DEF TaskPoll, Draining, pageVars, drainVars, taskVars,
     doneVars, histVars
<1>13. ASSUME NEW ok \in BOOLEAN, NEW follows \in BOOLEAN, Complete(ok, follows)
       PROVE  OneDrainer' /\ TokenInv'
  <2>1. CASE UNCHANGED <<permit, pc, lost>> /\ (ForOutcome(ok) = {} \/ ~permit)
    <3>1. permit => queue' = <<>> /\ unfired' = {}
      BY <1>13, <2>1, Zenon DEF Complete, TokenInv
    <3> QED
      BY <1>13, <2>1, <3>1, Zenon DEF Complete, OneDrainer, TokenInv, Draining
  <2>2. ASSUME permit, permit' = FALSE, lost' = lost,
               NEW d \in Drainers, pc[d] = "idle", pc' = [pc EXCEPT ![d] = "queued"]
        PROVE  OneDrainer' /\ TokenInv'
    <3>1. \A e \in Drainers : Draining(e)' <=> e = d
      BY <2>2, Zenon DEF OneDrainer, Draining
    <3> QED
      BY <1>13, <1>0, <2>2, <3>1, Zenon DEF Complete, OneDrainer, TokenInv
  <2>3. CASE permit /\ permit' = FALSE /\ runtime # "up" /\ lost' = lost \cup {"drain"} /\ pc' = pc
    BY <1>13, <2>3, Zenon DEF Complete, OneDrainer, TokenInv, Draining
  <2> QED
    BY <1>13, <2>1, <2>2, <2>3, CompleteWakes, Zenon
<1>14. CASE TaskDrop
  <2>1. lost \subseteq lost' /\ runtime' # "up"
    BY <1>14, Zenon DEF TaskDrop
  <2>2. \A d \in Drainers : Draining(d)' <=> Draining(d)
    BY <1>14, Zenon DEF TaskDrop, Draining
  <2> QED
    BY <1>14, <2>1, <2>2, TokenSame, Zenon DEF TaskDrop, drainVars
<1>15. ASSUME NEW r \in Requests, Notify(r)
       PROVE  OneDrainer' /\ TokenInv'
  <2>1. \A d \in Drainers : Draining(d)' <=> Draining(d)
    BY <1>15, Zenon DEF Notify, Draining
  <2> QED
    BY <1>15, <1>0, <2>1, TokenSame, Zenon DEF Notify, pageVars, drainVars, taskVars,
       doneVars, histVars
<1>16. ASSUME NEW r \in Requests, FireDropped(r)
       PROVE  OneDrainer' /\ TokenInv'
  BY <1>16, <1>0, TokenSame, Zenon DEF FireDropped, Draining, pageVars, drainVars,
     taskVars, doneVars, histVars
<1>17. ASSUME NEW d \in Drainers, DrainStart(d)
       PROVE  OneDrainer' /\ TokenInv'
  <2>1. \A e \in Drainers : Draining(e)' <=> Draining(e)
    BY <1>17, Zenon DEF DrainStart, Draining
  <2> QED
    BY <1>17, <1>0, <2>1, TokenSame, Zenon DEF DrainStart, pageVars, drainVars, taskVars,
       doneVars, histVars
<1>18. ASSUME NEW d \in Drainers, DrainDrop(d)
       PROVE  OneDrainer' /\ TokenInv'
  <2>1. \A e \in Drainers : Draining(e)' => Draining(e)
    BY <1>18, Zenon DEF DrainDrop, Draining
  <2>2. ~permit
    BY <1>18 DEF DrainDrop, OneDrainer, Draining
  <2> QED
    BY <1>18, <2>1, <2>2, Zenon DEF DrainDrop, OneDrainer, TokenInv, pageVars, drainVars,
       taskVars, doneVars, histVars
<1>19. ASSUME NEW d \in Drainers, DrainNext(d)
       PROVE  OneDrainer' /\ TokenInv'
  <2>1. Draining(d) /\ ~permit
    BY <1>19, Zenon DEF DrainNext, OneDrainer, Draining
  <2>2. CASE queue = <<>> /\ unfired = {} /\ permit' = TRUE /\ pc' = [pc EXCEPT ![d] = "idle"]
             /\ UNCHANGED <<queue, unfired, job>>
    <3>1. \A e \in Drainers : ~Draining(e)'
      BY <2>1, <2>2, Zenon DEF OneDrainer, Draining
    <3> QED
      BY <1>19, <1>0, <2>2, <3>1, Zenon DEF DrainNext, OneDrainer, TokenInv, taskVars, histVars
  <2>3. CASE permit' = permit /\ pc' = [pc EXCEPT ![d] = "build"]
    <3>1. \A e \in Drainers : Draining(e)' <=> Draining(e)
      BY <1>19, <2>3, Zenon DEF DrainNext, Draining
    <3> QED
      BY <1>19, <1>0, <2>1, <2>3, <3>1, Zenon DEF DrainNext, OneDrainer, TokenInv,
         taskVars, histVars
  <2> QED
    BY <1>19, <2>2, <2>3, DrainTakes, Zenon
<1>20. CASE Shutdown
  BY <1>20, <1>0, TokenSame, Zenon DEF Shutdown, Draining, pageVars, drainVars, taskVars,
     doneVars, histVars
<1>21. CASE Stopped
  BY <1>21, <1>0, TokenSame, Zenon DEF Stopped, Draining, pageVars, drainVars, taskVars,
     doneVars, histVars
<1>22. CASE UNCHANGED vars
  <2>1. \A d \in Drainers : Draining(d)' <=> Draining(d)
    BY <1>22, Zenon DEF Draining, vars
  <2> QED
    BY <1>22, <1>0, <2>1, TokenSame, Zenon DEF vars, pageVars, drainVars, taskVars,
       doneVars, histVars
<1> QED
  BY <1>1, <1>2, <1>3, <1>4, <1>5, <1>6, <1>7, <1>8, <1>9, <1>10, <1>11, <1>12, <1>13,
     <1>14, <1>15, <1>16, <1>17, <1>18, <1>19, <1>20, <1>21, <1>22, Zenon
     DEF Next, ThreadNext, BuildNext, DrainerNext, TaskNext

-----------------------------------------------------------------------------
(* Waiters and callbacks of a settled request. *)

\* A step that settles no request and notifies nobody keeps the waiters covered.
LEMMA CoveredSame ==
  ASSUME WaiterCovered, request' = request, notes' = notes,
         \A t \in Threads : pc'[t] = "waiting" => pc[t] = "waiting" \/ Pending
  PROVE  WaiterCovered'
BY Zenon DEF WaiterCovered, Pending

\* A completion that finds a thread in the condvar has waiters to notify.
LEMMA SettleCovers ==
  ASSUME TypeInv, notes' = [notes EXCEPT ![current] = waiters],
         \A t \in Threads : pc'[t] = pc[t]
  PROVE  WaiterCovered'
<1> SUFFICES ASSUME NEW t \in Threads, pc[t] = "waiting"
             PROVE  \E r \in Requests : notes'[r] > 0
  BY Zenon DEF WaiterCovered
<1>1. t \in Counted
  BY Zenon DEF Counted
<1>2. waiters > 0
  BY <1>1, NumberedSome, Zenon DEF TypeInv
<1>3. current \in Requests /\ notes'[current] = waiters
  BY DEF TypeInv, TypeOK, PageTypes, ActorTypes
<1> QED
  BY <1>2, <1>3, Zenon

\* Every step keeps a waiter covered by a notification to come.
LEMMA CoveredStep ==
  ASSUME TypeInv, WaiterCovered, [Next]_vars
  PROVE  WaiterCovered'
<1> USE Apart DEF TypeInv, TypeOK, ActorTypes
<1>1. ASSUME NEW t \in Threads, NEW c \in Callbacks, Register(t, c)
      PROVE  WaiterCovered'
  BY <1>1, CoveredSame, Zenon DEF Register, pageVars, drainVars, taskVars, doneVars, histVars
<1>2. ASSUME NEW t \in Threads, ClearCallbacks(t)
      PROVE  WaiterCovered'
  BY <1>2, CoveredSame, Zenon DEF ClearCallbacks, pageVars, drainVars, taskVars, doneVars,
     histVars
<1>3. ASSUME NEW t \in Threads, WaitRows(t)
      PROVE  WaiterCovered'
  BY <1>3, CoveredSame, Zenon DEF WaitRows, pageVars, drainVars, taskVars, doneVars, histVars
<1>4. ASSUME NEW t \in Threads, WaitWhile(t)
      PROVE  WaiterCovered'
  BY <1>4, CoveredSame, Zenon DEF WaitWhile, pageVars, drainVars, taskVars, doneVars, histVars
<1>5. ASSUME NEW t \in Threads, SpuriousWakeup(t)
      PROVE  WaiterCovered'
  BY <1>5, CoveredSame, Zenon DEF SpuriousWakeup, pageVars, drainVars, taskVars, doneVars,
     histVars
<1>6. ASSUME NEW t \in Threads, Recheck(t)
      PROVE  WaiterCovered'
  BY <1>6, CoveredSame, Zenon DEF Recheck, pageVars, drainVars, taskVars, doneVars, histVars
<1>7. ASSUME NEW t \in Threads, StartFetchingNextPage(t)
      PROVE  WaiterCovered'
  BY <1>7, Zenon DEF StartFetchingNextPage, WaiterCovered, Pending
<1>8. ASSUME NEW t \in Threads, SpawnRequest(t)
      PROVE  WaiterCovered'
  BY <1>8, CoveredSame, Zenon DEF SpawnRequest, pageVars, drainVars, taskVars, doneVars,
     histVars
<1>9. ASSUME NEW a \in Actors, RowsBuilt(a)
      PROVE  WaiterCovered'
  <2>1. \E p \in {"idle", "running", "fire"} : pc' = [pc EXCEPT ![a] = p]
    BY <1>9, BusyFlight, Zenon
  <2>2. request' = request /\ notes' = notes
    BY <1>9, Zenon DEF RowsBuilt, pageVars, doneVars
  <2> QED
    BY <2>1, <2>2, CoveredSame, Zenon
<1>10. ASSUME NEW a \in Actors, NEW ok \in BOOLEAN, BuildRows(a, ok)
       PROVE  WaiterCovered'
  <2>1. \E p \in {"idle", "running", "fire"} : pc' = [pc EXCEPT ![a] = p]
    BY <1>10, BusyFlight
  <2>2. request' = request /\ notes' = notes
    BY <1>10, Zenon DEF BuildRows, pageVars, doneVars
  <2> QED
    BY <2>1, <2>2, CoveredSame, Zenon
<1>11. ASSUME NEW a \in Actors, Invoke(a)
       PROVE  WaiterCovered'
  <2>1. \E p \in {"idle", "running", "fire"} : pc' = [pc EXCEPT ![a] = p]
    BY <1>11, BusyFlight
  <2>2. request' = request /\ notes' = notes
    BY <1>11, Zenon DEF Invoke, pageVars, doneVars
  <2> QED
    BY <2>1, <2>2, CoveredSame
<1>12. CASE TaskPoll
  BY <1>12, CoveredSame, Zenon DEF TaskPoll, pageVars, drainVars, taskVars, doneVars, histVars
<1>13. ASSUME NEW ok \in BOOLEAN, NEW follows \in BOOLEAN, Complete(ok, follows)
       PROVE  WaiterCovered'
  <2>1. \A t \in Threads : pc'[t] = pc[t]
    BY <1>13, CompleteWakes, Zenon
  <2>2. notes' = [notes EXCEPT ![current] = waiters]
    BY <1>13 DEF Complete
  <2> QED
    BY <2>1, <2>2, SettleCovers
<1>14. CASE TaskDrop
  <2>1. CASE task = "polled" /\ Pending
    BY <1>14, <2>1, SettleCovers, Zenon DEF TaskDrop
  <2>2. CASE ~(task = "polled" /\ Pending)
    BY <1>14, <2>2, CoveredSame, Zenon DEF TaskDrop, doneVars
  <2> QED
    BY <2>1, <2>2, Zenon
<1>15. ASSUME NEW r \in Requests, Notify(r)
       PROVE  WaiterCovered'
  <2>1. \A t \in Threads : pc'[t] # "waiting"
    BY <1>15, Zenon DEF Notify
  <2> QED
    BY <2>1, Zenon DEF WaiterCovered
<1>16. ASSUME NEW r \in Requests, FireDropped(r)
       PROVE  WaiterCovered'
  BY <1>16, CoveredSame, Zenon DEF FireDropped, pageVars, drainVars, taskVars, doneVars,
     histVars
<1>17. ASSUME NEW d \in Drainers, DrainStart(d)
       PROVE  WaiterCovered'
  BY <1>17, CoveredSame, Zenon DEF DrainStart, pageVars, drainVars, taskVars, doneVars, histVars
<1>18. ASSUME NEW d \in Drainers, DrainDrop(d)
       PROVE  WaiterCovered'
  BY <1>18, CoveredSame, Zenon DEF DrainDrop, pageVars, drainVars, taskVars, doneVars, histVars
<1>19. ASSUME NEW d \in Drainers, DrainNext(d)
       PROVE  WaiterCovered'
  <2>1. \E p \in {"idle", "build"} : pc' = [pc EXCEPT ![d] = p]
    BY <1>19, DrainTakes, Zenon
  <2> QED
    BY <1>19, <2>1, CoveredSame DEF DrainNext, doneVars
<1>20. CASE Shutdown
  BY <1>20, CoveredSame, Zenon DEF Shutdown, pageVars, drainVars, taskVars, doneVars, histVars
<1>21. CASE Stopped
  BY <1>21, CoveredSame, Zenon DEF Stopped, pageVars, drainVars, taskVars, doneVars, histVars
<1>22. CASE UNCHANGED vars
  BY <1>22, CoveredSame DEF vars, pageVars, drainVars, taskVars, doneVars, histVars
<1> QED
  BY <1>1, <1>2, <1>3, <1>4, <1>5, <1>6, <1>7, <1>8, <1>9, <1>10, <1>11, <1>12, <1>13,
     <1>14, <1>15, <1>16, <1>17, <1>18, <1>19, <1>20, <1>21, <1>22, Zenon
     DEF Next, ThreadNext, BuildNext, DrainerNext, TaskNext

\* Every step leaves a future that nothing can fire again without callbacks.
LEMMA ReleasedStep ==
  ASSUME TypeInv, OneInFlight, CallbacksReleased, [Next]_vars
  PROVE  CallbacksReleased'
<1> USE DEF CallbacksReleased, Terminal, Pending
<1>1. ASSUME NEW t \in Threads, NEW c \in Callbacks, Register(t, c)
      PROVE  CallbacksReleased'
  BY <1>1 DEF Register, Keep
<1>2. ASSUME NEW t \in Threads, ClearCallbacks(t)
      PROVE  CallbacksReleased'
  BY <1>2, Zenon DEF ClearCallbacks, pageVars
<1>3. ASSUME NEW t \in Threads, WaitRows(t)
      PROVE  CallbacksReleased'
  BY <1>3, Zenon DEF WaitRows, pageVars
<1>4. ASSUME NEW t \in Threads, WaitWhile(t)
      PROVE  CallbacksReleased'
  BY <1>4, Zenon DEF WaitWhile, pageVars
<1>5. ASSUME NEW t \in Threads, SpuriousWakeup(t)
      PROVE  CallbacksReleased'
  BY <1>5, Zenon DEF SpuriousWakeup, pageVars
<1>6. ASSUME NEW t \in Threads, Recheck(t)
      PROVE  CallbacksReleased'
  BY <1>6, Zenon DEF Recheck, pageVars
<1>7. ASSUME NEW t \in Threads, StartFetchingNextPage(t)
      PROVE  CallbacksReleased'
  BY <1>7, Zenon DEF StartFetchingNextPage, pageVars
<1>8. ASSUME NEW t \in Threads, SpawnRequest(t)
      PROVE  CallbacksReleased'
  BY <1>8, Zenon DEF SpawnRequest, pageVars
<1>9. ASSUME NEW a \in Actors, RowsBuilt(a)
      PROVE  CallbacksReleased'
  BY <1>9, Zenon DEF RowsBuilt, pageVars
<1>10. ASSUME NEW a \in Actors, NEW ok \in BOOLEAN, BuildRows(a, ok)
       PROVE  CallbacksReleased'
  BY <1>10, Zenon DEF BuildRows, pageVars
<1>11. ASSUME NEW a \in Actors, Invoke(a)
       PROVE  CallbacksReleased'
  BY <1>11 DEF Invoke, pageVars
<1>12. CASE TaskPoll
  BY <1>12, Zenon DEF TaskPoll, pageVars
<1>13. ASSUME NEW ok \in BOOLEAN, NEW follows \in BOOLEAN, Complete(ok, follows)
       PROVE  CallbacksReleased'
  BY <1>13, Zenon DEF Complete
<1>14. CASE TaskDrop
  BY <1>14, Zenon DEF TaskDrop, OneInFlight
<1>15. ASSUME NEW r \in Requests, Notify(r)
       PROVE  CallbacksReleased'
  BY <1>15, Zenon DEF Notify, pageVars
<1>16. ASSUME NEW r \in Requests, FireDropped(r)
       PROVE  CallbacksReleased'
  BY <1>16 DEF FireDropped, pageVars
<1>17. ASSUME NEW d \in Drainers, DrainStart(d)
       PROVE  CallbacksReleased'
  BY <1>17, Zenon DEF DrainStart, pageVars
<1>18. ASSUME NEW d \in Drainers, DrainDrop(d)
       PROVE  CallbacksReleased'
  BY <1>18, Zenon DEF DrainDrop, pageVars
<1>19. ASSUME NEW d \in Drainers, DrainNext(d)
       PROVE  CallbacksReleased'
  BY <1>19 DEF DrainNext, pageVars
<1>20. CASE Shutdown
  BY <1>20, Zenon DEF Shutdown, pageVars
<1>21. CASE Stopped
  BY <1>21, Zenon DEF Stopped, pageVars
<1>22. CASE UNCHANGED vars
  BY <1>22 DEF vars, pageVars
<1> QED
  BY <1>1, <1>2, <1>3, <1>4, <1>5, <1>6, <1>7, <1>8, <1>9, <1>10, <1>11, <1>12, <1>13,
     <1>14, <1>15, <1>16, <1>17, <1>18, <1>19, <1>20, <1>21, <1>22, Zenon
     DEF Next, ThreadNext, BuildNext, DrainerNext, TaskNext

-----------------------------------------------------------------------------
(* The invariant, and what it gives. *)

\* ActorInv is an invariant: it holds of a new future, and every step keeps it.
THEOREM ActorInvariance == Spec => []ActorInv
<1>1. Init => ActorInv
  <2> SUFFICES ASSUME Init PROVE ActorInv
    OBVIOUS
  <2>1. TypeInv
    BY TypesInit, Zenon
  <2>2. OneInFlight /\ OneDrainer /\ TokenInv
    BY Apart, Zenon DEF Init, OneInFlight, OneDrainer, TokenInv, Draining, Pending
  <2>3. WaiterCovered /\ CallbacksReleased
    BY DEF Init, WaiterCovered, CallbacksReleased, Pending
  <2> QED
    BY <2>1, <2>2, <2>3 DEF ActorInv
<1>2. ActorInv /\ [Next]_vars => ActorInv'
  BY TypesStep, FlightStep, TokenStep, CoveredStep, ReleasedStep DEF ActorInv
<1> QED
  BY <1>1, <1>2, PTL DEF Spec

\* The variables of a ResponseFuture have their types: the count of waiters is a
\* natural number whatever threads wait, wake and leave.
THEOREM ResponseTypes == Spec => []TypeOK
<1>1. ActorInv => TypeOK
  BY DEF ActorInv, TypeInv
<1> QED
  BY <1>1, ActorInvariance, PTL

\* However many threads page the future, one request is in flight at a time, and
\* settle only ever finds a pending state.
THEOREM ResponseOneInFlight == Spec => []OneInFlight
<1>1. ActorInv => OneInFlight
  BY DEF ActorInv
<1> QED
  BY <1>1, ActorInvariance, PTL

\* Two drainers never run at once, and the token is parked exactly while none does.
THEOREM ResponseOneDrainer == Spec => []OneDrainer
<1>1. ActorInv => OneDrainer
  BY DEF ActorInv
<1> QED
  BY <1>1, ActorInvariance, PTL

\* Callbacks that wait to run have a drainer that will run them, unless a runtime
\* that shuts down dropped it.
THEOREM ResponseDrainerCovers == Spec => []DrainerCovers
<1>1. ActorInv => DrainerCovers
  BY DEF ActorInv, TokenInv, DrainerCovers
<1> QED
  BY <1>1, ActorInvariance, PTL

\* A thread blocked in result() once its request settled has a notification to come.
THEOREM ResponseWaiterCovered == Spec => []WaiterCovered
<1>1. ActorInv => WaiterCovered
  BY DEF ActorInv
<1> QED
  BY <1>1, ActorInvariance, PTL

\* A future that nothing can fire again keeps no callback.
THEOREM ResponseCallbacksReleased == Spec => []CallbacksReleased
<1>1. ActorInv => CallbacksReleased
  BY DEF ActorInv
<1> QED
  BY <1>1, ActorInvariance, PTL
=============================================================================

------------------------------- MODULE Paging -------------------------------
(***************************************************************************)
(* A RequestResult and the ways to read it (src/src/core/results.rs,       *)
(* src/src/results/): an AsyncRowsIterator and an AsyncPagesIterator that  *)
(* several tasks advance at once, and reads (first_row, all,               *)
(* Page.fetch_next_page) that go their own way on a clone of the pager.    *)
(* A fetch is an await: it may fail, and its future may be dropped there.  *)
(* A pager stands at the number of the page it fetches next: past the last *)
(* page for NoMorePages, 0 for PagerState::Unpaged.                        *)
(***************************************************************************)
EXTENDS Concatenation, Functions

CONSTANTS PageRows,   \* the rows of each page the server has
          Tasks,      \* what awaits __anext__, first_row, all, fetch_next_page
          MaxTraces   \* fetches recorded in the trace log

Pages == DOMAIN PageRows
AllRows == Concat(PageRows)

ASSUME PagesAssumption == PageRows \in Seq(Seq(Nat)) /\ Pages # {}
ASSUME TasksAssumption == "none" \notin Tasks

VARIABLES
  rows,       \* AsyncIteratorState: rows left of the page, and the pager
  rowsLock,   \* the task that holds its mutex, or "none"
  given,      \* history: the rows the iterator gave, in the order it gave them
  rowsEnd,    \* history: "open", "stopped" or "failed"
  pages,      \* PagesState: whether the first page is still there, and the pager
  pagesLock,
  finished,   \* AsyncPagesIterator.finished
  pagesGiven, \* history: the pages handed to Python
  lost,       \* history: the pages that failed to resolve
  clone,      \* the pager and the rows of a task that reads by itself
  results,    \* history: what such reads returned
  traces,     \* TraceLog: the page of each recorded id
  at          \* where each task is

rowsVars == <<rows, rowsLock, given, rowsEnd>>
pagesVars == <<pages, pagesLock, finished, pagesGiven, lost>>
cloneVars == <<clone, results>>
pagingVars == <<rowsVars, pagesVars, cloneVars, traces, at>>

HasMorePages(p) == p \in Pages

\* A task that does not read by itself.
NoClone == [wants |-> "all", list |-> << >>, pager |-> 0]

\* TraceLog::record, of a traced query.
Record(p) == traces' = Append(traces, p)
CanTrace == Len(traces) < MaxTraces

\* A fetch of page p that ends in an error: the request failed, or the page came,
\* and was recorded, and its rows could not be read.
FailedFetch(p) == UNCHANGED traces \/ (CanTrace /\ Record(p))

PagingInit ==
  /\ rows = [left |-> PageRows[1], pager |-> 2] /\ rowsLock = "none"
  /\ given = << >> /\ rowsEnd = "open"
  /\ pages = [first |-> TRUE, pager |-> 2] /\ pagesLock = "none" /\ finished = FALSE
  /\ pagesGiven = << >> /\ lost = {}
  /\ clone = [t \in Tasks |-> NoClone]
  /\ results = {}
  /\ traces = <<1>>
  /\ at = [t \in Tasks |-> "idle"]

Goto(t, place) == at' = [at EXCEPT ![t] = place]

-----------------------------------------------------------------------------
(* AsyncRowsIterator *)

\* Mutant: an error empties the page but leaves the pager where it is.
FinishKeepingPager ==
  /\ rows' = [rows EXCEPT !.left = << >>]
  /\ rowsEnd' = IF rowsEnd = "open" THEN "failed" ELSE rowsEnd

\* AsyncIteratorState::finish: an error ends the iteration for all tasks.
Finish ==
  /\ rows' = [left |-> << >>, pager |-> 0]
  /\ rowsEnd' = IF rowsEnd = "open" THEN "failed" ELSE rowsEnd

\* The next row of the page: handed out, or it fails to deserialize.
NextRow(left, pager) ==
  \/ /\ given' = Append(given, Head(left))
     /\ rows' = [left |-> Tail(left), pager |-> pager]
     /\ UNCHANGED rowsEnd
  \/ Finish /\ UNCHANGED given

\* __anext__: a row of the page, if the mutex is free; a future otherwise.
RowsNext(t) ==
  /\ at[t] = "idle"
  /\ IF rowsLock = "none" /\ rows.left # << >>
       THEN NextRow(rows.left, rows.pager) /\ UNCHANGED at
       ELSE Goto(t, "rows: lock") /\ UNCHANGED <<rows, given, rowsEnd>>
  /\ UNCHANGED <<rowsLock, pagesVars, cloneVars, traces>>

\* next_row_with_paging from a page with these rows: a row, the next fetch, or
\* the end; the mutex is kept across the fetch.
RowOrFetch(t, left, pager) ==
  IF left # << >>
    THEN NextRow(left, pager) /\ rowsLock' = "none" /\ Goto(t, "idle")
    ELSE /\ rows' = [left |-> << >>, pager |-> pager]
         /\ UNCHANGED given
         /\ IF HasMorePages(pager)
              THEN rowsLock' = t /\ Goto(t, "rows: fetch") /\ UNCHANGED rowsEnd
              ELSE /\ rowsLock' = "none" /\ Goto(t, "idle")
                   /\ rowsEnd' = IF rowsEnd = "open" THEN "stopped" ELSE rowsEnd

RowsLock(t) ==
  /\ at[t] = "rows: lock" /\ rowsLock = "none"
  /\ RowOrFetch(t, rows.left, rows.pager)
  /\ UNCHANGED <<pagesVars, cloneVars, traces>>

\* The fetch answered: only now the pager moves on.
RowsFetched(t) ==
  /\ at[t] = "rows: fetch" /\ CanTrace
  /\ Record(rows.pager)
  /\ RowOrFetch(t, PageRows[rows.pager], rows.pager + 1)
  /\ UNCHANGED <<pagesVars, cloneVars>>

\* The fetch failed, or the page could not be bound to the row factory.
RowsFetchFails(t) ==
  /\ at[t] = "rows: fetch"
  /\ FailedFetch(rows.pager)
  /\ Finish /\ rowsLock' = "none" /\ Goto(t, "idle")
  /\ UNCHANGED <<given, pagesVars, cloneVars>>

-----------------------------------------------------------------------------
(* AsyncPagesIterator *)

\* __anext__: the first page, if nobody took it; a future otherwise.
PagesNext(t) ==
  /\ at[t] = "idle"
  /\ IF pagesLock = "none" /\ pages.first
       THEN /\ pagesGiven' = Append(pagesGiven, 1)
            /\ pages' = [pages EXCEPT !.first = FALSE]
            /\ UNCHANGED at
       ELSE Goto(t, "pages: lock") /\ UNCHANGED <<pages, pagesGiven>>
  /\ UNCHANGED <<rowsVars, pagesLock, finished, lost, cloneVars, traces>>

PagesLock(t) ==
  /\ at[t] = "pages: lock" /\ pagesLock = "none"
  /\ IF ~finished /\ HasMorePages(pages.pager)
       THEN pagesLock' = t /\ Goto(t, "pages: fetch")
       ELSE UNCHANGED pagesLock /\ Goto(t, "idle")
  /\ UNCHANGED <<rowsVars, pages, finished, pagesGiven, lost, cloneVars, traces>>

\* The page is fetched and the mutex released; the page is bound to the row
\* factory when it reaches Python.
PagesFetched(t) ==
  /\ at[t] = "pages: fetch" /\ CanTrace
  /\ Record(pages.pager)
  /\ pages' = [pages EXCEPT !.pager = @ + 1]
  /\ pagesLock' = "none"
  /\ clone' = [clone EXCEPT ![t].pager = pages.pager]
  /\ Goto(t, "pages: resolve")
  /\ UNCHANGED <<rowsVars, finished, pagesGiven, lost, results>>

PagesFetchFails(t) ==
  /\ at[t] = "pages: fetch"
  /\ finished' = TRUE /\ pagesLock' = "none" /\ Goto(t, "idle")
  /\ UNCHANGED <<rowsVars, pages, pagesGiven, lost, cloneVars, traces>>

\* IteratedPage::into_pyobject.
ResolvePage(t) ==
  /\ at[t] = "pages: resolve"
  /\ \/ /\ pagesGiven' = Append(pagesGiven, clone[t].pager)
        /\ UNCHANGED <<finished, lost>>
     \/ /\ finished' = TRUE /\ lost' = lost \cup {clone[t].pager}
        /\ UNCHANGED pagesGiven
  /\ clone' = [clone EXCEPT ![t].pager = 0]
  /\ Goto(t, "idle")
  /\ UNCHANGED <<rowsVars, pages, pagesLock, results, traces>>

-----------------------------------------------------------------------------
(* Reads on a clone of the pager. *)

\* What a read of the rows from the first page has left to do: fetch, or return.
CloneStep(t, wants, list, pager) ==
  IF (wants = "first" /\ list # << >>) \/ ~HasMorePages(pager)
    THEN /\ results' = results \cup {<<wants, IF wants = "first" /\ list # << >>
                                              THEN <<Head(list)>> ELSE list>>}
         /\ clone' = [clone EXCEPT ![t] = NoClone]
         /\ Goto(t, "idle")
    ELSE /\ clone' = [clone EXCEPT ![t] = [wants |-> wants, list |-> list, pager |-> pager]]
         /\ Goto(t, "clone: fetch")
         /\ UNCHANGED results

\* first_row and all.
ReadRows(t, wants) ==
  /\ at[t] = "idle"
  /\ CloneStep(t, wants, PageRows[1], 2)
  /\ UNCHANGED <<rowsVars, pagesVars, traces>>

\* Page.fetch_next_page of a page p handed to Python.
FetchAfter(t, p) ==
  /\ at[t] = "idle" /\ p \in Range(pagesGiven) /\ HasMorePages(p + 1)
  /\ clone' = [clone EXCEPT ![t] = [wants |-> "page", list |-> << >>, pager |-> p + 1]]
  /\ Goto(t, "clone: fetch")
  /\ UNCHANGED <<rowsVars, pagesVars, results, traces>>

CloneFetched(t) ==
  /\ at[t] = "clone: fetch" /\ CanTrace
  /\ Record(clone[t].pager)
  /\ LET c == clone[t] IN
       IF c.wants = "page"
         THEN /\ clone' = [clone EXCEPT ![t] = NoClone]
              /\ Goto(t, "idle") /\ UNCHANGED results
         ELSE CloneStep(t, c.wants, c.list \o PageRows[c.pager], c.pager + 1)
  /\ UNCHANGED <<rowsVars, pagesVars>>

CloneFails(t) ==
  /\ at[t] = "clone: fetch"
  /\ FailedFetch(clone[t].pager)
  /\ clone' = [clone EXCEPT ![t] = NoClone]
  /\ Goto(t, "idle")
  /\ UNCHANGED <<rowsVars, pagesVars, results>>

\* The future of a task is dropped where it awaits; a mutex it holds is released.
Cancel(t) ==
  /\ at[t] \in {"rows: lock", "rows: fetch", "pages: lock", "pages: fetch"}
  /\ rowsLock' = IF rowsLock = t THEN "none" ELSE rowsLock
  /\ pagesLock' = IF pagesLock = t THEN "none" ELSE pagesLock
  /\ Goto(t, "idle")
  /\ UNCHANGED <<rows, given, rowsEnd, pages, finished, pagesGiven, lost, cloneVars, traces>>

PagingNext ==
  \E t \in Tasks :
    \/ RowsNext(t) \/ RowsLock(t) \/ RowsFetched(t) \/ RowsFetchFails(t)
    \/ PagesNext(t) \/ PagesLock(t) \/ PagesFetched(t) \/ PagesFetchFails(t) \/ ResolvePage(t)
    \/ \E wants \in {"first", "all"} : ReadRows(t, wants)
    \/ \E p \in Pages : FetchAfter(t, p)
    \/ CloneFetched(t) \/ CloneFails(t) \/ Cancel(t)

PagingSpec == PagingInit /\ [][PagingNext]_pagingVars

-----------------------------------------------------------------------------

\* Whichever tasks advance an AsyncRowsIterator, and whichever of them are
\* cancelled while a page is fetched, it gives every row once and in order; it
\* stops only after the last one, and after an error it gives none. first_row and
\* all see the whole result whatever was read before.
RowsOnceInOrder ==
  /\ Len(given) <= Len(AllRows) /\ given = SubSeq(AllRows, 1, Len(given))
  /\ rowsEnd = "stopped" => given = AllRows
  /\ rowsEnd = "failed" => rows.left = << >> /\ ~HasMorePages(rows.pager)
  /\ \A r \in results :
       r[2] = IF r[1] = "all" \/ AllRows = << >> THEN AllRows ELSE <<Head(AllRows)>>

\* An AsyncPagesIterator hands every page to one task: a page that was fetched is
\* handed out, on its way, or failed to resolve, and the pager stands after it.
PagesOnce ==
  LET way == {clone[t].pager : t \in {u \in Tasks : at[u] = "pages: resolve"}} IN
  /\ IsInjective(pagesGiven)
  /\ lost \cap Range(pagesGiven) = {} /\ way \cap (lost \cup Range(pagesGiven)) = {}
  /\ lost \cup way \cup Range(pagesGiven) \cup {p \in {1} : pages.first} = 1..(pages.pager - 1)
=============================================================================

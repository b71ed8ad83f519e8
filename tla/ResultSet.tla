------------------------------ MODULE ResultSet ------------------------------
(***************************************************************************)
(* The legacy ResultSet (src/src/legacy/result_set.rs) over its            *)
(* ResponseFuture: one thread iterates, restarts, drains, indexes and      *)
(* pages by hand in any order, while pages arrive, fail, or arrive with    *)
(* rows that cannot be built. Of the future, which ResponseFuture models,  *)
(* only the last page received and the request in flight matter here.      *)
(***************************************************************************)
EXTENDS Concatenation

CONSTANT SetPages   \* the rows of each page of the result

SetLen == Len(SetPages)

ASSUME SetPagesAssumption == SetPages \in Seq(Seq(Nat)) /\ SetLen > 0

VARIABLES
  mode,      \* "NotStarted", "Iterating" or "List"
  position,  \* of Iterating: rows of current_rows yielded
  current,   \* current_rows
  received,  \* the last page the future received
  request,   \* "none", "pending", "ok" or "failed": the request of the reader
  op,        \* what the reader is in: "none", "next", "all", "list" or "fetch"
  list,      \* what a drain has collected
  start,     \* history: the page iterating began at
  shown,     \* history: the page current_rows is, one past the last when cleared
  yielded,   \* history: the rows yielded since then
  skipped    \* history: pages whose rows could not be built

futureVars == <<received, request>>
setVars == <<mode, position, current, futureVars, op, list, start, shown, yielded, skipped>>

HasMore == received < SetLen
Idle == op = "none"

SetInit ==
  /\ mode = "NotStarted" /\ position = 0 /\ current = SetPages[1]
  /\ received = 1 /\ request = "none"
  /\ op = "none" /\ list = << >>
  /\ start = 1 /\ shown = 1 /\ yielded = << >> /\ skipped = {}

\* Mode::Iterating(0): the current page again from its first row.
Restart == mode' = "Iterating" /\ position' = 0 /\ start' = shown /\ yielded' = << >>

\* IterState::start_page.
StartPage(rows, page) ==
  /\ current' = rows /\ mode' = "Iterating" /\ position' = 0 /\ shown' = page

\* A call returns, or raises.
Return == op' = "none" /\ list' = << >>

\* __iter__
Iter ==
  /\ Idle /\ mode # "List"
  /\ Restart
  /\ UNCHANGED <<current, futureVars, op, list, shown, skipped>>

\* __next__; it raises TypeError in list mode.
CallNext ==
  /\ Idle /\ mode # "List"
  /\ mode' = "Iterating" /\ op' = "next"
  /\ UNCHANGED <<position, current, futureVars, list, start, shown, yielded, skipped>>

\* all() drains from the start of the current page; in list mode it copies the list.
CallAll ==
  /\ Idle /\ mode # "List"
  /\ Restart /\ op' = "all"
  /\ UNCHANGED <<current, futureVars, list, shown, skipped>>

\* == and indexing drain it too, and keep the list; a set that was iterated raises.
CallList ==
  /\ Idle /\ mode = "NotStarted"
  /\ Restart /\ op' = "list"
  /\ UNCHANGED <<current, futureVars, list, shown, skipped>>

\* fetch_next_page, called by hand.
CallFetch ==
  /\ Idle
  /\ IF HasMore
       THEN /\ op' = "fetch" /\ request' = "pending"
            /\ UNCHANGED <<position, current, received, start, shown, yielded>>
       ELSE /\ current' = << >> /\ position' = 0
            /\ shown' = SetLen + 1 /\ start' = SetLen + 1 /\ yielded' = << >>
            /\ UNCHANGED <<op, futureVars>>
  /\ UNCHANGED <<mode, list, skipped>>

\* step, when there is a row: next returns it, a drain goes on.
StepRow ==
  /\ op \in {"next", "all", "list"} /\ request = "none" /\ position < Len(current)
  /\ position' = position + 1
  /\ yielded' = Append(yielded, current[position + 1])
  /\ IF op = "next" THEN Return
     ELSE list' = Append(list, current[position + 1]) /\ UNCHANGED op
  /\ UNCHANGED <<mode, current, futureVars, start, shown, skipped>>

\* step, at the end of a page that is not the last; next_row then asks for more.
StepFetch ==
  /\ op \in {"next", "all", "list"} /\ request = "none" /\ position >= Len(current) /\ HasMore
  /\ request' = "pending"
  /\ UNCHANGED <<mode, position, current, received, op, list, start, shown, yielded, skipped>>

\* step, at the end of the last page: the rows are cleared, and a drain returns;
\* enter_list_mode makes its list the rows.
StepEnd ==
  /\ op \in {"next", "all", "list"} /\ request = "none" /\ position >= Len(current) /\ ~HasMore
  /\ IF op = "list"
       THEN mode' = "List" /\ current' = list /\ UNCHANGED <<position, shown>>
       ELSE StartPage(<< >>, SetLen + 1)
  /\ Return
  /\ UNCHANGED <<futureVars, start, yielded, skipped>>

\* The request of the reader completes. An error keeps the last page.
Complete ==
  /\ request = "pending"
  /\ \/ request' = "ok" /\ received' = received + 1
     \/ request' = "failed" /\ UNCHANGED received
  /\ UNCHANGED <<mode, position, current, op, list, start, shown, yielded, skipped>>

\* wait_rows returns the rows of the page.
Continue ==
  /\ request = "ok" /\ request' = "none"
  /\ IF op = "fetch"
       THEN /\ current' = SetPages[received] /\ position' = 0 /\ shown' = received
            /\ start' = received /\ yielded' = << >>
            /\ Return /\ UNCHANGED mode
       ELSE /\ StartPage(SetPages[received], received)
            /\ UNCHANGED <<op, list, start, yielded>>
  /\ UNCHANGED <<received, skipped>>

\* wait_rows raises, for the request or because the rows cannot be built; the set
\* stays at the end of its page.
Raise ==
  /\ request \in {"ok", "failed"} /\ request' = "none"
  /\ skipped' = IF request = "ok" THEN skipped \cup {received} ELSE skipped
  /\ Return
  /\ UNCHANGED <<mode, position, current, received, start, shown, yielded>>

SetNext ==
  \/ Iter \/ CallNext \/ CallAll \/ CallList \/ CallFetch
  \/ StepRow \/ StepFetch \/ StepEnd
  \/ Complete \/ Continue \/ Raise

SetSpec == SetInit /\ [][SetNext]_setVars

-----------------------------------------------------------------------------

\* The rows of the pages from a to b, those that could not be built left out.
RowsFrom(a, b) ==
  Concat([i \in 1..(b - a + 1) |->
    IF a + i - 1 \in skipped THEN << >> ELSE SetPages[a + i - 1]])

\* In whatever order a ResultSet is iterated, restarted, drained, paged by hand and
\* read after errors, it yields the rows of the result in order and once, from the
\* page it was last started at; a page is left out only if its rows raised; and
\* == and indexing work on all of them.
ResultSetRows ==
  /\ mode = "Iterating" =>
       yielded = RowsFrom(start, shown - 1) \o SubSeq(current, 1, position)
  /\ mode = "List" => current = RowsFrom(start, SetLen)
=============================================================================

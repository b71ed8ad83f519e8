---------------------------- MODULE PagedResults ----------------------------
(***************************************************************************)
(* The result of a request, read through either interface: a RequestResult *)
(* (Paging) or the legacy ResultSet. They share no state.                  *)
(***************************************************************************)
EXTENDS Paging, ResultSet

ReadersSpec == PagingSpec /\ SetSpec

\* A result is read once, whole and in order, whoever reads it and however many tasks
\* share its iterators: Paging's RowsOnceInOrder and PagesOnce, and ResultSetRows.
PagedReads == RowsOnceInOrder /\ PagesOnce /\ ResultSetRows
=============================================================================

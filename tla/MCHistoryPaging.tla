--------------------------- MODULE MCHistoryPaging ---------------------------
(***************************************************************************)
(* Model checking of HistoryPaging: tasks are dealt to the queues in turn. *)
(***************************************************************************)
EXTENDS HistoryPaging

HomeInTurn(t) == (t % Queues) + 1
=============================================================================

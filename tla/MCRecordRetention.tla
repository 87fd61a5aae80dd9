------------------------- MODULE MCRecordRetention -------------------------
(***************************************************************************)
(* Model checking of RecordRetention: the tasks are interchangeable.       *)
(***************************************************************************)
EXTENDS RecordRetention, TLC

AnyTask == Permutations(Task)
=============================================================================

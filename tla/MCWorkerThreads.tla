-------------------------- MODULE MCWorkerThreads --------------------------
(***************************************************************************)
(* Model checking of WorkerThreads: the tasks are interchangeable.         *)
(***************************************************************************)
EXTENDS WorkerThreads, TLC

AnyTask == Permutations(Task)
=============================================================================

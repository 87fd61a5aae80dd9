-------------------------- MODULE MCPayloadStorage --------------------------
(***************************************************************************)
(* Instances of PayloadStorage: two objects, so that a task can be         *)
(* replayed, and a clock long enough for every log entry to fall due.      *)
(* Objects are interchangeable: no definition names one.                   *)
(***************************************************************************)
EXTENDS PayloadStorage, TLC

AnyObject == Permutations(Object)
=============================================================================

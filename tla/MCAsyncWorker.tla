---------------------------- MODULE MCAsyncWorker ----------------------------
(***************************************************************************)
(* AsyncWorker on small instances.                                         *)
(***************************************************************************)
EXTENDS AsyncWorker, TLC

Symmetry == Permutations(Calls)
=============================================================================

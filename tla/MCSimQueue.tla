------------------------------ MODULE MCSimQueue ------------------------------
(***************************************************************************)
(* SimQueue for TLC.  Workers are interchangeable, and so are API          *)
(* requests; simulations are not, since the dispatcher picks the oldest.   *)
(***************************************************************************)
EXTENDS SimQueue, TLC

ProcSymmetry == Permutations(Worker) \cup Permutations(Api)
=============================================================================

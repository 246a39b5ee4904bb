--------------------------- MODULE MCCounselWorker ---------------------------
(***************************************************************************)
(* Instances of CounselWorker for TLC: two executions of one job.          *)
(***************************************************************************)
EXTENDS CounselWorker, TLC

WorkerSymmetry == Permutations(Worker)
=============================================================================

----------------------------- MODULE MCJobStore -----------------------------
(***************************************************************************)
(* Instances of JobStore for TLC: one or two jobs of one scope, a batch    *)
(* job and an interactive one, and workers that lease under one owner      *)
(* name, as every counsel drain process does.                              *)
(***************************************************************************)
EXTENDS JobStore, TLC

OneJob == {1}
TwoJobs == {1, 2}
MCScopeOf == [j \in Job |-> CHOOSE s \in Scope : TRUE]
MCPriorityOf == [j \in Job |-> IF j = 1 THEN 0 ELSE 2]
MCSweepScope == [w \in Worker |-> CHOOSE s \in Scope : TRUE]
MCOwnerOf == [w \in Worker |-> CHOOSE o \in Owner : TRUE]
WorkerSymmetry == Permutations(Worker)
=============================================================================

-------------------------- MODULE MCProblemRevision --------------------------
(***************************************************************************)
(* ProblemRevision for TLC.  Handlers are interchangeable, and so are keys *)
(***************************************************************************)
EXTENDS ProblemRevision, TLC

Symmetry == Permutations(Handler) \cup Permutations(Key)
=============================================================================

--------------------------- MODULE MCProblemService ---------------------------
(***************************************************************************)
(* Instances of ProblemService for TLC.                                    *)
(***************************************************************************)
EXTENDS ProblemService
=============================================================================

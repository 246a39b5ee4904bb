---------------------------- MODULE MCProblemJob ----------------------------
(***************************************************************************)
(* Instances of ProblemJob for TLC.                                        *)
(***************************************************************************)
EXTENDS ProblemJob

\* The attempts of an item the code allows, PROBLEM_GENERATION_ITEM_ATTEMPT_LIMIT.
AttemptLimit == 3
=============================================================================

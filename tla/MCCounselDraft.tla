--------------------------- MODULE MCCounselDraft ---------------------------
(***************************************************************************)
(* Instances of CounselDraft for TLC.                                      *)
(***************************************************************************)
EXTENDS CounselDraft, TLC

HandlerSymmetry == Permutations(Handler)
=============================================================================

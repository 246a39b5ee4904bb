---------------------------- MODULE MCInquiryClass ----------------------------
(***************************************************************************)
(* InquiryClass for TLC.  Handlers, axes and values are interchangeable.   *)
(***************************************************************************)
EXTENDS InquiryClass, TLC

Symmetry == Permutations(Handler) \cup Permutations(Axis) \cup Permutations(Value)
=============================================================================

--------------------------- MODULE MCSealAndSend ---------------------------
(***************************************************************************)
(* Instances of SealAndSend for TLC: two or three revisions of one invoice, *)
(* two approvals and two sends that may each be repeated.                   *)
(***************************************************************************)
EXTENDS SealAndSend, TLC

CONSTANTS a1, a2, k1, k2

MCApprovalKey == {a1, a2}
MCSendKey == {k1, k2}

\* Keys are interchangeable.
KeySymmetry == Permutations(MCApprovalKey) \cup Permutations(MCSendKey)

=============================================================================

-------------------------- MODULE MCTokenRotation --------------------------
(***************************************************************************)
(* Instance of TokenRotation for TLC: one caller of each kind, all three    *)
(* after the same parameter, and three bundles.                             *)
(***************************************************************************)
EXTENDS TokenRotation

CONSTANTS m1, p1, k1

MCMemory == {m1}
MCPublic == {p1}
MCCanary == {k1}

=============================================================================

--------------------------- MODULE MCReceiptTrail ---------------------------
(***************************************************************************)
(* One invoice and one bare case; three captures, two of them observed at   *)
(* the same time and one printing both clauses; a clause that two readings  *)
(* fit, one of which leaves no overcharge; two runs, two approvers.         *)
(***************************************************************************)
EXTENDS ReceiptTrail, TLC

CONSTANTS invoice, bare, c1, c2, c3, t1, t2, low, mid, high, r1, r2, a1, a2, k1

MCCapturedAt == c1 :> 1 @@ c2 :> 1 @@ c3 :> 2
MCReceivedAt == invoice :> 2
MCPrinted == c1 :> {t1, t2} @@ c2 :> {t1} @@ c3 :> {t1}
MCStated == t1 :> {low, high} @@ t2 :> {mid}
MCRate == low :> 1 @@ mid :> 2 @@ high :> 3
MCCovered == low :> {invoice} @@ mid :> {invoice} @@ high :> {invoice}
MCClaimed == invoice :> 3

Symmetry == Permutations({r1, r2}) \cup Permutations({a1, a2})
=============================================================================

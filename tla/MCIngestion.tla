---------------------------- MODULE MCIngestion ----------------------------
(***************************************************************************)
(* An instance of Ingestion for TLC: two files, three idempotency keys and  *)
(* three requests in flight, so that one file is sent under several keys    *)
(* and one key is served by overlapping requests.                           *)
(***************************************************************************)
EXTENDS Ingestion, TLC

CONSTANTS k1, k2, k3, b1, b2, r1, r2, r3

MCKey == {k1, k2, k3}
MCBody == {b1, b2}
MCRequest == {r1, r2, r3}

\* Keys, files and requests are interchangeable.
UploadSymmetry ==
  Permutations(MCKey) \cup Permutations(MCBody) \cup Permutations(MCRequest)

=============================================================================

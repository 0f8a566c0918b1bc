-------------------------- MODULE MCDailyRecording --------------------------
(***************************************************************************)
(* Instance of DailyRecording for TLC: one source, two executions that may  *)
(* overlap, two contents of the page and a few days.                        *)
(***************************************************************************)
EXTENDS DailyRecording, TLC

CONSTANTS s1, r1, r2, h1, h2

MCSource == {s1}
MCScheduled == {r1}
MCManual == {r2}
MCDigest == {h1, h2}
Symmetry == Permutations(MCDigest)

=============================================================================

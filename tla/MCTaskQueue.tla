---------------------------- MODULE MCTaskQueue ----------------------------
(***************************************************************************)
(* Instances of TaskQueue for TLC: an extraction task, an ordinary task and *)
(* a binding task, claimed by two overlapping iterations of the runtime.   *)
(***************************************************************************)
EXTENDS TaskQueue

CONSTANTS extract, rule, bind, w1, w2

MCTask == {extract, rule, bind}
MCExtractTask == {extract}
MCBindTask == {bind}
MCWorker == {w1, w2}

\* Two attempts of the extraction and one of the other tasks may be
\* interrupted; the attempt after them runs to its end.
MCAttemptBound == [t \in MCTask |-> IF t = extract THEN 3 ELSE 2]

=============================================================================

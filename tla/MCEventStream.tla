--------------------------- MODULE MCEventStream ---------------------------
(***************************************************************************)
(* Instance of EventStream for TLC: two invoices with three events, two      *)
(* transactions at a time, two relays and one browser.                      *)
(***************************************************************************)
EXTENDS EventStream

CONSTANTS w1, w2, r1, r2, b1

MCInvoice == 1 .. 2
MCMaxSequence == <<2, 1>>
MCWriter == {w1, w2}
MCRelay == {r1, r2}
MCStream == {b1}

=============================================================================

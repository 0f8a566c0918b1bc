------------------------- MODULE MCClauseRetrieval -------------------------
(***************************************************************************)
(* Rows for the rule worker: an expired version that ranks first, two       *)
(* versions at one distance that disagree in part of the time, one of       *)
(* another rate that does not quote the expected one, one that was          *)
(* rejected.  For the receipt retrieval: a row with a sound rate, behind    *)
(* the worker's rows, some of which fit as well but bear another unit, one  *)
(* of them with a source that does not bear it out.  And a row without      *)
(* embedding under the key of another one.                                  *)
(***************************************************************************)
EXTENDS ClauseRetrieval

Stored(id, distance, rate, from, to) ==
  [id |-> id, key |-> id, distance |-> distance, rate |-> rate,
   unit |-> "CALENDAR_DAY", from |-> from, to |-> to,
   verified |-> TRUE, embedded |-> TRUE, inScope |-> TRUE, quoted |-> TRUE,
   fits |-> TRUE, intact |-> TRUE, sound |-> FALSE]

Receipt(id, distance, rate) ==
  [Stored(id, distance, rate, 2, 3) EXCEPT !.unit = "per_day", !.sound = TRUE]

MCLibrary ==
  {Stored(1, 1, 1, 1, 1),
   Stored(2, 2, 2, 1, 3),
   [Stored(3, 2, 3, 2, 3) EXCEPT !.intact = FALSE],
   [Stored(4, 1, 3, 1, 3) EXCEPT !.quoted = FALSE, !.fits = FALSE],
   [Stored(5, 1, Null, 1, 3) EXCEPT !.verified = FALSE],
   Receipt(6, 3, 2),
   [Receipt(7, 0, 2) EXCEPT !.key = 2, !.embedded = FALSE, !.inScope = FALSE, !.fits = FALSE]}

MCPeriod == {{1}, {2}, {2, 3}}
=============================================================================

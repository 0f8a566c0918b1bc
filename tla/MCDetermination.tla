-------------------------- MODULE MCDetermination --------------------------
(***************************************************************************)
(* Instance of Determination for TLC: a timeline with a repeated end of free *)
(* time, a foreign gate-out and two snapshots; two clauses that may conflict *)
(* or not be in effect; invoices inside and across the window, over, under   *)
(* and at the rule's rate.                                                  *)
(***************************************************************************)
EXTENDS Determination

Event(ref, type, at, effective, owned) ==
  [ref |-> ref, type |-> type, at |-> at, effective |-> effective,
   owned |-> owned, asserts |-> TRUE]

MCRow ==
  {Event(1, "AVAILABLE", 1, None, TRUE),
   Event(2, "FREE_TIME_END", 4, None, TRUE),
   Event(3, "FREE_TIME_END", 6, None, TRUE),
   Event(4, "GATE_OUT", 7, None, TRUE),
   Event(5, "GATE_OUT", 5, None, FALSE),
   Event(6, "TERMINAL_ACCESS_SNAPSHOT", 5, 2, TRUE),
   Event(7, "TERMINAL_ACCESS_SNAPSHOT", 6, None, TRUE)}

MCClause ==
  {[rank |-> 1, rate |-> 2, dates |-> 1 .. 3, valid |-> TRUE],
   [rank |-> 2, rate |-> 3, dates |-> 2 .. 3, valid |-> TRUE]}

MCBilled == {{1, 2}, {2, 3}}
MCRates == {1, 3}

=============================================================================

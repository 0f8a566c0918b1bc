------------------------- MODULE MCInvoicePipeline -------------------------
(***************************************************************************)
(* Instances of InvoicePipeline for TLC.  Every container an invoice bills  *)
(* has a snapshot that was VERIFIED from the start, so that access is       *)
(* required of every charged day, and at least one that is still PENDING.   *)
(***************************************************************************)
EXTENDS InvoicePipeline

CONSTANTS i1, i2, w1, w2, c1, c2

Containers == {c1, c2}
OneInvoice == {i1}
TwoInvoices == {i1, i2}
Bills == [i \in Invoice |-> IF i = i1 THEN c1 ELSE c2]

\* One shipment: the snapshot of day 1 is visible, that of day 2 withheld.
OneShipment == 1 .. 2
OneContainer == [s \in OneShipment |-> c1]
OneShipmentDays == [s \in OneShipment |-> s]
BothDays == [i \in Invoice |-> {1, 2}]

\* A shipment whose earliest withheld snapshot is another container's, with a
\* snapshot of its own withheld for day 3, and none retained for day 4.
MixedShipment == 1 .. 3
MixedContainer == [s \in MixedShipment |-> IF s = 2 THEN c2 ELSE c1]
MixedDays == [s \in MixedShipment |-> s]
LongStay == [i \in Invoice |-> {1, 3, 4}]

\* Two shipments of one tenant, each with a snapshot of day 1 visible and one
\* withheld, of day 2 and of day 3; day 4 has none.
TwoShipments == 1 .. 4
TwoContainers == [s \in TwoShipments |-> IF s \in {1, 3} THEN c1 ELSE c2]
TwoShipmentDays == [s \in TwoShipments |-> IF s \in {1, 2} THEN 1 ELSE s - 1]
TwoStays == [i \in Invoice |-> IF i = i1 THEN {1, 2, 4} ELSE {1, 3}]

RetainedOne == {1}
RetainedTwo == {1, 2}

\* No attempt is interrupted; or the first one of every task may be; or the
\* first one of the tasks that lead from a withheld decision to the next.
Uninterrupted == [t \in Task |-> 1]
Interrupted == [t \in Task |-> 2]
BindingInterrupted == [t \in Task |-> IF t.kind \in {"RECON", "BIND"} THEN 2 ELSE 1]

\* State constraints: in one behaviour at most one task needs a second
\* attempt; nothing is sealed; and no day lacks anything but its snapshot.
SecondAttempts == Cardinality({t \in Task : attempt[t] > 1})
OneSecondAttempt == SecondAttempts <= 1
NothingSealed == \A i \in Invoice : sealed[i] = {}
AccessOnly ==
  NothingSealed /\ \A i \in Invoice : \A v \in 1 .. Len(recon[i]) : recon[i][v].other = "none"

OneWorker == {w1}
TwoWorkers == {w1, w2}

=============================================================================
